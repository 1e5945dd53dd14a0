SPECIFICATION DeviceSpec
CONSTANTS
    NumRelays = 1
    Commands <- MCCommands
    BrokerCommands <- MCBrokerCommands
    Lines <- MCLines
    Doubles <- MCDoubles
    NotANumber = NotANumber
    Prices <- MCPrices
    ConnectionUpdates <- MCConnectionUpdates
    RelayQueueLen = 1
    PriceQueueLen = 1
    TransmitQueueLen = 1
    DisplayQueueLen = 1
INVARIANTS
    ScreenShowsRelays
