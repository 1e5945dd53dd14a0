SPECIFICATION DeviceSpec
CONSTANTS
    NumRelays = 1
    Commands <- MCInquiryCommands
    BrokerCommands <- MCNoCommands
    Lines <- MCInquiries
    Doubles <- MCGarbage
    NotANumber = NotANumber
    Prices <- MCPrices
    ConnectionUpdates <- MCConnectionUpdates
    RelayQueueLen = 1
    PriceQueueLen = 1
    TransmitQueueLen = 1
    DisplayQueueLen = 1
PROPERTIES
    InquiryChangesNothing
