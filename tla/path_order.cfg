SPECIFICATION PathSpec
CONSTANTS
    NumRelays = 1
    Inbox <- MCInbox
    Commands <- MCParsed
    Prices <- MCPrices
    ConnectionUpdates <- MCConnectionUpdates
    ReceiveQueueLen = 2
    MaxDelivered = 4
    RelayQueueLen = 1
    PriceQueueLen = 1
    TransmitQueueLen = 1
    DisplayQueueLen = 1
INVARIANTS
    ArrivalOrder
PROPERTIES
    RelayTaskSpec
