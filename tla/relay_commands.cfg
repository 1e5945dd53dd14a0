SPECIFICATION Spec
CONSTANTS
    NumRelays = 2
    Commands <- MCCommands
    Prices <- MCPrices
    ConnectionUpdates <- MCConnectionUpdates
    RelayQueueLen = 1
    PriceQueueLen = 1
    TransmitQueueLen = 1
    DisplayQueueLen = 1
INVARIANTS
    TypeOK
    AutoFollowsPrice
    ReportsFollowPrice
PROPERTIES
    ManualHolds
    Refines
    IterationEnds
