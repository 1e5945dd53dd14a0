SPECIFICATION FairPathSpec
CONSTANTS
    NumRelays = 1
    Inbox <- MCLiveInbox
    Commands <- MCLiveParsed
    Prices <- MCNoPrices
    ConnectionUpdates <- MCConnectionUpdates
    ReceiveQueueLen = 1
    MaxDelivered = 0
    RelayQueueLen = 1
    PriceQueueLen = 1
    TransmitQueueLen = 1
    DisplayQueueLen = 1
PROPERTIES
    KeepsReceiving
    PriceServed
    PingAnswered
