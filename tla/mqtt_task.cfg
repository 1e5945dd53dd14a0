SPECIFICATION MqttSpec
CONSTANTS
    NumRelays = 1
    Inbox <- MCInbox
    ReceiveQueueLen = 1
    RelayQueueLen = 1
    PriceQueueLen = 1
INVARIANTS
    MqttTypeOK
    LastMentionCounts
PROPERTIES
    NeverStuck
    ReceiveQueueMoves
