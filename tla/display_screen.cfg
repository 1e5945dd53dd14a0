SPECIFICATION FairDisplaySpec
CONSTANTS
    NumRelays = 1
    Updates <- MCUpdates
    DisplayQueueLen = 2
INVARIANTS
    DisplayTypeOK
    ScreenFollows
PROPERTIES
    ScreenSettles
    PanelRestarts
