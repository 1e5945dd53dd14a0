SPECIFICATION Spec
CONSTANTS
    home = home
    other = other
    NoNetwork = NoNetwork
    Garbage = Garbage
    Networks <- MCNetworks
    Joinable = {home}
    DriverRefuses = FALSE
    MaxRetry = 1
    EventQueueLen = 2
    MaxPosts = 1
    MaxPowerLosses = 0
INVARIANTS
    SavedIsEntered
CHECK_DEADLOCK FALSE
