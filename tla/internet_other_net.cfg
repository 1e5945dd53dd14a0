SPECIFICATION Spec
CONSTANTS
    home = home
    other = other
    NoNetwork = NoNetwork
    Garbage = Garbage
    Networks <- MCNetworks
    Joinable = {home}
    DriverRefuses = FALSE
    MaxRetry = 1
    EventQueueLen = 2
    MaxPosts = 2
    MaxPowerLosses = 0
INVARIANTS
    ConnectsToRequested
CHECK_DEADLOCK FALSE
