SPECIFICATION Spec
CONSTANTS
    home = home
    other = other
    NoNetwork = NoNetwork
    Garbage = Garbage
    Networks <- MCNetworks
    Joinable = {home}
    DriverRefuses = TRUE
    MaxRetry = 2
    EventQueueLen = 2
    MaxPosts = 2
    MaxPowerLosses = 1
INVARIANTS
    InternetTypeOK
    CleanCallConnects
    CleanCallSettles
    AnsweredForItsOwn
    RequestKept
PROPERTIES
    SavesConnected
CHECK_DEADLOCK FALSE
