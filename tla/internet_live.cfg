SPECIFICATION FairSpec
CONSTANTS
    home = home
    other = other
    NoNetwork = NoNetwork
    Garbage = Garbage
    Networks <- MCNetworks
    Joinable = {home}
    DriverRefuses = TRUE
    MaxRetry = 1
    EventQueueLen = 2
    MaxPosts = 1
    MaxPowerLosses = 1
PROPERTIES
    PostAnsweredByAP
    LossEndsInRestart
    UselessSettingsOpenAP
CHECK_DEADLOCK FALSE
