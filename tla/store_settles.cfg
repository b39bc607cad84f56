SPECIFICATION SettleSpec
CONSTANTS
    h1 = h1
    h2 = h2
    c1 = c1
    c2 = c2
    c3 = c3
    c4 = c4
    NoCall = NoCall
    Host <- Hosts
    Call <- Calls3
    HostOf <- HostOf3
    Kinds <- CreateAndArchive
    MaxCrashes = 1
    SlowHolders = TRUE
PROPERTIES EveryCallSettles DeadLockIsBroken
CHECK_DEADLOCK FALSE
