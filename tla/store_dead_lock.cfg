SPECIFICATION Spec
CONSTANTS
    h1 = h1
    h2 = h2
    c1 = c1
    c2 = c2
    c3 = c3
    c4 = c4
    NoCall = NoCall
    Host <- Hosts
    Call <- Calls4
    HostOf <- HostOf4
    Kinds <- SaveKinds
    MaxCrashes = 1
    SlowHolders = FALSE
PROPERTIES NoLostUpdate
CHECK_DEADLOCK FALSE
