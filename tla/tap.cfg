SPECIFICATION MCSpec
CONSTANTS
    Lens <- MCLens
    MaxPackets = 3
    MaxBytes = 5
    Budget = 2
    SendMayFail = TRUE
    MaxReads = 4
    Off = Off
    None = None
    Broadcast = Broadcast
    own = own
    i1 = i1
    m1 = m1
    m2 = m2
INVARIANTS
    CountersMatch
    NoSleepOnPackets
PROPERTIES
    ImplementsDropOldest
    
    
