SPECIFICATION FairSpec
CONSTANTS
    NoRow = NoRow
    NoDevice = NoDevice
    NoSync = NoSync
    Devices = {d1, d2}
    Posts = {p1, p2}
    MaxSyncs = 1
    Handshake = 1
    Interval = 4
    StaleTime = 3
    Spread = 0
    MaxStops = 1
INVARIANTS
    TypeOK
    
PROPERTIES
    SurvivorSyncs
