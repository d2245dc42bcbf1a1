SPECIFICATION FairSpec
CONSTANTS
    Users = {u1, u2}
    Nobody = Nobody
    Unknown = Unknown
    MinReconnect = 5
    TimeoutReconnect = 60
    MaxReconnect = 600
    MaxOutages = 2
    MaxFailures = 2
    MaxSessions = 1
INVARIANTS
    NeverStops
PROPERTIES
    BackoffHolds
    Reconnects
    StaleIsLeft
    
CHECK_DEADLOCK FALSE
