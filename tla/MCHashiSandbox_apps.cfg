SPECIFICATION FairSpec
CONSTANTS
    Clients = {1, 2}
    HostChoices <- AppAndOther
    Stores <- TwoStores
    Keys = {k1}
    Internal = {}
    Empty = Empty
    Absent = Absent
    Partial = Partial
    Values = {v1}
    Ops = {"setItem", "removeItem", "clear", "setProperty", "look", "navigate"}
    Requests = {r1}
    Overlays = FALSE
    MaxActs = 2
    MaxLoads = 2
INVARIANTS
    InStep
PROPERTIES
    StartsFromNewest
    AppRuns
    SavedAtLast
    RequestsSettle
CHECK_DEADLOCK FALSE
