SPECIFICATION Spec
CONSTANTS
    Clients = {1}
    HostChoices <- OneApp
    Stores <- OneStore
    Keys = {k1}
    Internal = {}
    Empty = Empty
    Absent = Absent
    Partial = Partial
    Values = {v1}
    Ops = {"setItem", "clear", "look"}
    Requests = {}
    Overlays = FALSE
    MaxActs = 2
    MaxLoads = 2
INVARIANTS
    ReadsAreRight
CHECK_DEADLOCK FALSE
