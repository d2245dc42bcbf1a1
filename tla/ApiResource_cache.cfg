SPECIFICATION FairSpec
CONSTANTS
    Ids = {m1}
    Views = {plain}
    Plain = plain
    Lists = {l1}
    NumCalls = 3
    MaxClears = 1
    Values = {v1, v2}
    Stored = {v1}
    Unborn = Unborn
    Gone = Gone
PROPERTIES
    FetchesAreFresh
    CallsSettle
    ServedInLine
CHECK_DEADLOCK FALSE
