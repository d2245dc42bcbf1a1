SPECIFICATION FairSpec
CONSTANTS
    Users = {u1, u2}
    Own = Own
    Facilities = {f1}
    Requests = {r1, r2}
    None = None
    MaxDetours = 2
INVARIANTS
    ImportedAreHere
    NewFacilityIsAnswered
PROPERTIES
    ImportIsShown
CHECK_DEADLOCK FALSE
