SPECIFICATION FairSpec
CONSTANTS
    NoRow = NoRow
    NoUser = NoUser
    Job = Job
    Users = {u1}
    Hooks = {h1}
    MaxAttempts = 1
    MaxCrashes = 1
    MaxRaised = 1
INVARIANTS
    AttemptsBounded
PROPERTIES
    EligibleAreSeen
    SyncingEnds
