SPECIFICATION Spec
CONSTANTS
    NoRow = NoRow
    Forever = Forever
    NoFuture = NoFuture
    NoTxn = NoTxn
    NoJob = NoJob
    Checker = Checker
    Main = Main
    MaxRepeat = 1
    Jobs = {j1, j2}
    FixedIds = {}
    Futures = {f1, f2}
    Requests = {r1, r2, r3}
    RegularWorkers = 1
    HighWorkers = 1
    Ops = {"enqueue", "cancel", "delete"}
    Kinds <- KindsMixed
    Body = {"raise", "checkCancel"}
    Endings = {"stop", "crash"}
    MaxEndings = 1
SYMMETRY Symmetric
INVARIANTS
    NoConcurrentRuns
    
    RegularLeavesRoomForHigh
