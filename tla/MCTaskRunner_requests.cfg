SPECIFICATION Spec
CONSTANTS
    NoRow = NoRow
    Forever = Forever
    NoFuture = NoFuture
    NoTxn = NoTxn
    NoJob = NoJob
    Checker = Checker
    Main = Main
    MaxRepeat = 1
    Jobs = {j1}
    FixedIds = {j1}
    Futures = {f1, f2}
    Requests = {r1, r2, r3}
    RegularWorkers = 1
    HighWorkers = 1
    Ops = {"enqueueIfNot", "enqueue", "update", "cancel", "cancelIfExists", "clear", "clearall", "delete", "restart"}
    Kinds <- KindsRequests
    Body = {"raise", "retryNow", "saveCancellable", "progress"}
    Endings = {"crash"}
    MaxEndings = 1
SYMMETRY Symmetric
INVARIANTS
    BusyMeansBusy
