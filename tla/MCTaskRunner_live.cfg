SPECIFICATION FairSpec
CONSTANTS
    NoRow = NoRow
    Forever = Forever
    NoFuture = NoFuture
    NoTxn = NoTxn
    NoJob = NoJob
    Checker = Checker
    Main = Main
    MaxRepeat = 1
    Jobs = {j1, j2}
    FixedIds = {}
    Futures = {f1, f2}
    Requests = {r1, r2}
    RegularWorkers = 1
    HighWorkers = 1
    Ops = {"enqueue"}
    Kinds <- KindsLive
    Body = {"raise", "retryLater"}
    Endings = {"stop", "crash"}
    MaxEndings = 0
PROPERTIES
    RetriesHappen
    QueuedJobsStart
    RepeatsForever
