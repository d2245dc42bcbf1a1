---------------------------- MODULE TaskRunnerInv ----------------------------
(***************************************************************************)
(* The inductive invariants behind the theorems of TaskRunnerProofs.  They *)
(* say which thread can be where when, who may still write what to a row,  *)
(* and who answers for the state that a row shows.                         *)
(***************************************************************************)
EXTENDS TaskRunner

-----------------------------------------------------------------------------
(* Shape: what the counters of the threads say about their other fields.   *)

\* The places where a thread of each kind may hold a transaction.
UpdatePcs == {"markRunning", "progress", "saveCancellable", "finish", "merge"}
MarkPcs == {"markQueued", "markCanceling", "markCanceled"}

ExecShape ==
    \A f \in Futures :
        /\ exec[f].pc # "free" => exec[f].job \in Jobs
        /\ exec[f].pc \in {"schedule", "merge"} => exec[f].next \in Row
        /\ txn[f] # NoTxn =>
             /\ exec[f].pc \in UpdatePcs /\ txn[f].job = exec[f].job
             /\ txn[f].loaded = NoRow => exec[f].pc = "merge"

RequestShape ==
    \A r \in Requests :
        /\ req[r].pc \notin {"new", "done"} => req[r].job \in Jobs
        /\ req[r].pc \in {"clearFirst", "schedule", "merge"} => req[r].next \in Row
        /\ txn[r] # NoTxn =>
             /\ req[r].pc \in {"merge", "mark"} /\ txn[r].job = req[r].job
             /\ txn[r].loaded = NoRow => req[r].pc = "merge"

CheckerShape ==
    /\ chk.pc = "select" => /\ txn[Checker] # NoTxn
                            /\ txn[Checker].new = Selected(txn[Checker].loaded)
    /\ chk.pc = "mark" => chk.job \in Jobs
    /\ txn[Checker] # NoTxn => /\ chk.pc \in {"select", "mark"}
                               /\ txn[Checker].job = chk.job
                               /\ txn[Checker].loaded # NoRow
    /\ main.pc \notin {"up", "stopping"} => chk.pc = "off"

MainShape ==
    /\ main.pc \in MarkPcs \cup {"drop"} => main.job \in Jobs
    /\ txn[Main] # NoTxn => /\ main.pc \in MarkPcs
                            /\ txn[Main].job = main.job
                            /\ txn[Main].loaded # NoRow
    /\ main.pc \in {"down", "requeue", "markQueued"} =>
         \A f \in Futures : exec[f].pc = "free"

TypeInv == TypeOK /\ ExecShape /\ RequestShape /\ CheckerShape /\ MainShape

-----------------------------------------------------------------------------
(* Who writes what: a commit changes the state column only when it differs *)
(* from what was loaded.                                                   *)

Writes(a, s) ==
    /\ txn[a] # NoTxn
    /\ txn[a].new.state = s
    /\ txn[a].loaded = NoRow \/ txn[a].loaded.state # s

WritersInv ==
    /\ \A f \in Futures :
        /\ Writes(f, "QUEUED") => exec[f].pc = "merge"
        /\ Writes(f, "RUNNING") => exec[f].pc = "markRunning"
        /\ exec[f].pc = "finish" /\ txn[f] # NoTxn => txn[f].new.state \in FinishedStates
        /\ exec[f].pc \in {"schedule", "merge"} => exec[f].next.state = "QUEUED"
    /\ \A r \in Requests :
        /\ Writes(r, "QUEUED") => req[r].pc = "merge"
        /\ ~Writes(r, "RUNNING")
        /\ req[r].pc \in {"clearFirst", "schedule", "merge"} => req[r].next.state = "QUEUED"
    /\ ~Writes(Checker, "QUEUED") /\ ~Writes(Checker, "RUNNING")
    /\ Writes(Main, "QUEUED") => main.pc = "markQueued"
    /\ ~Writes(Main, "RUNNING")

-----------------------------------------------------------------------------
(* RunningIsBacked.                                                        *)

\* Execution f will take the row of its job out of RUNNING.
Answers(f) ==
    \/ exec[f].pc \in {"check", "func", "progress", "saveCancellable"}
    \/ /\ exec[f].pc = "finish"
       /\ txn[f] # NoTxn => txn[f].loaded.state = "RUNNING"

BackedInv ==
    /\ main.pc \notin {"down", "requeue", "markQueued"} =>
         \A j \in RunningJobs : \E f \in Futures : Answers(f) /\ exec[f].job = j
    /\ main.pc = "requeue" => RunningJobs \subseteq main.todo
    /\ main.pc = "markQueued" =>
         /\ RunningJobs \subseteq main.todo \cup {main.job}
         /\ txn[Main] # NoTxn =>
              /\ txn[Main].new.state = "QUEUED"
              /\ main.job \in RunningJobs => txn[Main].loaded.state = "RUNNING"

-----------------------------------------------------------------------------
(* NoConcurrentRuns, for a runner whose job ids are all fresh and whose    *)
(* requests neither update nor restart a job.                              *)

FreshIdsOnly == FixedIds = {} /\ Ops \cap {"update", "restart"} = {}

Scheduling(r) == req[r].pc \in {"schedule", "merge"}

\* Nothing has happened to job id j yet.
Unborn(j) ==
    /\ ~Exists(j)
    /\ \A f \in Futures : exec[f].pc # "free" => exec[f].job # j
    /\ chk.pc = "select" => chk.job # j

\* Only the request that enqueues a job can bring it into the world.
BirthInv ==
    /\ \A r \in Requests : req[r].pc \notin {"restart", "clearFirst"}
    /\ \A j \in Jobs \ used :
         Unborn(j) /\ \A r \in Requests : Scheduling(r) => req[r].job # j
    /\ \A r \in Requests : Scheduling(r) => Unborn(req[r].job)
    /\ \A r, q \in Requests :
         Scheduling(r) /\ Scheduling(q) /\ req[r].job = req[q].job => r = q

\* A job in the queue, or on its way from the queue to the pool, has no live
\* execution; what is on its way was in the queue.
QueuedIsIdle ==
    /\ \A f \in Futures : Live(f) =>
        /\ Exists(exec[f].job) => jobs[exec[f].job].state # "QUEUED"
        /\ chk.pc = "select" => chk.job # exec[f].job
    /\ chk.pc = "select" => txn[Checker].loaded.state = "QUEUED"

RunsInv == BirthInv /\ QueuedIsIdle /\ NoConcurrentRuns

-----------------------------------------------------------------------------
(* RegularLeavesRoomForHigh, for a runner with fresh ids where no job is   *)
(* retried at once: handle_finished_future drops a mapping by job id,      *)
(* which must not be that of the next execution of the job.                *)

NoRetryAtOnce == "retryNow" \notin Body /\ \A k \in Kinds : k.retry # "now"

\* No row, written or on its way, has a retry interval of 0.
RetriesInv ==
    /\ \A j \in Jobs : Exists(j) => jobs[j].retry # "now"
    /\ \A a \in Actors : txn[a] # NoTxn => txn[a].new.retry # "now"
    /\ \A r \in Requests :
        req[r].pc \in {"clearFirst", "schedule", "merge"} => req[r].next.retry # "now"
    /\ \A f \in Futures : exec[f].pc \in {"schedule", "merge"} => exec[f].next.retry # "now"

\* Only a request makes a job due at once, and only when it merges its row.
DelaysInv ==
    /\ \A f \in Futures :
        /\ exec[f].delay # "now"
        /\ txn[f] # NoTxn => txn[f].time = IF exec[f].pc = "merge" THEN "later" ELSE "keep"
    /\ \A r \in Requests :
        txn[r] # NoTxn /\ txn[r].time # "keep" => req[r].pc = "merge"
    /\ \A a \in {Checker, Main} : txn[a] # NoTxn => txn[a].time = "keep"

\* A job whose execution is over but for its callback is not there to be picked,
\* and the one that was picked has no execution left.
OverIsLater ==
    /\ \A f \in Futures :
        exec[f].pc = "over" =>
            LET j == exec[f].job IN ~(Exists(j) /\ jobs[j].state = "QUEUED" /\ IsDue(j))
    /\ chk.pc = "select" =>
        \A f \in Futures : exec[f].pc # "free" => exec[f].job # chk.job

\* Every execution is the one that its job maps to, so that Busy counts it.
TrackedInv == \A f \in Futures : exec[f].pc # "free" => fjm[exec[f].job] = f

\* A job of regular priority is on its way to the pool only while a regular
\* worker is free: executions end meanwhile, and none begins.
RoomInv ==
    /\ chk.pc = "select" /\ txn[Checker].loaded.priority > HIGH => Busy < RegularWorkers
    /\ RegularLeavesRoomForHigh
-----------------------------------------------------------------------------
(* OneLife, for jobs that run once: with fresh ids, without repeats, retries *)
(* and crashes, and with functions that save nothing.  (A retry at low       *)
(* priority is let in, as nobody picks it up.)                               *)

RunsOnce ==
    /\ "crash" \notin Endings \/ MaxEndings = 0
    /\ \A k \in Kinds : k.repeat = 0 /\ k.retry = "none"
    /\ Body \cap {"progress", "saveCancellable", "retryNow", "retryLater"} = {}

Once(row) == row.repeat = 0 /\ row.retry = "none"

\* A server that was stopped and waited for left no job running.
UpInv ==
    /\ main.pc # "markQueued"
    /\ main.pc \in {"down", "requeue"} => main.todo = {} /\ RunningJobs = {}

\* No row asks for another run but at low priority.
OnceInv ==
    /\ \A j \in Jobs : Exists(j) => Once(jobs[j])
    /\ \A a \in Actors : txn[a] # NoTxn => Once(txn[a].new)
    /\ \A r \in Requests : Scheduling(r) => Once(req[r].next) /\ req[r].next.saved.state = "QUEUED"
    /\ \A f \in Futures :
        /\ exec[f].pc \notin {"progress", "saveCancellable"}
        /\ exec[f].delay # "none" => exec[f].lower = TRUE
        /\ exec[f].pc \in {"schedule", "merge"} => Once(exec[f].next) /\ exec[f].next.priority = LOW

\* What the transactions of requests, of executions and of the stop write;
\* only a merge changes a priority.
Merges(a) == \/ a \in Futures /\ exec[a].pc = "merge"
             \/ a \in Requests /\ req[a].pc = "merge"

WritesInv ==
    /\ \A a \in Actors : txn[a] # NoTxn =>
        Merges(a) \/ (txn[a].loaded # NoRow /\ txn[a].new.priority = txn[a].loaded.priority)
    /\ \A r \in Requests : txn[r] # NoTxn =>
        /\ req[r].pc = "mark" => txn[r].new = Marked(txn[r].loaded, "CANCELING")
        /\ req[r].pc = "merge" => txn[r].new = req[r].next
    /\ txn[Main] # NoTxn /\ main.pc = "markCanceling"
         => txn[Main].new = Marked(txn[Main].loaded, "CANCELING")
    /\ \A f \in Futures : txn[f] # NoTxn =>
        /\ exec[f].pc = "markRunning" => txn[f].new = Marked(txn[f].loaded, "RUNNING")
        /\ exec[f].pc = "merge" =>
             LET j == exec[f].job IN
             /\ txn[f].new.priority = LOW
             /\ txn[f].loaded # NoRow /\ txn[f].loaded.priority = LOW /\ Exists(j)
                  => jobs[j].priority = LOW

\* An execution before its run, and the stop at work on one of its jobs.
EarlyPcs == {"pending", "getJob", "markRunning"}
StopPcs  == {"markCanceling", "drop", "markCanceled"}

\* Job j has its run ahead of it.
Waits(j) ==
    \/ j \notin used
    \/ \E r \in Requests : Scheduling(r) /\ req[r].job = j
    \/ Exists(j) /\ jobs[j].state = "QUEUED" /\ jobs[j].priority # LOW
    \/ chk.pc = "select" /\ chk.job = j
    \/ \E f \in Futures : exec[f].pc \in EarlyPcs /\ exec[f].job = j

\* A job that is in its run, from the check for a cancellation on.
InRun(j) == \E f \in Futures : exec[f].pc \notin EarlyPcs \cup {"free"} /\ exec[f].job = j

\* A job waits, runs and is over, in this order, and comes back to nothing it has
\* left: no stop, restart or request makes its function run a second time.
OneLife ==
    /\ [](\A j \in Jobs : ~(Waits(j) /\ InRun(j)))
    /\ [][\A j \in Jobs : /\ Waits(j)' => Waits(j)
                          /\ InRun(j)' => Waits(j) \/ InRun(j)]_vars

\* Before its run nobody asks for the end of a job: a request to cancel finds
\* QUEUED in the JSON and deletes it, and the stop of the worker lists the jobs
\* that run.
CalmInv ==
    \A j \in Jobs : Waits(j) =>
        /\ Exists(j) => jobs[j].state \in {"QUEUED", "SELECTED"} /\ jobs[j].saved.state = "QUEUED"
        /\ \A r \in Requests : req[r].pc = "mark" => req[r].job # j
        /\ j \notin chk.todo /\ (chk.pc = "mark" => chk.job # j)
        /\ j \notin main.todo /\ (main.pc \in StopPcs => main.job # j)
        /\ \A f \in Futures :
             exec[f].pc \notin EarlyPcs \cup {"free"} => exec[f].job # j
        /\ chk.pc = "select" /\ chk.job = j => txn[Checker].loaded.saved.state = "QUEUED"
=============================================================================
