------------------------------ MODULE TaskRunner ------------------------------
(***************************************************************************)
(* The task runner of kolibri/core/tasks with its default thread pool and  *)
(* SQLite storage: the Worker with its job checker thread, the executions  *)
(* it hands to the pool, the requests of the tasks API and of the rest of  *)
(* the server that change the same table, and the start, the stop and the  *)
(* crash of the process they all live in.                                  *)
(*                                                                         *)
(* Everything is a thread that alternates reads and writes of the table.   *)
(* An update of a row is two actions: one loads the row into txn[a] with   *)
(* what it is to become, the other commits it.                             *)
(***************************************************************************)
EXTENDS JobStore, FiniteSets

CONSTANTS
    Jobs,            \* job ids
    FixedIds,        \* the ids that a registered task fixes: enqueued again and again
    Futures,         \* bound: executions that exist at the same time
    Requests,        \* bound: requests made to the storage in a behaviour
    Checker, Main,   \* the job checker thread and the server's main thread
    NoFuture, NoTxn, NoJob,
    RegularWorkers,  \* REGULAR_PRIORITY_WORKERS
    HighWorkers,     \* HIGH_PRIORITY_WORKERS
    Ops,             \* the operations that requests perform
    Kinds,           \* the job descriptions that requests enqueue
    Body,            \* what the functions of tasks may do
    Endings,         \* the ways the process may end: it is stopped, it crashes
    MaxEndings       \* bound: how often it ends

MaxWorkers == RegularWorkers + HighWorkers
Actors == Futures \cup Requests \cup {Checker, Main}

ViewOps == {"cancel", "cancelIfExists", "clear", "delete", "restart"}
AllOps == ViewOps \cup {"enqueue", "enqueueIfNot", "update", "clearall"}
AllBody == {"progress", "checkCancel", "saveCancellable", "raise",
            "retryNow", "retryLater", "retryLow"}
Kind == [cancellable : BOOLEAN, priority : {HIGH, REGULAR, LOW},
         repeat : (0 .. MaxRepeat) \cup {Forever}, retry : {"none", "now", "later"}, time : {"now", "later"}]
Txn == [job : Jobs, loaded : Row \cup {NoRow}, new : Row, json : BOOLEAN, time : Times]

ASSUME ConstantsAssumption ==
    /\ FixedIds \subseteq Jobs
    /\ RegularWorkers \in Nat \ {0} /\ HighWorkers \in Nat
    /\ Ops \subseteq AllOps /\ Body \subseteq AllBody /\ Kinds \subseteq Kind
    /\ Endings \subseteq {"stop", "crash"} /\ MaxEndings \in Nat /\ MaxRepeat \in Nat

ASSUME DistinctValues ==
    /\ NoRow \notin Row /\ NoTxn \notin Txn
    /\ NoFuture \notin Futures /\ NoJob \notin Jobs
    /\ Futures \cap Requests = {}
    /\ Checker \notin Futures \cup Requests \cup {Main}
    /\ Main \notin Futures \cup Requests

ASSUME FuturesBound == IsFiniteSet(Futures)

VARIABLES
    jobs,     \* the job table
    agenda,   \* scheduled_time: <<j, k>> when j and k are due, j not after k
    used,     \* ids handed out so far; uuid4 never yields one again
    txn,      \* the open transaction of each thread
    exec,     \* the executions: what job_future_mapping and the pool hold
    fjm,      \* Worker.future_job_mapping
    chk,      \* the job checker thread
    main,     \* the thread that starts and stops the worker
    req,      \* the requests
    ended     \* how often the process has ended

vars == <<jobs, agenda, used, txn, exec, fjm, chk, main, req, ended>>

-----------------------------------------------------------------------------
(* Transactions.                                                           *)

Exists(j) == jobs[j] # NoRow

Load(a, j, row, json, time) ==
    txn' = [txn EXCEPT ![a] = [job |-> j, loaded |-> jobs[j], new |-> row,
                               json |-> json, time |-> time]]

IsDue(j) == <<j, j>> \in agenda
Without(js) == {p \in agenda : p[1] \notin js /\ p[2] \notin js}
AtTheEnd(j) == {<<k, j>> : k \in {i \in Jobs : IsDue(i)} \cup {j}}

Commit(a) ==
    LET t == txn[a] IN
    /\ jobs' = [jobs EXCEPT ![t.job] = Flush(@, t)]
    /\ agenda' = IF t.time = "keep" \/ ~Applies(jobs[t.job], t) THEN agenda
                 ELSE Without({t.job}) \cup (IF t.time = "now" THEN AtTheEnd(t.job) ELSE {})
    /\ txn' = [txn EXCEPT ![a] = NoTxn]

\* First half of _update_job(j, s).  It is skipped when the row is missing.
LoadMark(a, j, s) == Exists(j) /\ Load(a, j, Marked(jobs[j], s), FALSE, "keep")

\* First half of the merge in schedule().
LoadMerge(a, j, row, time) == Load(a, j, row, FALSE, time)

-----------------------------------------------------------------------------
(* The pool.                                                               *)

FreeExec == [pc |-> "free", job |-> NoJob, priority |-> REGULAR,
             cancellable |-> FALSE, outcome |-> "COMPLETED", delay |-> "none",
             lower |-> FALSE, next |-> NoRow]

\* The future keeps the thread it runs on until its done callback returns.
Running(f) == exec[f].pc \notin {"free", "pending"}

Busy == Cardinality({j \in Jobs : fjm[j] # NoFuture})

\* Fault: the mapping from the job id is kept.
UntrackHalf(f) ==
    /\ exec' = [exec EXCEPT ![f] = FreeExec]
    /\ fjm' = fjm

\* handle_finished_future drops both mappings of the future, the second by job
\* id, whichever future that id maps to by now.
Untrack(f) ==
    /\ exec' = [exec EXCEPT ![f] = FreeExec]
    /\ fjm' = [fjm EXCEPT ![exec[f].job] = NoFuture]

-----------------------------------------------------------------------------
(* The job checker.                                                        *)

IdleChecker == [pc |-> "next", job |-> NoJob, todo |-> {}]

\* The queued jobs that are due, by priority and then by scheduled_time.
Due(p) == {j \in Jobs : /\ Exists(j)
                        /\ jobs[j].state = "QUEUED"
                        /\ jobs[j].priority <= p
                        /\ IsDue(j)}
NextQueued(p) ==
    {j \in Due(p) : \A k \in Due(p) \ {j} :
        \/ jobs[j].priority < jobs[k].priority
        \/ jobs[j].priority = jobs[k].priority /\ <<j, k>> \in agenda}

\* Fault: one regular worker too many.
AskedPriorityOffByOne ==
    IF Busy <= RegularWorkers THEN REGULAR
    ELSE IF Busy < MaxWorkers THEN HIGH
    ELSE 0

\* The priority get_next_job asks for with the workers that are busy now; 0
\* when it does not ask.
AskedPriority ==
    IF Busy < RegularWorkers THEN REGULAR
    ELSE IF Busy < MaxWorkers THEN HIGH
    ELSE 0

\* get_next_job up to the SELECT: a job is found ...
CheckerLoad ==
    /\ chk.pc = "next"
    /\ \E j \in NextQueued(AskedPriority) :
         /\ Load(Checker, j, Selected(jobs[j]), FALSE, "keep")
         /\ chk' = [chk EXCEPT !.pc = "select", !.job = j]
    /\ UNCHANGED <<jobs, agenda, used, exec, fjm, main, req, ended>>

\* ... or none is, and check_jobs goes on to the jobs to cancel.
CheckerNone ==
    /\ chk.pc = "next"
    /\ NextQueued(AskedPriority) = {}
    /\ chk' = [chk EXCEPT !.pc = "scan"]
    /\ UNCHANGED <<jobs, agenda, used, txn, exec, fjm, main, req, ended>>

\* The commit of SELECTED, then start_next_job.  When the row has gone the
\* commit raises and the loop of the thread starts over.
CheckerStart ==
    /\ chk.pc = "select"
    /\ chk' = [IdleChecker EXCEPT !.pc = IF Exists(chk.job) THEN "next" ELSE "sleep"]
    /\ Commit(Checker)
    /\ \/ /\ Exists(chk.job)
          /\ \E f \in Futures :
               /\ exec[f].pc = "free"
               /\ exec' = [exec EXCEPT ![f] =
                    [FreeExec EXCEPT !.pc = "pending", !.job = chk.job,
                                     !.priority = txn[Checker].loaded.priority]]
               /\ fjm' = [fjm EXCEPT ![chk.job] = f]
       \/ ~Exists(chk.job) /\ UNCHANGED <<exec, fjm>>
    /\ UNCHANGED <<used, main, req, ended>>

\* get_canceling_jobs.
CheckerScan ==
    /\ chk.pc = "scan"
    /\ chk' = [chk EXCEPT !.pc = "cancel",
                          !.todo = {j \in Jobs : Exists(j) /\ jobs[j].state = "CANCELING"}]
    /\ UNCHANGED <<jobs, agenda, used, txn, exec, fjm, main, req, ended>>

\* The pool can still drop a future that no thread has taken up.  Its callback
\* runs at once, in the thread that asked.
Droppable(j) == fjm[j] # NoFuture /\ exec[fjm[j]].pc = "pending"

CheckerCancel(j) ==
    /\ chk.pc = "cancel" /\ j \in chk.todo
    /\ \/ /\ fjm[j] # NoFuture /\ ~Droppable(j)
          /\ chk' = [chk EXCEPT !.todo = @ \ {j}]
          /\ UNCHANGED <<exec, fjm>>
       \/ /\ Droppable(j)
          /\ Untrack(fjm[j])
          /\ chk' = [chk EXCEPT !.pc = "mark", !.job = j, !.todo = @ \ {j}]
       \/ /\ fjm[j] = NoFuture
          /\ chk' = [chk EXCEPT !.pc = "mark", !.job = j, !.todo = @ \ {j}]
          /\ UNCHANGED <<exec, fjm>>
    /\ UNCHANGED <<jobs, agenda, used, txn, main, req, ended>>

\* mark_job_as_canceled, in two steps or, without a row, in none.
CheckerMark ==
    /\ chk.pc = "mark"
    /\ \/ txn[Checker] = NoTxn /\ LoadMark(Checker, chk.job, "CANCELED")
          /\ UNCHANGED <<jobs, agenda, chk>>
       \/ txn[Checker] = NoTxn /\ ~Exists(chk.job)
          /\ chk' = [chk EXCEPT !.pc = "cancel", !.job = NoJob]
          /\ UNCHANGED <<jobs, agenda, txn>>
       \/ txn[Checker] # NoTxn /\ Commit(Checker)
          /\ chk' = [chk EXCEPT !.pc = "cancel", !.job = NoJob]
    /\ UNCHANGED <<used, exec, fjm, main, req, ended>>

CheckerLoopEnds ==
    /\ chk.pc = "cancel" /\ chk.todo = {}
    /\ chk' = [chk EXCEPT !.pc = "sleep"]
    /\ UNCHANGED <<jobs, agenda, used, txn, exec, fjm, main, req, ended>>

\* The thread looks for a stop request between two runs of check_jobs.
CheckerWakes ==
    /\ chk.pc = "sleep"
    /\ chk' = [chk EXCEPT !.pc = IF main.pc = "stopping" THEN "off" ELSE "next"]
    /\ UNCHANGED <<jobs, agenda, used, txn, exec, fjm, main, req, ended>>

CheckerStep ==
    \/ CheckerLoad \/ CheckerNone \/ CheckerStart \/ CheckerScan
    \/ (\E j \in Jobs : CheckerCancel(j))
    \/ CheckerMark \/ CheckerLoopEnds \/ CheckerWakes

-----------------------------------------------------------------------------
(* An execution: execute_job and Job.execute in a thread of the pool.      *)

\* The pool runs a submitted future when one of its threads is free.
ExecTake(f) ==
    /\ exec[f].pc = "pending"
    /\ Cardinality({g \in Futures : Running(g)}) < MaxWorkers
    /\ exec' = [exec EXCEPT ![f].pc = "getJob"]
    /\ UNCHANGED <<jobs, agenda, used, txn, fjm, chk, main, req, ended>>

\* storage.get_job; JobNotFound ends the future.
ExecGetJob(f) ==
    /\ exec[f].pc = "getJob"
    /\ exec' = [exec EXCEPT ![f] =
         IF Exists(@.job)
           THEN [@ EXCEPT !.pc = "markRunning",
                          !.cancellable = jobs[exec[f].job].saved.cancellable]
           ELSE [@ EXCEPT !.pc = "over"]]
    /\ UNCHANGED <<jobs, agenda, used, txn, fjm, chk, main, req, ended>>

\* What an execution does once an update of its row is committed, or skipped
\* for want of a row.
After == [markRunning |-> "check", progress |-> "func", saveCancellable |-> "func",
          finish |-> "reschedule", merge |-> "over"]

ExecCommit(f) ==
    /\ txn[f] # NoTxn
    /\ Commit(f)
    /\ exec' = [exec EXCEPT ![f].pc = After[@]]
    /\ UNCHANGED <<used, fjm, chk, main, req, ended>>

\* _update_job logs JobNotFound and returns.
ExecSkipUpdate(f) ==
    /\ exec[f].pc \in {"markRunning", "progress", "saveCancellable", "finish"}
    /\ txn[f] = NoTxn
    /\ ~Exists(exec[f].job)
    /\ exec' = [exec EXCEPT ![f].pc = After[@]]
    /\ UNCHANGED <<jobs, agenda, used, txn, fjm, chk, main, req, ended>>

ExecLoad(f) ==
    LET j == exec[f].job IN
    /\ txn[f] = NoTxn
    /\ \/ exec[f].pc = "markRunning" /\ LoadMark(f, j, "RUNNING")
       \/ exec[f].pc = "progress" /\ Exists(j) /\ Load(f, j, jobs[j], TRUE, "keep")
       \/ exec[f].pc = "saveCancellable" /\ Exists(j)
          /\ Load(f, j, WithCancellable(jobs[j], exec[f].cancellable), FALSE, "keep")
       \/ exec[f].pc = "finish" /\ LoadMark(f, j, exec[f].outcome)
       \/ exec[f].pc = "merge" /\ LoadMerge(f, j, exec[f].next, IF exec[f].delay = "now" THEN "now" ELSE "later")
    /\ UNCHANGED <<jobs, agenda, used, exec, fjm, chk, main, req, ended>>

Ends(f, outcome) ==
    exec' = [exec EXCEPT ![f].pc = "finish", ![f].outcome = outcome]

Canceled(f) == exec[f].cancellable /\ JobCanceled(jobs[exec[f].job])

\* The check before the function is called.
ExecCheck(f) ==
    /\ exec[f].pc = "check"
    /\ IF Canceled(f) THEN Ends(f, "CANCELED")
                      ELSE exec' = [exec EXCEPT ![f].pc = "func"]
    /\ UNCHANGED <<jobs, agenda, used, txn, fjm, chk, main, req, ended>>

\* The function polls for a cancellation; UserCancelledError ends it.
FuncPolls(f) ==
    /\ exec[f].pc = "func" /\ "checkCancel" \in Body
    /\ Canceled(f)
    /\ Ends(f, "CANCELED")
    /\ UNCHANGED <<jobs, agenda, used, txn, fjm, chk, main, req, ended>>

\* update_progress; save_as_cancellable, which does nothing without a change;
\* and retry_in, which only leaves a note in the Job object.
FuncActs(f) ==
    /\ exec[f].pc = "func"
    /\ \/ "progress" \in Body /\ exec' = [exec EXCEPT ![f].pc = "progress"]
       \/ "saveCancellable" \in Body
          /\ exec' = [exec EXCEPT ![f].pc = "saveCancellable", ![f].cancellable = ~@]
       \/ "retryNow" \in Body /\ exec' = [exec EXCEPT ![f].delay = "now"]
       \/ "retryLater" \in Body /\ exec' = [exec EXCEPT ![f].delay = "later"]
       \/ "retryLow" \in Body
          /\ exec' = [exec EXCEPT ![f].delay = "later", ![f].lower = TRUE]
    /\ UNCHANGED <<jobs, agenda, used, txn, fjm, chk, main, req, ended>>

FuncReturns(f) ==
    /\ exec[f].pc = "func"
    /\ \/ Ends(f, "COMPLETED")
       \/ "raise" \in Body /\ Ends(f, "FAILED")
    /\ UNCHANGED <<jobs, agenda, used, txn, fjm, chk, main, req, ended>>

\* reschedule_finished_job_if_needed up to the call of schedule().  Without a
\* row it raises JobNotFound, for a row that is not finished JobNotRestartable,
\* and the future ends with the exception.
ExecReschedule(f) ==
    LET j == exec[f].job
        goesOn == Exists(j) /\ Finished(jobs[j]) /\ MustReschedule(jobs[j], exec[f].delay)
    IN
    /\ exec[f].pc = "reschedule"
    /\ exec' = [exec EXCEPT ![f] =
         IF goesOn
           THEN [@ EXCEPT !.pc = "schedule", !.delay = RescheduleTime(jobs[j], exec[f].delay),
                          !.next = Rescheduled(jobs[j], exec[f].delay,
                                               IF exec[f].lower THEN LOW ELSE jobs[j].priority)]
           ELSE [@ EXCEPT !.pc = "over"]]
    /\ UNCHANGED <<jobs, agenda, used, txn, fjm, chk, main, req, ended>>

\* The first query of schedule(): JobRunning ends the future.
ExecSchedule(f) ==
    LET j == exec[f].job IN
    /\ exec[f].pc = "schedule"
    /\ exec' = [exec EXCEPT ![f].pc =
         IF Exists(j) /\ jobs[j].state = "RUNNING" THEN "over" ELSE "merge"]
    /\ UNCHANGED <<jobs, agenda, used, txn, fjm, chk, main, req, ended>>

\* handle_finished_future.
ExecCallback(f) ==
    /\ exec[f].pc = "over"
    /\ Untrack(f)
    /\ UNCHANGED <<jobs, agenda, used, txn, chk, main, req, ended>>

ExecStep(f) ==
    \/ ExecTake(f) \/ ExecGetJob(f) \/ ExecLoad(f) \/ ExecCommit(f) \/ ExecSkipUpdate(f)
    \/ ExecCheck(f) \/ FuncPolls(f) \/ FuncActs(f) \/ FuncReturns(f)
    \/ ExecReschedule(f) \/ ExecSchedule(f) \/ ExecCallback(f)

-----------------------------------------------------------------------------
(* Requests: views of the tasks API and callers elsewhere in the server.   *)

NewRequest == [pc |-> "new", job |-> NoJob, next |-> NoRow, time |-> "keep"]

Goes(r, pc) == req' = [req EXCEPT ![r].pc = pc]

\* Enqueuing a job that has not been handed out yet or whose id is fixed:
\* enqueue_job, enqueue_at and enqueue_in all come down to schedule(), and so
\* does enqueue_job_if_not_enqueued when it finds no queued job of the task.
RequestEnqueue(r, j, k) ==
    /\ req[r].pc = "new"
    /\ \/ "enqueue" \in Ops
       \/ "enqueueIfNot" \in Ops /\ \A i \in Jobs : ~(Exists(i) /\ jobs[i].state = "QUEUED")
    /\ j \in FixedIds \/ j \notin used
    /\ used' = used \cup {j}
    /\ req' = [req EXCEPT ![r] =
         [pc |-> "schedule", job |-> j, time |-> k.time,
          next |-> Scheduled(k.cancellable, k.priority, k.repeat, k.retry)]]
    /\ UNCHANGED <<jobs, agenda, txn, exec, fjm, chk, main, ended>>

\* PATCH: get_job, then schedule() of that job under the new arguments.
RequestUpdate(r, j, k) ==
    /\ req[r].pc = "new" /\ "update" \in Ops
    /\ Exists(j)
    /\ req' = [req EXCEPT ![r] =
         [pc |-> "schedule", job |-> j, time |-> k.time,
          next |-> Scheduled(jobs[j].saved.cancellable, k.priority, k.repeat, k.retry)]]
    /\ UNCHANGED <<jobs, agenda, used, txn, exec, fjm, chk, main, ended>>

\* The other views read the job first and refuse it in some states; what they
\* then do is the next action of the request.  cancel_if_exists, which tasks
\* call on each other, goes straight to the storage.
Accepted(op, row) ==
    /\ op = "cancel" => row.saved.cancellable
    /\ op = "clear"  => row.saved.state \in FinishedStates
    /\ op = "delete" => row.saved.state # "RUNNING"

RequestView(r, j, op) ==
    /\ req[r].pc = "new" /\ op \in Ops
    /\ Exists(j) /\ Accepted(op, jobs[j])
    /\ req' = [req EXCEPT ![r] =
         [NewRequest EXCEPT !.pc = IF op = "cancelIfExists" THEN "cancel" ELSE op, !.job = j]]
    /\ UNCHANGED <<jobs, agenda, used, txn, exec, fjm, chk, main, ended>>

\* The DELETE of clear(): one statement, on the state column.
Delete(js, force) ==
    LET gone == {j \in js : Exists(j) /\ (force \/ Finished(jobs[j]))} IN
    /\ jobs' = [j \in Jobs |-> IF j \in gone THEN NoRow ELSE jobs[j]]
    /\ agenda' = Without(gone)

RequestClearAll(r) ==
    /\ req[r].pc = "new" /\ "clearall" \in Ops
    /\ Delete(Jobs, FALSE)
    /\ Goes(r, "done")
    /\ UNCHANGED <<used, txn, exec, fjm, chk, main, ended>>

RequestDelete(r) ==
    /\ req[r].pc \in {"clear", "delete", "forget"}
    /\ Delete({req[r].job}, req[r].pc # "clear")
    /\ Goes(r, "done")
    /\ UNCHANGED <<used, txn, exec, fjm, chk, main, ended>>

\* Storage.cancel reads the JSON: a queued job is deleted, any other is marked.
RequestCancel(r) ==
    LET j == req[r].job IN
    /\ req[r].pc = "cancel"
    /\ Goes(r, IF ~Exists(j) THEN "done"
               ELSE IF jobs[j].saved.state = "QUEUED" THEN "forget" ELSE "mark")
    /\ UNCHANGED <<jobs, agenda, used, txn, exec, fjm, chk, main, ended>>

\* Storage.restart_job reads the row, deletes a finished job and enqueues it
\* again without its repeats and its retry interval.
RequestRestart(r) ==
    LET j == req[r].job IN
    /\ req[r].pc = "restart"
    /\ req' = [req EXCEPT ![r] =
         IF Exists(j) /\ jobs[j].saved.state \in {"CANCELED", "FAILED"}
           THEN [pc |-> "clearFirst", job |-> j, time |-> "now",
                 next |-> Scheduled(jobs[j].saved.cancellable, jobs[j].priority, 0, "none")]
           ELSE [@ EXCEPT !.pc = "done"]]
    /\ UNCHANGED <<jobs, agenda, used, txn, exec, fjm, chk, main, ended>>

RequestClearFirst(r) ==
    /\ req[r].pc = "clearFirst"
    /\ Delete({req[r].job}, FALSE)
    /\ Goes(r, "schedule")
    /\ UNCHANGED <<used, txn, exec, fjm, chk, main, ended>>

\* schedule(): JobRunning ends the request, otherwise the new row is merged.
RequestSchedule(r) ==
    LET j == req[r].job IN
    /\ req[r].pc = "schedule"
    /\ Goes(r, IF Exists(j) /\ jobs[j].state = "RUNNING" THEN "done" ELSE "merge")
    /\ UNCHANGED <<jobs, agenda, used, txn, exec, fjm, chk, main, ended>>

RequestLoad(r) ==
    LET j == req[r].job IN
    /\ txn[r] = NoTxn
    /\ \/ req[r].pc = "merge" /\ LoadMerge(r, j, req[r].next, req[r].time) /\ UNCHANGED req
       \/ req[r].pc = "mark" /\ LoadMark(r, j, "CANCELING") /\ UNCHANGED req
       \/ req[r].pc = "mark" /\ ~Exists(j) /\ Goes(r, "done") /\ UNCHANGED txn
    /\ UNCHANGED <<jobs, agenda, used, exec, fjm, chk, main, ended>>

RequestCommit(r) ==
    /\ txn[r] # NoTxn
    /\ Commit(r)
    /\ Goes(r, "done")
    /\ UNCHANGED <<used, exec, fjm, chk, main, ended>>

RequestStep(r) ==
    \/ RequestCancel(r) \/ RequestDelete(r) \/ RequestRestart(r) \/ RequestClearFirst(r)
    \/ RequestSchedule(r) \/ RequestLoad(r) \/ RequestCommit(r)

\* The process serves them: none begins while it is down.
RequestBegins(r) ==
    /\ main.pc # "down"
    /\ \/ \E j \in Jobs, k \in Kinds : RequestEnqueue(r, j, k) \/ RequestUpdate(r, j, k)
       \/ \E j \in Jobs, op \in ViewOps : RequestView(r, j, op)
       \/ RequestClearAll(r)

-----------------------------------------------------------------------------
(* The process: start, stop and crash.                                     *)

RunningJobs == {j \in Jobs : Exists(j) /\ jobs[j].state = "RUNNING"}

\* Fault: the worker starts without looking for stalled jobs.
StartForgetful ==
    /\ main.pc = "down"
    /\ main' = [pc |-> "requeue", job |-> NoJob, todo |-> {}]
    /\ UNCHANGED <<jobs, agenda, used, txn, exec, fjm, chk, req, ended>>

\* Worker.__init__: requeue_stalled_jobs takes the list of running jobs ...
Start ==
    /\ main.pc = "down"
    /\ main' = [pc |-> "requeue", job |-> NoJob, todo |-> RunningJobs]
    /\ UNCHANGED <<jobs, agenda, used, txn, exec, fjm, chk, req, ended>>

\* ... and marks them one by one; so does shutdown_workers with CANCELING.
MainNext(todo, pc) ==
    /\ main.pc = todo /\ txn[Main] = NoTxn
    /\ \E j \in main.todo :
         /\ main' = [main EXCEPT !.todo = @ \ {j}, !.job = j, !.pc = pc]
         /\ UNCHANGED <<jobs, agenda, used, txn, exec, fjm, chk, req, ended>>

\* Only then the pool and the checker thread start.
MainUp ==
    /\ main.pc = "requeue" /\ main.todo = {}
    /\ main' = [main EXCEPT !.pc = "up", !.job = NoJob]
    /\ chk' = IdleChecker
    /\ UNCHANGED <<jobs, agenda, used, txn, exec, fjm, req, ended>>

\* shutdown(wait=True): the checker is told to stop and waited for, then the
\* running jobs are listed, asked to cancel and, if the pool can still drop
\* them or does not know them, marked as canceled.
Stop ==
    /\ main.pc = "up" /\ "stop" \in Endings /\ ended < MaxEndings
    /\ main' = [main EXCEPT !.pc = "stopping"]
    /\ ended' = ended + 1
    /\ UNCHANGED <<jobs, agenda, used, txn, exec, fjm, chk, req>>

MainJoined ==
    /\ main.pc = "stopping" /\ chk.pc = "off"
    /\ main' = [pc |-> "shutdown", job |-> NoJob, todo |-> RunningJobs]
    /\ UNCHANGED <<jobs, agenda, used, txn, exec, fjm, chk, req, ended>>

\* The mark that each phase writes and the phase that follows it.
MarkOf == [markQueued |-> "QUEUED", markCanceling |-> "CANCELING", markCanceled |-> "CANCELED"]
Follows == [markQueued |-> "requeue", markCanceling |-> "drop", markCanceled |-> "shutdown"]

MainMark ==
    /\ main.pc \in DOMAIN MarkOf
    /\ \/ /\ txn[Main] = NoTxn
          /\ LoadMark(Main, main.job, MarkOf[main.pc])
          /\ UNCHANGED <<jobs, agenda, main>>
       \/ /\ txn[Main] = NoTxn /\ ~Exists(main.job)
          /\ main' = [main EXCEPT !.pc = Follows[@]]
          /\ UNCHANGED <<jobs, agenda, txn>>
       \/ /\ txn[Main] # NoTxn
          /\ Commit(Main)
          /\ main' = [main EXCEPT !.pc = Follows[@]]
    /\ UNCHANGED <<used, exec, fjm, chk, req, ended>>

\* Worker.cancel: the callback of a dropped future and shutdown_workers both
\* mark the job as canceled; the second time changes nothing more.
MainDrop ==
    /\ main.pc = "drop"
    /\ IF Droppable(main.job) THEN Untrack(fjm[main.job]) ELSE UNCHANGED <<exec, fjm>>
    /\ main' = [main EXCEPT !.pc =
         IF fjm[main.job] = NoFuture \/ Droppable(main.job) THEN "markCanceled" ELSE "shutdown"]
    /\ UNCHANGED <<jobs, agenda, used, txn, chk, req, ended>>

\* workers.shutdown(wait=True): what was submitted still runs to its end.
MainDown ==
    /\ main.pc = "shutdown" /\ main.todo = {}
    /\ \A f \in Futures : exec[f].pc = "free"
    /\ main' = [main EXCEPT !.pc = "down", !.job = NoJob]
    /\ UNCHANGED <<jobs, agenda, used, txn, exec, fjm, chk, req, ended>>

\* The process dies: every thread with its transaction is gone, the table stays.
Crash ==
    /\ main.pc # "down" /\ "crash" \in Endings /\ ended < MaxEndings
    /\ main' = [pc |-> "down", job |-> NoJob, todo |-> {}]
    /\ chk' = [IdleChecker EXCEPT !.pc = "off"]
    /\ exec' = [f \in Futures |-> FreeExec]
    /\ fjm' = [j \in Jobs |-> NoFuture]
    /\ txn' = [a \in Actors |-> NoTxn]
    /\ req' = [r \in Requests |-> IF req[r].pc = "new" THEN req[r] ELSE [req[r] EXCEPT !.pc = "done"]]
    /\ ended' = ended + 1
    /\ UNCHANGED <<jobs, agenda, used>>

MainStep ==
    \/ Start \/ MainNext("requeue", "markQueued") \/ MainUp
    \/ MainJoined \/ MainNext("shutdown", "markCanceling") \/ MainMark \/ MainDrop \/ MainDown

-----------------------------------------------------------------------------
\* scheduled_time is reached, where it was not set to the present.  A later time
\* is further away than a future takes to run its callback, so the new time of
\* a job whose execution is over is not reached before that; a delay or a retry
\* interval of 0 is "now", and the job is due at once.
TimePasses(j) ==
    /\ Exists(j) /\ ~IsDue(j)
    /\ \A f \in Futures : exec[f].job = j => exec[f].pc # "over"
    /\ agenda' = agenda \cup AtTheEnd(j)
    /\ UNCHANGED <<jobs, used, txn, exec, fjm, chk, main, req, ended>>

Init ==
    /\ jobs = [j \in Jobs |-> NoRow]
    /\ agenda = {}
    /\ used = {}
    /\ txn = [a \in Actors |-> NoTxn]
    /\ exec = [f \in Futures |-> FreeExec]
    /\ fjm = [j \in Jobs |-> NoFuture]
    /\ chk = [IdleChecker EXCEPT !.pc = "off"]
    /\ main = [pc |-> "down", job |-> NoJob, todo |-> {}]
    /\ req = [r \in Requests |-> NewRequest]
    /\ ended = 0

Next ==
    \/ CheckerStep
    \/ \E f \in Futures : ExecStep(f)
    \/ \E r \in Requests : RequestBegins(r) \/ RequestStep(r)
    \/ MainStep \/ Stop \/ Crash
    \/ \E j \in Jobs : TimePasses(j)

Spec == Init /\ [][Next]_vars

(* Fairness.  Every thread keeps running, and the clock with them; nobody    *)
(* is obliged to make a request, to stop the server or to crash it, and what *)
(* the function of a task does is its own business.                          *)
ThreadsRun ==
    /\ WF_vars(CheckerStep) /\ WF_vars(MainStep)
    /\ \A f \in Futures : WF_vars(exec[f].pc # "func" /\ ExecStep(f))
    /\ \A r \in Requests : WF_vars(RequestStep(r))
    /\ \A j \in Jobs : WF_vars(TimePasses(j))

\* The functions of tasks come to an end ...
FairSpec == Spec /\ ThreadsRun /\ \A f \in Futures : SF_vars(FuncReturns(f))

\* ... or, while they may go on for as long as they like, poll for a cancellation.
PollingSpec == Spec /\ ThreadsRun /\ \A f \in Futures : SF_vars(FuncPolls(f))

-----------------------------------------------------------------------------
(* Properties.                                                             *)

ExecPcs == {"free", "pending", "getJob", "markRunning", "check", "func", "progress",
            "saveCancellable", "finish", "reschedule", "schedule", "merge", "over"}
CheckerPcs == {"off", "next", "select", "scan", "cancel", "mark", "sleep"}
MainPcs == {"down", "requeue", "up", "stopping", "shutdown", "drop",
            "markQueued", "markCanceling", "markCanceled"}
RequestPcs == {"new", "schedule", "merge", "cancel", "mark", "forget", "clear",
               "delete", "restart", "clearFirst", "done"}

ExecRecord == [pc : ExecPcs, job : Jobs \cup {NoJob}, priority : {HIGH, REGULAR, LOW},
               cancellable : BOOLEAN, outcome : FinishedStates,
               delay : {"none", "now", "later"}, lower : BOOLEAN,
               next : Row \cup {NoRow}]

\* Every variable of the runner holds a value of the shape the code gives it;
\* a future that is tracked or running belongs to a job.
TypeOK ==
    /\ jobs \in [Jobs -> Row \cup {NoRow}]
    /\ agenda \subseteq Jobs \X Jobs
    /\ used \subseteq Jobs
    /\ txn \in [Actors -> Txn \cup {NoTxn}]
    /\ exec \in [Futures -> ExecRecord]
    /\ fjm \in [Jobs -> Futures \cup {NoFuture}]
    /\ chk \in [pc : CheckerPcs, job : Jobs \cup {NoJob}, todo : SUBSET Jobs]
    /\ main \in [pc : MainPcs, job : Jobs \cup {NoJob}, todo : SUBSET Jobs]
    /\ req \in [Requests -> [pc : RequestPcs, job : Jobs \cup {NoJob}, next : Row \cup {NoRow},
                          time : Times]]
    /\ ended \in Nat

\* An execution is live from its submission to its last write of the table.
Live(f) == exec[f].pc \notin {"free", "over"}

\* Two executions of one job are never live together: Worker submits a job only
\* from QUEUED, and a job is back in QUEUED only once its execution is done with
\* it or the process that ran it is gone.
NoConcurrentRuns ==
    \A f, g \in Futures :
        Live(f) /\ Live(g) /\ exec[f].job = exec[g].job => f = g

\* While the worker is up, a job the table shows as RUNNING has an execution:
\* requeue_stalled_jobs leaves none behind from before the last crash.
RunningIsBacked ==
    main.pc \notin {"down", "requeue", "markQueued"} =>
        \A j \in RunningJobs : \E f \in Futures : Live(f) /\ exec[f].job = j

\* get_next_job keeps the workers beyond the regular ones for HIGH jobs: less
\* urgent jobs never hold more than the regular workers.
RegularLeavesRoomForHigh ==
    Cardinality({f \in Futures : exec[f].pc # "free" /\ exec[f].priority > HIGH})
        <= RegularWorkers

\* A function that polls while its job is CANCELING in the table finds out: the
\* JSON that check_job_canceled reads agrees with the column.
PollsSeeCancel ==
    \A f \in Futures :
        LET row == jobs[exec[f].job] IN
        exec[f].pc = "func" /\ Exists(exec[f].job) /\ row.state = "CANCELING"
            => JobCanceled(row)

\* future_job_mapping never keeps a future that the pool and the checker are done
\* with: a worker counted as busy is one that works or is about to.
BusyMeansBusy ==
    \A j \in Jobs :
        fjm[j] # NoFuture => exec[fjm[j]].pc # "free" /\ exec[fjm[j]].job = j

\* enqueue_if_not leaves a task with one queued job at most.
OneQueuedJob ==
    Cardinality({j \in Jobs : Exists(j) /\ jobs[j].state = "QUEUED"}) <= 1

\* A due job of regular or high priority does not wait in the queue forever.
QueuedJobsStart ==
    \A j \in Jobs :
        [](j \in Due(REGULAR) => <>(j \notin Due(REGULAR)))

\* A job that was picked up moves on: it does not stay SELECTED.
SelectedJobsMoveOn ==
    \A j \in Jobs :
        LET stuck == Exists(j) /\ jobs[j].state = "SELECTED" IN [](stuck => <>~stuck)

\* A request to cancel is answered, whether or not the job ends by itself.
CancelingEnds ==
    \A j \in Jobs :
        LET asked == Exists(j) /\ jobs[j].state = "CANCELING" IN [](asked => <>~asked)

\* A function that asked for a retry gets one, however it ended: its job is
\* queued again.
RetriesHappen ==
    \A j \in Jobs :
        LET asked == \E f \in Futures : /\ exec[f].job = j /\ exec[f].pc = "finish"
                                         /\ exec[f].delay # "none"
        IN [](asked => <>(Exists(j) /\ jobs[j].state = "QUEUED"))

\* A job that repeats forever does not rest in a finished state.
RepeatsForever ==
    \A j \in Jobs :
        LET rests == Exists(j) /\ jobs[j].repeat = Forever /\ Finished(jobs[j])
        IN [](rests => <>~rests)
=============================================================================
