------------------------------ MODULE SyncClient ------------------------------
(***************************************************************************)
(* How a device with a subset of the users (SoUD) keeps them in sync with  *)
(* a server.  For each user there is a row in the SyncQueue table; a hook  *)
(* that runs when the server is discovered (request_sync_hook) and a task  *)
(* (soud_sync_processing) both read rows, ask the server for a turn or     *)
(* sync with it, and write the rows back.  The task schedules its next run *)
(* by itself; the hook enqueues it when it has to.                         *)
(*                                                                         *)
(* Saving a row writes all its columns, as they were when it was loaded    *)
(* except for what was changed since.  The transaction of the hook is one  *)
(* of another database than that of the rows.  The task runner is taken    *)
(* for granted (TaskRunner is about it): a queued task is taken up once    *)
(* its former execution is over, and one that a crash found running is     *)
(* queued again at the next start.                                         *)
(***************************************************************************)
EXTENDS Naturals, FiniteSets

CONSTANTS
    Users,          \* the users to sync; a row is a user with the one server
    Hooks,          \* the threads that run the discovery hooks
    Job,            \* the thread that runs soud_sync_processing
    NoRow, NoUser,
    MaxAttempts,    \* MAX_ATTEMPTS
    MaxCrashes,     \* bound: how often the process ends and is started again
    MaxRaised       \* bound: how often a request raises what nobody catches

ASSUME ConstantsAssumption ==
    /\ MaxAttempts \in Nat /\ MaxCrashes \in Nat /\ MaxRaised \in Nat
    /\ Job \notin Hooks /\ NoUser \notin Users

VARIABLES
    queue,      \* the SyncQueue table
    job,        \* the row of the task in the job table
    act,        \* the threads: where they are, the users left, and the row in memory
    again,      \* the task has asked to be retried
    crashes, raised

vars == <<queue, job, act, again, crashes, raised>>

Actors == Hooks \cup {Job}

\* A client writes neither STALE nor UNAVAILABLE.
Statuses == {"PENDING", "QUEUED", "READY", "SYNCING", "STALE", "INELIGIBLE", "UNAVAILABLE"}

\* No row, the states of JobStore, and the final ones as "done".
JobStates == {"gone", "queued", "selected", "running", "done"}

\* A rendezvous is later than the window of execute_syncs, or due, or it was
\* missed by more than half the sync interval.
Row == [status : Statuses, attempts : Nat,
        time : {"later", "due", "missed"}, session : {"none", "open"}]

ASSUME NoRowAssumption == NoRow \notin Row

\* A thread at a place in the code, with a list of users to go through, the user it
\* is at, and the row of it that it has in memory and will save.
At(pc, todo, of, obj) == [pc |-> pc, todo |-> todo, of |-> of, obj |-> obj]

Idle == At("idle", {}, NoUser, NoRow)

Exists(u) == queue[u] # NoRow
NewRow == [status |-> "PENDING", attempts |-> 0, time |-> "later", session |-> "none"]
Loaded(u) == IF Exists(u) THEN queue[u] ELSE NewRow

\* Fault: a row that is marked as syncing is taken for active, however old.
IsActiveSyncing(r) ==
    \/ r.status = "SYNCING"
    \/ r.status \notin {"STALE", "UNAVAILABLE"} /\ r.attempts = 0 /\ r.time # "missed"

IsActive(r) ==
    r.status \notin {"STALE", "UNAVAILABLE"} /\ r.attempts = 0 /\ r.time # "missed"
Reset(r, time) == [r EXCEPT !.attempts = 0, !.time = time]
Marked(r, status, session) == [r EXCEPT !.status = status, !.session = session]
BackOff(r) == [r EXCEPT !.attempts = @ + 1, !.time = "later"]

\* Fault: the attempts are counted, and nothing ends them.
ExhaustedNever(r) == FALSE

Exhausted(r) == r.attempts > MaxAttempts

\* get_eligible_syncs
Eligible ==
    {u \in Users : /\ Exists(u)
                   /\ queue[u].status \notin {"INELIGIBLE", "SYNCING"}
                   /\ ~Exhausted(queue[u])}

DueIn(statuses) == {u \in Eligible : queue[u].time # "later" /\ queue[u].status \in statuses}

\* validate_sync_queue_for_sync_request
MayRequest(r) ==
    /\ r.status # "READY" /\ ~Exhausted(r)
    /\ r.status = "QUEUED" => r.time # "later"

Goto(a, pc) == act' = [act EXCEPT ![a] = At(pc, @.todo, @.of, @.obj)]

-----------------------------------------------------------------------------
(* request_sync, by a hook or by the task: the row is loaded, the server is *)
(* asked, and the row is saved with what came of it.                        *)

\* Where the thread goes on.
After(a) == IF a = Job THEN "requests" ELSE "check"

RequestLoads(a) ==
    LET u == act[a].of IN
    /\ act[a].pc = "load"
    /\ queue' = [queue EXCEPT ![u] = Loaded(u)]
    /\ act' = [act EXCEPT ![a] =
                 IF MayRequest(Loaded(u)) THEN At("save", @.todo, u, Loaded(u))
                 ELSE At(After(a), @.todo, u, NoRow)]
    /\ UNCHANGED <<job, again, crashes, raised>>

\* No location: back off, and forget the session.  No connection: back off,
\* with the status as it was.  READY: at once, with a session to resume if there
\* is one.  QUEUED: later, HANDSHAKING_TIME being more than the window.  Then:
\* not found, another error, and an answer that is not known.
Outcomes(r) ==
    {[BackOff(r) EXCEPT !.session = "none"], BackOff(r)}
    \cup {Marked(Reset(r, "due"), "READY", s) : s \in {r.session, "open"}}
    \cup {[Reset(r, "later") EXCEPT !.status = "QUEUED"],
          [r EXCEPT !.status = "INELIGIBLE"],
          [BackOff(r) EXCEPT !.status = "PENDING"],
          [r EXCEPT !.status = "PENDING"]}

RequestSaves(a) ==
    /\ act[a].pc = "save"
    /\ \E r \in Outcomes(act[a].obj) : queue' = [queue EXCEPT ![act[a].of] = r]
    /\ act' = [act EXCEPT ![a] = At(After(a), @.todo, @.of, NoRow)]
    /\ UNCHANGED <<job, again, crashes, raised>>

\* The answer is no JSON or lacks what is read of it: what was set by then is saved.
HalfRead(r) ==
    {r, Marked(Reset(r, "due"), "READY", r.session), [r EXCEPT !.status = "QUEUED"]}

\* The exception ends the task as FAILED, or the hook before it enqueues the task.
RequestRaises(a) ==
    /\ act[a].pc = "save" /\ raised < MaxRaised
    /\ \E r \in HalfRead(act[a].obj) : queue' = [queue EXCEPT ![act[a].of] = r]
    /\ act' = [act EXCEPT ![a] = IF a = Job THEN At("end", {}, NoUser, NoRow) ELSE Idle]
    /\ raised' = raised + 1
    /\ UNCHANGED <<job, again, crashes>>

-----------------------------------------------------------------------------
(* The hook: request_sync_hook, then enqueue_soud_sync_processing.          *)

HookBegins(h) ==
    /\ act[h].pc = "idle"
    /\ act' = [act EXCEPT ![h] = At("check", Users, NoUser, NoRow)]
    /\ UNCHANGED <<queue, job, again, crashes, raised>>

HookChecks(h) ==
    /\ act[h].pc = "check"
    /\ \E u \in act[h].todo :
         /\ act' = [act EXCEPT ![h] =
              IF Exists(u) /\ IsActive(queue[u]) THEN At("check", @.todo \ {u}, u, NoRow)
              ELSE At("reset", @.todo \ {u}, u,
                      [Reset(Loaded(u), "due") EXCEPT !.status = "PENDING"])]
         /\ queue' = [queue EXCEPT ![u] = Loaded(u)]
    /\ UNCHANGED <<job, again, crashes, raised>>

HookResets(h) ==
    /\ act[h].pc = "reset"
    /\ queue' = [queue EXCEPT ![act[h].of] = act[h].obj]
    /\ act' = [act EXCEPT ![h] = At("load", @.todo, @.of, NoRow)]
    /\ UNCHANGED <<job, again, crashes, raised>>

\* get_time_to_next_attempt: without an eligible row there is no next run.
HookReads(h) ==
    /\ act[h].pc = "check" /\ act[h].todo = {}
    /\ act' = [act EXCEPT ![h] = IF Eligible = {} THEN Idle ELSE At("look", {}, @.of, NoRow)]
    /\ UNCHANGED <<queue, job, again, crashes, raised>>

\* Fault: a task that is over counts as enqueued.
UnderWayOnce == job \in {"selected", "running", "done"}

\* A task that was taken up was due before any next run can be.  One that is queued
\* for a later time is left or queued again: to this model it is queued.
UnderWay == job \in {"selected", "running"}

HookLooks(h) ==
    /\ act[h].pc = "look"
    /\ act' = [act EXCEPT ![h] = IF UnderWay THEN Idle ELSE At("enqueue", {}, @.of, NoRow)]
    /\ UNCHANGED <<queue, job, again, crashes, raised>>

\* A task that runs by now is not enqueued (JobRunning).
HookEnqueues(h) ==
    /\ act[h].pc = "enqueue"
    /\ job' = IF job = "running" THEN job ELSE "queued"
    /\ act' = [act EXCEPT ![h] = Idle]
    /\ UNCHANGED <<queue, again, crashes, raised>>

HookStep(h) ==
    \/ HookChecks(h) \/ HookResets(h) \/ RequestLoads(h)
    \/ RequestSaves(h) \/ RequestRaises(h)
    \/ HookReads(h) \/ HookLooks(h) \/ HookEnqueues(h)

-----------------------------------------------------------------------------
(* The task: execute_syncs, then the next run.                              *)

\* The checker takes the task up, and a worker begins it.
JobSelected ==
    /\ job = "queued" /\ act[Job].pc = "idle"
    /\ job' = "selected"
    /\ Goto(Job, "selected")
    /\ UNCHANGED <<queue, again, crashes, raised>>

JobStarts ==
    /\ act[Job].pc = "selected"
    /\ job' = "running"
    /\ act' = [act EXCEPT ![Job] = At("start", {}, NoUser, NoRow)]
    /\ UNCHANGED <<queue, again, crashes, raised>>

\* What a crash left as SYNCING is due again.
ResetSyncing ==
    [u \in Users |-> IF Exists(u) /\ queue[u].status = "SYNCING"
                     THEN [queue[u] EXCEPT !.status = "PENDING", !.time = "due"] ELSE queue[u]]

JobResets ==
    /\ act[Job].pc = "start"
    /\ queue' = ResetSyncing
    /\ Goto(Job, "loop")
    /\ UNCHANGED <<job, again, crashes, raised>>

\* The loop ends when nothing eligible is due.  READY rows come first.
JobLoops ==
    /\ act[Job].pc = "loop"
    /\ act' = [act EXCEPT ![Job] =
         IF DueIn(Statuses) = {} THEN At("next", {}, @.of, NoRow)
         ELSE At("syncs", DueIn({"READY"}), @.of, NoRow)]
    /\ UNCHANGED <<queue, job, again, crashes, raised>>

\* execute_sync loads the row and saves it as SYNCING.
SyncBegins ==
    /\ act[Job].pc = "syncs"
    /\ \E u \in act[Job].todo :
         LET begun == [Loaded(u) EXCEPT !.status = "SYNCING"] IN
         /\ queue' = [queue EXCEPT ![u] = begun]
         /\ act' = [act EXCEPT ![Job] = At("syncing", @.todo \ {u}, u, begun)]
    /\ UNCHANGED <<job, again, crashes, raised>>

\* The hooks around the pull and the push change the row under the hands of
\* execute_sync: pre_transfer and post_transfer.
SyncTransfers ==
    /\ act[Job].pc = "syncing"
    /\ LET u == act[Job].of IN
       \E t \in {"due", "later"} :     \* as the keep_alive of the row has it
         \/ queue' = [queue EXCEPT ![u] =
              [@ EXCEPT !.status = "SYNCING", !.session = "open", !.time = t]]
         \/ queue' = [queue EXCEPT ![u] = [@ EXCEPT !.status = "PENDING", !.time = t]]
    /\ UNCHANGED <<job, act, again, crashes, raised>>

\* Success; the session cannot be resumed; another failure, or no location.
Results(r) ==
    {[Reset(r, "later") EXCEPT !.status = "PENDING"],
     Marked(BackOff(r), "PENDING", "none")}
    \cup {Marked(s, "READY", "none") : s \in {t \in {r} : t.session = "open"}}

SyncEnds ==
    /\ act[Job].pc = "syncing"
    /\ \E r \in Results(act[Job].obj) : queue' = [queue EXCEPT ![act[Job].of] = r]
    /\ act' = [act EXCEPT ![Job] = At("syncs", @.todo, @.of, NoRow)]
    /\ UNCHANGED <<job, again, crashes, raised>>

\* Then those that wait for their turn or have to ask for one.
JobTurns ==
    /\ act[Job].pc = "syncs" /\ act[Job].todo = {}
    /\ act' = [act EXCEPT ![Job] = At("requests", DueIn({"QUEUED", "PENDING"}), @.of, NoRow)]
    /\ UNCHANGED <<queue, job, again, crashes, raised>>

JobRequests ==
    /\ act[Job].pc = "requests"
    /\ \/ \E u \in act[Job].todo :
            act' = [act EXCEPT ![Job] = At("load", @.todo \ {u}, u, NoRow)]
       \/ act[Job].todo = {} /\ Goto(Job, "loop")
    /\ UNCHANGED <<queue, job, again, crashes, raised>>

\* soud_sync_processing: retry_in if there is a next run.
JobNext ==
    /\ act[Job].pc = "next"
    /\ again' = (Eligible # {})
    /\ Goto(Job, "end")
    /\ UNCHANGED <<queue, job, crashes, raised>>

\* The final state, and then the next run, unless a hook has enqueued it by now.
JobEnds ==
    /\ act[Job].pc = "end"
    /\ job' = "done"
    /\ Goto(Job, "reschedule")
    /\ UNCHANGED <<queue, again, crashes, raised>>

JobReschedules ==
    /\ act[Job].pc = "reschedule"
    /\ job' = IF again THEN "queued" ELSE job
    /\ again' = FALSE
    /\ act' = [act EXCEPT ![Job] = Idle]
    /\ UNCHANGED <<queue, crashes, raised>>

JobStep ==
    \/ JobSelected \/ JobStarts \/ JobResets \/ JobLoops
    \/ SyncBegins \/ SyncEnds \/ JobTurns \/ JobRequests
    \/ RequestLoads(Job) \/ RequestSaves(Job) \/ RequestRaises(Job)
    \/ JobNext \/ JobEnds \/ JobReschedules

-----------------------------------------------------------------------------

\* The process ends, and is started again: a task that was running is put back in
\* the queue.  One that was only selected stays so, and one whose next run was not
\* scheduled yet has none.
Crash ==
    /\ crashes < MaxCrashes
    /\ job' = IF job = "running" THEN "queued" ELSE job
    /\ act' = [a \in Actors |-> Idle]
    /\ again' = FALSE
    /\ crashes' = crashes + 1
    /\ UNCHANGED <<queue, raised>>

Older(r) == [r EXCEPT !.time = IF @ = "later" THEN "due" ELSE "missed"]

\* For a row of the table, and for one that a thread has in memory.
RowAges(u) ==
    /\ Exists(u)
    /\ queue' = [queue EXCEPT ![u] = Older(queue[u])]
    /\ UNCHANGED <<job, act, again, crashes, raised>>

CopyAges(a) ==
    /\ act[a].obj # NoRow
    /\ act' = [act EXCEPT ![a] = At(@.pc, @.todo, @.of, Older(@.obj))]
    /\ UNCHANGED <<queue, job, again, crashes, raised>>

TimePasses == (\E u \in Users : RowAges(u)) \/ (\E a \in Actors : CopyAges(a))

Init ==
    /\ queue = [u \in Users |-> NoRow]
    /\ job = "gone" /\ again = FALSE
    /\ act = [a \in Actors |-> Idle]
    /\ crashes = 0 /\ raised = 0

Next ==
    \/ \E h \in Hooks : HookBegins(h) \/ HookStep(h)
    \/ JobStep \/ SyncTransfers
    \/ Crash \/ TimePasses

Spec == Init /\ [][Next]_vars

(* Fairness.  The threads run, the requests and syncs they wait for end (if  *)
(* only with a timeout), the task runner starts a queued task, and time      *)
(* passes.  The server may never be discovered again.                        *)
FairSpec ==
    /\ Spec /\ WF_vars(JobStep)
    /\ \A h \in Hooks : WF_vars(HookStep(h))
    /\ \A u \in Users : WF_vars(RowAges(u))

-----------------------------------------------------------------------------
(* Properties.                                                              *)

HookPlaces == {"idle", "check", "reset", "load", "save", "look", "enqueue"}
JobPlaces == {"idle", "selected", "start", "loop", "syncs", "syncing", "requests", "load",
              "save", "next", "end", "reschedule"}

Thread(places) == [pc : places, todo : SUBSET Users, of : Users \cup {NoUser},
                   obj : Row \cup {NoRow}]

\* Every row and every thread has the shape the code gives it: a thread holds a
\* row in memory exactly while it waits to save one, which is in the table by then.
TypeOK ==
    /\ queue \in [Users -> Row \cup {NoRow}]
    /\ job \in JobStates /\ again \in BOOLEAN
    /\ act \in [Actors -> Thread(HookPlaces \cup JobPlaces)]
    /\ act[Job] \in Thread(JobPlaces)
    /\ \A h \in Hooks : act[h] \in Thread(HookPlaces)
    /\ \A a \in Actors : /\ act[a].obj # NoRow <=> act[a].pc \in {"reset", "save", "syncing"}
                         /\ act[a].pc \in {"load", "reset", "save", "syncing"} => act[a].of \in Users
                         /\ act[a].pc \in {"reset", "save", "syncing"} => Exists(act[a].of)
    /\ crashes \in 0 .. MaxCrashes /\ raised \in 0 .. MaxRaised

\* The attempts at a user end: whatever the order in which the hooks and the task
\* save what they loaded, none is counted further than two beyond MAX_ATTEMPTS (a
\* request that was allowed, and a sync whose row was overwritten by a request).
AttemptsBounded == \A u \in Users : Exists(u) => queue[u].attempts <= MaxAttempts + 2

\* As long as a user can still be synced, the task is queued or runs, or a hook
\* is on its way to enqueue it.  (Discoveries, exceptions and crashes break it.)
RowsStayScheduled ==
    Eligible # {} => \/ job \in {"queued", "selected", "running"} \/ act[Job].pc # "idle"
                     \/ \E h \in Hooks : act[h].pc # "idle"

\* The server is discovered again and again, and no crash leaves the task SELECTED.
Stuck == job = "selected" /\ act[Job].pc = "idle"
Rediscovered == []<><<\E h \in Hooks : HookBegins(h)>>_vars /\ []~Stuck

\* Nobody is forgotten: whatever run of the task was lost to a hook that looked too
\* early, to an answer that nobody could read, or to a crash, while the server is
\* discovered again and again a user who can be synced does not wait for ever for
\* the loop of execute_syncs to look at the queue.
EligibleAreSeen ==
    Rediscovered => \A u \in Users :
        [](u \in Eligible => <>(act[Job].pc = "loop" \/ u \notin Eligible))

\* A row that is marked as syncing while nobody syncs it, because of a crash or
\* because a request that failed put back the status it had loaded, does not stay
\* so while the server is discovered again and again.
SyncingEnds ==
    Rediscovered => \A u \in Users :
        LET orphan == /\ Exists(u) /\ queue[u].status = "SYNCING"
                      /\ ~(act[Job].pc = "syncing" /\ act[Job].of = u)
        IN [](orphan => <>~orphan)
=============================================================================
