------------------------------- MODULE JobStore -------------------------------
(***************************************************************************)
(* The job table of kolibri/core/tasks/storage.py: what a row holds, what  *)
(* the operations of Storage compute from a row they have loaded, and what *)
(* a commit of the SQLAlchemy session leaves in the table.                 *)
(*                                                                         *)
(* The SQLite driver opens a transaction at the first writing statement,   *)
(* so a row that an operation loads may change before the operation        *)
(* commits; the UPDATE then writes only the columns that differ from what  *)
(* was loaded.  A transaction below is therefore a value: what was loaded, *)
(* what is to be written, and Flush says what the commit does.             *)
(***************************************************************************)
EXTENDS Integers

CONSTANTS
    NoRow,      \* the table holds no row for a job id
    Forever,    \* repeat = None: the job repeats without end
    MaxRepeat   \* bound: the largest number of repeats a job is given

\* Priority of core/tasks/constants.py; a smaller number is more urgent.
HIGH == 5
REGULAR == 10
LOW == 15

FinishedStates == {"COMPLETED", "FAILED", "CANCELED"}
States == {"QUEUED", "SELECTED", "RUNNING", "CANCELING"} \cup FinishedStates

\* The columns of a row.  "saved" is the job's JSON: it carries a state of its
\* own beside the state column.  "retry" is the retry_interval: None, 0 (the job
\* is due again at once) or longer.  Progress, results and metadata are only rewritten together with the
\* JSON and have no field here.  scheduled_time is kept beside the rows, as the
\* order in which the jobs are due.
Row == [state    : States,
        saved    : [state : States, cancellable : BOOLEAN],
        priority : {HIGH, REGULAR, LOW},
        repeat   : (0 .. MaxRepeat) \cup {Forever},
        retry    : {"none", "now", "later"}]

\* What an operation does to scheduled_time: nothing, the present, a later time.
Times == {"keep", "now", "later"}

Finished(row) == row.state \in FinishedStates

-----------------------------------------------------------------------------
(* Commit of a session that loaded one row.                                *)

\* t.json is set by an operation that changes a part of the JSON which has no
\* field here: it writes the JSON whatever was loaded.
WriteBack(cur, t) ==
    LET Dirty(c) == t.new[c] # t.loaded[c] IN
    [state    |-> IF Dirty("state")    THEN t.new.state    ELSE cur.state,
     saved    |-> IF Dirty("saved") \/ t.json THEN t.new.saved    ELSE cur.saved,
     priority |-> IF Dirty("priority") THEN t.new.priority ELSE cur.priority,
     repeat   |-> IF Dirty("repeat")   THEN t.new.repeat   ELSE cur.repeat,
     retry    |-> IF Dirty("retry")    THEN t.new.retry    ELSE cur.retry]

\* An insert that finds a row (IntegrityError) and an update that finds none
\* (StaleDataError) are logged and leave the table as it is.
Applies(cur, t) == (t.loaded = NoRow) <=> (cur = NoRow)

Flush(cur, t) ==
    IF ~Applies(cur, t) THEN cur
    ELSE IF cur = NoRow THEN t.new
    ELSE WriteBack(cur, t)

-----------------------------------------------------------------------------
(* What the operations compute from the row they loaded.                   *)

\* Fault: a request to cancel only reaches the column.
MarkedColumn(row, s) ==
    [row EXCEPT !.state = s,
                !.saved = IF s = "CANCELING" THEN @ ELSE [@ EXCEPT !.state = s]]

\* _update_job with a state: the column and the JSON get it together.
Marked(row, s) ==
    [row EXCEPT !.state = s, !.saved = [@ EXCEPT !.state = s]]

\* save_job_as_cancellable: only the JSON changes.
WithCancellable(row, c) ==
    [row EXCEPT !.saved = [@ EXCEPT !.cancellable = c]]

\* Fault: the picked job is left as it was.
SelectedNowhere(row) == row

\* _sqlite_next_queued_job: the column alone becomes SELECTED.
Selected(row) == [row EXCEPT !.state = "SELECTED"]

\* The ORMJob that schedule() builds from its arguments.
Scheduled(cancellable, priority, repeat, retry) ==
    [state    |-> "QUEUED",
     saved    |-> [state |-> "QUEUED", cancellable |-> cancellable],
     priority |-> priority,
     repeat   |-> repeat,
     retry    |-> retry]

\* Fault: only a job that is CANCELED already counts as canceled.
JobCanceledLate(row) == row # NoRow => row.saved.state = "CANCELED"

\* check_job_canceled: a job without a row counts as canceled.
JobCanceled(row) ==
    row # NoRow => row.saved.state \in {"CANCELED", "CANCELING"}

\* Fault: repeat is tested for truth, and None is not true.
MustRescheduleTruthy(row, delay) ==
    \/ delay # "none"
    \/ row.state = "FAILED" /\ row.retry # "none"
    \/ row.repeat \notin {0, Forever}

\* Fault: a delay only counts for a job that failed.
MustRescheduleFailed(row, delay) ==
    \/ row.state = "FAILED" /\ (delay # "none" \/ row.retry # "none")
    \/ row.repeat # 0

Retries(row) == row.state = "FAILED" /\ row.retry # "none"

\* reschedule_finished_job_if_needed for a finished row: does one of its three
\* cases apply, and which row and time does it hand to schedule()?  A delay
\* asked for by retry_in comes first, then the retry of a failure, then the
\* repeat, whose interval is at least a second.
MustReschedule(row, delay) ==
    \/ delay # "none"
    \/ Retries(row)
    \/ row.repeat # 0

RescheduleTime(row, delay) ==
    IF delay # "none" THEN delay
    ELSE IF Retries(row) THEN row.retry
    ELSE "later"

Rescheduled(row, delay, priority) ==
    LET plain == delay # "none" \/ Retries(row) IN
    Scheduled(row.saved.cancellable,
              priority,
              IF plain \/ row.repeat = Forever THEN row.repeat
                                               ELSE row.repeat - 1,
              row.retry)
=============================================================================
