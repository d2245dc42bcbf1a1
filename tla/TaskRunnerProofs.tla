--------------------------- MODULE TaskRunnerProofs ---------------------------
(***************************************************************************)
(* Proofs of the types of TaskRunner, and that its safety invariants hold: *)
(* who is busy, who answers for a running job, that no job runs twice at a *)
(* time, or a second time, that the urgent ones find a worker, and that a  *)
(* cancellation is heard.                                                  *)
(***************************************************************************)
EXTENDS TaskRunnerInv, FiniteSetTheorems, TLAPS

USE DEF HIGH, REGULAR, LOW

-----------------------------------------------------------------------------
(* Rows.                                                                   *)

\* What the operations compute from a row is a row again.
LEMMA RowOperations ==
    ASSUME NEW row \in Row
    PROVE  /\ \A s \in States : Marked(row, s) \in Row
           /\ \A c \in BOOLEAN : WithCancellable(row, c) \in Row
           /\ Selected(row) \in Row
BY DEF Row, Marked, WithCancellable, Selected, States, FinishedStates

\* schedule() makes a row that is QUEUED.
LEMMA ScheduledType ==
    ASSUME NEW c \in BOOLEAN, NEW p \in {HIGH, REGULAR, LOW},
           NEW n \in (0 .. MaxRepeat) \cup {Forever}, NEW y \in {"none", "now", "later"}
    PROVE  Scheduled(c, p, n, y) \in Row /\ Scheduled(c, p, n, y).state = "QUEUED"
BY DEF Row, Scheduled, States, FinishedStates

\* The repeats that are left are only counted down from a number above zero.
LEMMA RescheduledType ==
    ASSUME NEW row \in Row, NEW d, NEW p \in {HIGH, REGULAR, LOW},
           Finished(row), MustReschedule(row, d)
    PROVE  Rescheduled(row, d, p) \in Row
<1> DEFINE plain == d # "none" \/ Retries(row)
           n == IF plain \/ row.repeat = Forever THEN row.repeat ELSE row.repeat - 1
<1>1. row.repeat \in (0 .. MaxRepeat) \cup {Forever}
  BY DEF Row
<1>2. n \in (0 .. MaxRepeat) \cup {Forever}
  <2>1. CASE plain \/ row.repeat = Forever
    BY <1>1, <2>1
  <2>2. CASE ~(plain \/ row.repeat = Forever)
    <3>1. row.repeat # 0
      BY <2>2 DEF MustReschedule
    <3> QED BY <1>1, <2>2, <3>1, ConstantsAssumption
  <2> QED BY <2>1, <2>2
<1>3. row.saved.cancellable \in BOOLEAN /\ row.retry \in {"none", "now", "later"}
  BY DEF Row
<1> HIDE DEF n
<1>4. Scheduled(row.saved.cancellable, p, n, row.retry) \in Row
  BY <1>2, <1>3, ScheduledType
<1> QED BY <1>4 DEF Rescheduled, n

\* A commit leaves a row or none, and it neither makes a row that it has not
\* loaded nor removes one.
LEMMA FlushType ==
    ASSUME NEW cur \in Row \cup {NoRow}, NEW t \in Txn
    PROVE  /\ Flush(cur, t) \in Row \cup {NoRow}
           /\ cur # NoRow => Flush(cur, t) \in Row
           /\ cur = NoRow /\ t.loaded # NoRow => Flush(cur, t) = NoRow
<1>1. t.new \in Row /\ t.loaded \in Row \cup {NoRow}
  BY DEF Txn
<1>2. CASE ~Applies(cur, t)
  BY <1>2 DEF Flush, Applies
<1>3. CASE Applies(cur, t) /\ cur = NoRow
  BY <1>1, <1>3 DEF Flush, Applies
<1>4. CASE Applies(cur, t) /\ cur # NoRow
  <2>1. WriteBack(cur, t) \in Row
    BY <1>1, <1>4 DEF WriteBack, Row
  <2> QED BY <1>4, <2>1, DistinctValues DEF Flush
<1> QED BY <1>2, <1>3, <1>4

\* The state a commit leaves is the one it found or one that it writes.
LEMMA FlushState ==
    ASSUME NEW cur \in Row \cup {NoRow}, NEW t \in Txn, Flush(cur, t) # NoRow
    PROVE  \/ cur # NoRow /\ Flush(cur, t).state = cur.state
           \/ /\ Flush(cur, t).state = t.new.state
              /\ t.loaded = NoRow \/ t.loaded.state # t.new.state
<1>1. CASE ~Applies(cur, t)
  BY <1>1 DEF Flush, Applies
<1>2. CASE Applies(cur, t) /\ cur = NoRow
  BY <1>2 DEF Flush, Applies
<1>3. CASE Applies(cur, t) /\ cur # NoRow
  BY <1>3 DEF Flush, WriteBack
<1> QED BY <1>1, <1>2, <1>3

-----------------------------------------------------------------------------
(* Transactions.                                                           *)

\* A transaction that opens belongs to the actor that opens it.
LEMMA LoadType ==
    ASSUME TypeOK, NEW a \in Actors, NEW t \in Txn, txn' = [txn EXCEPT ![a] = t]
    PROVE  /\ txn' \in [Actors -> Txn \cup {NoTxn}]
           /\ \A b \in Actors \ {a} : txn'[b] = txn[b]
           /\ txn'[a] = t
           /\ txn'[a] # NoTxn
BY DistinctValues DEF TypeOK

\* _update_job loads a row and is about to write the state it was called for.
LEMMA LoadMarkType ==
    ASSUME TypeOK, NEW a \in Actors, NEW j \in Jobs, NEW s \in States, LoadMark(a, j, s)
    PROVE  /\ txn' \in [Actors -> Txn \cup {NoTxn}]
           /\ \A b \in Actors \ {a} : txn'[b] = txn[b]
           /\ txn'[a] # NoTxn
           /\ txn'[a].job = j /\ txn'[a].loaded = jobs[j] /\ txn'[a].loaded # NoRow
           /\ txn'[a].new = Marked(jobs[j], s) /\ txn'[a].new.state = s
           /\ txn'[a].time = "keep"
<1> DEFINE row == Marked(jobs[j], s)
           t == [job |-> j, loaded |-> jobs[j], new |-> row, json |-> FALSE, time |-> "keep"]
<1>1. jobs[j] \in Row /\ jobs[j] # NoRow
  BY DEF LoadMark, Exists, TypeOK
<1>2. row \in Row
  BY <1>1, RowOperations
<1>3. txn' = [txn EXCEPT ![a] = t]
  BY DEF LoadMark, Load
<1>4. row.state = s
  BY <1>1 DEF Marked, Row
<1> HIDE DEF row
<1>5. t \in Txn
  BY <1>1, <1>2 DEF Txn, Times
<1>6. t.job = j /\ t.loaded = jobs[j] /\ t.new = row /\ t.time = "keep"
  OBVIOUS
<1> HIDE DEF t
<1> QED BY <1>1, <1>3, <1>4, <1>5, <1>6, LoadType DEF row

\* A commit writes the row of its transaction and no other.
LEMMA CommitType ==
    ASSUME TypeOK, NEW a \in Actors, txn[a] # NoTxn, Commit(a)
    PROVE  /\ jobs' \in [Jobs -> Row \cup {NoRow}]
           /\ agenda' \subseteq Jobs \X Jobs
           /\ txn' \in [Actors -> Txn \cup {NoTxn}]
           /\ txn'[a] = NoTxn
           /\ \A b \in Actors \ {a} : txn'[b] = txn[b]
           /\ txn[a] \in Txn
           /\ jobs'[txn[a].job] = Flush(jobs[txn[a].job], txn[a])
           /\ \A j \in Jobs \ {txn[a].job} : jobs'[j] = jobs[j]
<1>1. txn[a] \in Txn /\ txn[a].job \in Jobs
  BY DEF TypeOK, Txn
<1>2. Flush(jobs[txn[a].job], txn[a]) \in Row \cup {NoRow}
  BY <1>1, FlushType DEF TypeOK
<1>3. agenda' \subseteq Jobs \X Jobs
  BY <1>1 DEF Commit, TypeOK, Without, AtTheEnd
<1>4. jobs' = [jobs EXCEPT ![txn[a].job] = Flush(@, txn[a])] /\ txn' = [txn EXCEPT ![a] = NoTxn]
  BY DEF Commit
<1> QED BY <1>1, <1>2, <1>3, <1>4 DEF TypeOK

-----------------------------------------------------------------------------
(* Executions.                                                             *)

\* A free execution has the type of an execution.
LEMMA FreeExecType == FreeExec \in ExecRecord /\ FreeExec.pc = "free"
BY DEF FreeExec, ExecRecord, ExecPcs, FinishedStates

\* handle_finished_future frees one execution and leaves the others alone.
LEMMA UntrackType ==
    ASSUME TypeOK, NEW f \in Futures, exec[f].job \in Jobs, Untrack(f)
    PROVE  /\ exec' \in [Futures -> ExecRecord] /\ fjm' \in [Jobs -> Futures \cup {NoFuture}]
           /\ exec'[f] = FreeExec /\ exec'[f].pc = "free"
           /\ \A g \in Futures \ {f} : exec'[g] = exec[g]
           /\ fjm'[exec[f].job] = NoFuture
           /\ \A j \in Jobs \ {exec[f].job} : fjm'[j] = fjm[j]
BY FreeExecType DEF TypeOK, Untrack

-----------------------------------------------------------------------------
(* The types are kept, action by action.                                   *)

\* The steps of the job checker keep the types.
LEMMA CheckerKeepsTypes == TypeInv /\ CheckerStep => TypeInv'
<1> SUFFICES ASSUME TypeInv, CheckerStep PROVE TypeInv'
  OBVIOUS
<1> USE DEF TypeInv
<1>1. CASE CheckerLoad
  <2>1. PICK j \in Jobs : /\ Load(Checker, j, Selected(jobs[j]), FALSE, "keep")
                          /\ Exists(j)
                          /\ chk' = [chk EXCEPT !.pc = "select", !.job = j]
    BY <1>1 DEF CheckerLoad, NextQueued, Due
  <2>2. jobs[j] \in Row /\ Selected(jobs[j]) \in Row
    BY <2>1, RowOperations DEF TypeOK, Exists
  <2>3. /\ txn' \in [Actors -> Txn \cup {NoTxn}]
        /\ \A b \in Actors \ {Checker} : txn'[b] = txn[b]
        /\ txn'[Checker].job = j /\ txn'[Checker].loaded = jobs[j]
        /\ txn'[Checker].new = Selected(jobs[j])
        /\ txn'[Checker] # NoTxn
    <3> DEFINE row == Selected(jobs[j])
               t == [job |-> j, loaded |-> jobs[j], new |-> row, json |-> FALSE, time |-> "keep"]
    <3>1. txn' = [txn EXCEPT ![Checker] = t] /\ Checker \in Actors
      BY <2>1 DEF Load, Actors
    <3> HIDE DEF row
    <3>2. t \in Txn
      BY <2>2 DEF Txn, Times, row
    <3>3. t.job = j /\ t.loaded = jobs[j] /\ t.new = row
      OBVIOUS
    <3> HIDE DEF t
    <3> QED BY <3>1, <3>2, <3>3, LoadType DEF row
  <2>4. UNCHANGED <<jobs, agenda, used, exec, fjm, main, req, ended>> /\ chk.pc = "next"
    BY <1>1 DEF CheckerLoad
  <2>5. TypeOK'
    BY <2>1, <2>3, <2>4 DEF TypeOK, CheckerPcs
  <2>6. ExecShape' /\ RequestShape' /\ MainShape'
    BY <2>3, <2>4, DistinctValues DEF ExecShape, RequestShape, MainShape, Actors
  <2>7. CheckerShape'
    BY <2>1, <2>2, <2>3, <2>4, DistinctValues DEF CheckerShape, TypeOK
  <2> QED BY <2>5, <2>6, <2>7
<1>2. CASE CheckerNone \/ CheckerScan \/ CheckerLoopEnds \/ CheckerWakes
  <2>1. UNCHANGED <<jobs, agenda, used, txn, exec, fjm, main, req, ended>>
    BY <1>2 DEF CheckerNone, CheckerScan, CheckerLoopEnds, CheckerWakes
  <2>2. /\ chk' \in [pc : CheckerPcs, job : Jobs \cup {NoJob}, todo : SUBSET Jobs]
        /\ chk.pc \notin {"off", "select", "mark"} /\ chk'.pc \notin {"select", "mark"}
    <3>1. CASE CheckerNone \/ CheckerScan
      BY <3>1 DEF CheckerNone, CheckerScan, TypeOK, CheckerPcs
    <3>2. CASE CheckerLoopEnds \/ CheckerWakes
      BY <3>2 DEF CheckerLoopEnds, CheckerWakes, TypeOK, CheckerPcs
    <3> QED BY <1>2, <3>1, <3>2
  <2> QED BY <2>1, <2>2 DEF TypeOK, ExecShape, RequestShape, CheckerShape, MainShape
<1>3. CASE CheckerStart
  <2>1. Commit(Checker) /\ txn[Checker] # NoTxn /\ chk.pc = "select"
        /\ UNCHANGED <<used, main, req, ended>>
    BY <1>3 DEF CheckerStart, CheckerShape
  <2>2. /\ chk' = [IdleChecker EXCEPT !.pc = chk'.pc] /\ chk'.pc \in {"next", "sleep"}
    BY <1>3 DEF CheckerStart, IdleChecker
  <2>3. chk' \in [pc : CheckerPcs, job : Jobs \cup {NoJob}, todo : SUBSET Jobs]
    BY <2>2 DEF IdleChecker, CheckerPcs
  <2> DEFINE Changed == \E f \in Futures :
               /\ exec[f].pc = "free"
               /\ exec' = [exec EXCEPT ![f] =
                    [FreeExec EXCEPT !.pc = "pending", !.job = chk.job,
                                     !.priority = txn[Checker].loaded.priority]]
               /\ fjm' = [fjm EXCEPT ![chk.job] = f]
  <2>4. Changed \/ UNCHANGED <<exec, fjm>>
    BY <1>3 DEF CheckerStart
  <2>5. chk.job \in Jobs /\ txn[Checker].loaded.priority \in {HIGH, REGULAR, LOW}
    BY <2>1 DEF CheckerShape, TypeOK, Txn, Row, Actors
  <2>6. /\ exec' \in [Futures -> ExecRecord] /\ fjm' \in [Jobs -> Futures \cup {NoFuture}]
        /\ \A f \in Futures : exec'[f] = exec[f] \/ (exec[f].pc = "free" /\ exec'[f].pc = "pending" /\ exec'[f].job \in Jobs)
    <3> DEFINE e == [FreeExec EXCEPT !.pc = "pending", !.job = chk.job,
                                     !.priority = txn[Checker].loaded.priority]
    <3>1. e \in ExecRecord /\ e.pc = "pending" /\ e.job \in Jobs
      BY <2>5 DEF FreeExec, ExecRecord, ExecPcs, FinishedStates
    <3> HIDE DEF e
    <3>2. CASE UNCHANGED <<exec, fjm>>
      BY <3>2 DEF TypeOK
    <3>3. CASE Changed
      <4>1. PICK f \in Futures : /\ exec[f].pc = "free"
                                 /\ exec' = [exec EXCEPT ![f] = e]
                                 /\ fjm' = [fjm EXCEPT ![chk.job] = f]
        BY <3>3 DEF e
      <4> QED BY <3>1, <4>1, <2>5 DEF TypeOK
    <3> QED BY <2>4, <3>2, <3>3
  <2>7. TypeOK'
    BY <2>1, <2>3, <2>6, CommitType DEF TypeOK, Actors
  <2>8. RequestShape' /\ \A a \in Actors \ {Checker} : txn'[a] = txn[a]
    BY <2>1, CommitType, DistinctValues DEF RequestShape, Actors
  <2>9. ExecShape'
    BY <2>6, <2>8, DistinctValues DEF ExecShape, Actors, UpdatePcs
  <2>10. CheckerShape'
    BY <2>1, <2>2, CommitType DEF CheckerShape, Actors
  <2>11. main.pc \in {"up", "stopping"}
    BY <2>1 DEF CheckerShape
  <2>12. MainShape'
    BY <2>1, <2>8, <2>11, DistinctValues DEF MainShape, Actors, MarkPcs
  <2> QED BY <2>7, <2>8, <2>9, <2>10, <2>12
<1>4. ASSUME NEW j \in Jobs, CheckerCancel(j) PROVE TypeInv'
  <2>1. UNCHANGED <<jobs, agenda, used, txn, main, req, ended>> /\ chk.pc = "cancel"
    BY <1>4 DEF CheckerCancel
  <2>2. /\ chk' \in [pc : CheckerPcs, job : Jobs \cup {NoJob}, todo : SUBSET Jobs]
        /\ chk'.pc \in {"cancel", "mark"}
        /\ chk'.pc = "mark" => chk'.job \in Jobs
    <3>1. \/ chk' = [chk EXCEPT !.todo = @ \ {j}]
          \/ chk' = [chk EXCEPT !.pc = "mark", !.job = j, !.todo = @ \ {j}]
      BY <1>4 DEF CheckerCancel
    <3> QED BY <2>1, <3>1 DEF TypeOK, CheckerPcs
  <2>3. UNCHANGED <<exec, fjm>> \/ (Droppable(j) /\ Untrack(fjm[j]))
    BY <1>4 DEF CheckerCancel
  <2>4. /\ exec' \in [Futures -> ExecRecord] /\ fjm' \in [Jobs -> Futures \cup {NoFuture}]
        /\ \A f \in Futures : exec'[f] = exec[f] \/ (exec[f].pc = "pending" /\ exec'[f].pc = "free")
    <3>1. CASE UNCHANGED <<exec, fjm>>
      BY <3>1 DEF TypeOK
    <3>2. CASE Droppable(j) /\ Untrack(fjm[j])
      <4>1. fjm[j] \in Futures /\ exec[fjm[j]].pc = "pending"
        BY <3>2 DEF Droppable, TypeOK
      <4>2. exec[fjm[j]].job \in Jobs
        BY <4>1 DEF ExecShape
      <4> QED BY <3>2, <4>1, <4>2, UntrackType
    <3> QED BY <2>3, <3>1, <3>2
  <2>5. TypeOK'
    BY <2>1, <2>2, <2>4 DEF TypeOK
  <2>6. RequestShape'
    BY <2>1 DEF RequestShape
  <2>7. MainShape'
    BY <2>1, <2>4 DEF MainShape
  <2>8. CheckerShape'
    BY <2>1, <2>2 DEF CheckerShape
  <2>9. ExecShape'
    BY <2>1, <2>4 DEF ExecShape, UpdatePcs
  <2> QED BY <2>5, <2>6, <2>7, <2>8, <2>9
<1>5. CASE CheckerMark
  <2>1. UNCHANGED <<used, exec, fjm, main, req, ended>> /\ chk.pc = "mark" /\ chk.job \in Jobs
    BY <1>5 DEF CheckerMark, CheckerShape
  <2>2. CASE txn[Checker] = NoTxn /\ LoadMark(Checker, chk.job, "CANCELED")
             /\ UNCHANGED <<jobs, agenda, chk>>
    <3>1. /\ txn' \in [Actors -> Txn \cup {NoTxn}]
          /\ \A b \in Actors \ {Checker} : txn'[b] = txn[b]
          /\ txn'[Checker] # NoTxn
          /\ txn'[Checker].job = chk.job /\ txn'[Checker].loaded # NoRow
      BY <2>1, <2>2, LoadMarkType DEF Actors, States, FinishedStates
    <3>2. TypeOK'
      BY <2>1, <2>2, <3>1 DEF TypeOK
    <3>3. ExecShape' /\ RequestShape' /\ MainShape'
      BY <2>1, <3>1, DistinctValues DEF ExecShape, RequestShape, MainShape, Actors
    <3>4. CheckerShape'
      BY <2>1, <2>2, <3>1 DEF CheckerShape
    <3> QED BY <3>2, <3>3, <3>4
  <2>3. CASE chk' = [chk EXCEPT !.pc = "cancel", !.job = NoJob]
    <3>1. \/ UNCHANGED <<jobs, agenda, txn>> /\ txn[Checker] = NoTxn
          \/ txn[Checker] # NoTxn /\ Commit(Checker)
      <4>1. "cancel" # "mark" /\ chk' # chk
        BY <2>1, <2>3 DEF TypeOK
      <4> QED BY <1>5, <4>1 DEF CheckerMark
    <3>2. /\ txn' \in [Actors -> Txn \cup {NoTxn}] /\ txn'[Checker] = NoTxn
          /\ \A b \in Actors \ {Checker} : txn'[b] = txn[b]
          /\ jobs' \in [Jobs -> Row \cup {NoRow}] /\ agenda' \subseteq Jobs \X Jobs
      BY <3>1, CommitType DEF TypeOK, Actors
    <3>3. chk' \in [pc : CheckerPcs, job : Jobs \cup {NoJob}, todo : SUBSET Jobs]
          /\ chk'.pc = "cancel"
      BY <2>3 DEF TypeOK, CheckerPcs
    <3>4. TypeOK'
      BY <2>1, <3>2, <3>3 DEF TypeOK
    <3>5. ExecShape' /\ RequestShape' /\ MainShape'
      BY <2>1, <3>2, DistinctValues DEF ExecShape, RequestShape, MainShape, Actors
    <3>6. CheckerShape'
      BY <2>1, <3>2, <3>3 DEF CheckerShape
    <3> QED BY <3>4, <3>5, <3>6
  <2> QED BY <1>5, <2>2, <2>3 DEF CheckerMark
<1> QED BY <1>1, <1>2, <1>3, <1>4, <1>5 DEF CheckerStep

\* The steps of the executions keep the types.
LEMMA ExecKeepsTypes == TypeInv /\ (\E f \in Futures : ExecStep(f)) => TypeInv'
<1> SUFFICES ASSUME TypeInv, NEW f \in Futures, ExecStep(f) PROVE TypeInv'
  OBVIOUS
<1> USE DEF TypeInv
<1>1. CASE ExecLoad(f)
  <2>1. UNCHANGED <<jobs, agenda, used, exec, fjm, chk, main, req, ended>> /\ txn[f] = NoTxn
    BY <1>1 DEF ExecLoad
  <2> DEFINE j == exec[f].job
  <2>2. exec[f].pc \in UpdatePcs /\ j \in Jobs /\ f \in Actors
    BY <1>1 DEF ExecLoad, UpdatePcs, ExecShape, Actors
  <2> DEFINE Opened == /\ txn' \in [Actors -> Txn \cup {NoTxn}]
                       /\ \A b \in Actors \ {f} : txn'[b] = txn[b]
                       /\ txn'[f] # NoTxn
                       /\ txn'[f].job = j
                       /\ txn'[f].loaded = NoRow => exec[f].pc = "merge"
  <2>3. Opened
    <3>1. CASE exec[f].pc = "markRunning" /\ LoadMark(f, j, "RUNNING")
      BY <2>2, <3>1, LoadMarkType DEF States, FinishedStates
    <3>2. CASE exec[f].pc = "finish" /\ LoadMark(f, j, exec[f].outcome)
      <4>1. exec[f].outcome \in States
        BY DEF TypeOK, ExecRecord, States
      <4> QED BY <2>2, <3>2, <4>1, LoadMarkType
    <3>3. ASSUME NEW row \in Row, NEW json \in BOOLEAN, NEW time \in Times,
                 jobs[j] # NoRow \/ exec[f].pc = "merge",
                 Load(f, j, row, json, time)
          PROVE  Opened
      <4> DEFINE t == [job |-> j, loaded |-> jobs[j], new |-> row, json |-> json, time |-> time]
      <4>1. txn' = [txn EXCEPT ![f] = t]
        BY <3>3 DEF Load
      <4>2. t \in Txn
        BY <2>2, <3>3 DEF Txn, TypeOK
      <4>3. t.job = j /\ t.loaded = jobs[j]
        OBVIOUS
      <4> HIDE DEF t
      <4> QED BY <2>2, <3>3, <4>1, <4>2, <4>3, LoadType
    <3>4. CASE exec[f].pc = "progress" /\ Exists(j) /\ Load(f, j, jobs[j], TRUE, "keep")
      <4>1. jobs[j] \in Row /\ jobs[j] # NoRow /\ "keep" \in Times /\ TRUE \in BOOLEAN
        BY <2>2, <3>4 DEF TypeOK, Exists, Times
      <4> QED BY <3>3, <3>4, <4>1, Zenon
    <3>5. CASE exec[f].pc = "saveCancellable" /\ Exists(j)
               /\ Load(f, j, WithCancellable(jobs[j], exec[f].cancellable), FALSE, "keep")
      <4>1. jobs[j] \in Row /\ jobs[j] # NoRow /\ "keep" \in Times /\ FALSE \in BOOLEAN
            /\ exec[f].cancellable \in BOOLEAN
        BY <2>2, <3>5 DEF TypeOK, Exists, Times, ExecRecord
      <4>2. WithCancellable(jobs[j], exec[f].cancellable) \in Row
        BY <4>1, RowOperations, Zenon
      <4> QED BY <3>3, <3>5, <4>1, <4>2, Zenon
    <3>6. CASE exec[f].pc = "merge" /\ \E time \in {"now", "later"} : LoadMerge(f, j, exec[f].next, time)
      <4>1. PICK time \in {"now", "later"} : Load(f, j, exec[f].next, FALSE, time)
        BY <3>6 DEF LoadMerge
      <4>2. exec[f].next \in Row /\ time \in Times /\ FALSE \in BOOLEAN
        BY <3>6 DEF ExecShape, Times
      <4> QED BY <3>3, <3>6, <4>1, <4>2, Zenon
    <3> QED BY <1>1, <3>1, <3>2, <3>3, <3>4, <3>5, <3>6 DEF ExecLoad
  <2>4. TypeOK'
    BY <2>1, <2>3 DEF TypeOK
  <2>5. RequestShape' /\ CheckerShape' /\ MainShape'
    BY <2>1, <2>3, DistinctValues DEF RequestShape, CheckerShape, MainShape, Actors
  <2>6. ExecShape'
    BY <2>1, <2>2, <2>3 DEF ExecShape, Actors
  <2> QED BY <2>4, <2>5, <2>6
<1>2. CASE ExecCommit(f)
  <2>1. Commit(f) /\ txn[f] # NoTxn /\ f \in Actors
        /\ UNCHANGED <<used, fjm, chk, main, req, ended>>
    BY <1>2 DEF ExecCommit, Actors
  <2>2. exec[f].pc \in UpdatePcs
    BY <2>1 DEF ExecShape
  <2>3. After[exec[f].pc] \in ExecPcs \ {"free", "schedule", "merge"}
    BY <2>2 DEF After, UpdatePcs, ExecPcs
  <2>4. exec' = [exec EXCEPT ![f].pc = After[exec[f].pc]]
    BY <1>2 DEF ExecCommit
  <2>5. /\ exec' \in [Futures -> ExecRecord]
        /\ exec'[f].job = exec[f].job /\ exec'[f].pc \notin {"free", "schedule", "merge"}
        /\ \A g \in Futures \ {f} : exec'[g] = exec[g]
    <3>1. exec \in [Futures -> ExecRecord]
      BY DEF TypeOK
    <3> QED BY <2>3, <2>4, <3>1 DEF ExecRecord
  <2>6. TypeOK'
    BY <2>1, <2>5, CommitType DEF TypeOK
  <2>7. txn'[f] = NoTxn /\ \A b \in Actors \ {f} : txn'[b] = txn[b]
    BY <2>1, CommitType
  <2>8. RequestShape' /\ CheckerShape'
    BY <2>1, <2>7, DistinctValues DEF RequestShape, CheckerShape, Actors
  <2>9. main.pc \notin {"down", "requeue", "markQueued"}
    BY <2>2 DEF MainShape, UpdatePcs
  <2>10. MainShape'
    BY <2>1, <2>7, <2>9, DistinctValues DEF MainShape, Actors
  <2>11. ExecShape'
    BY <2>2, <2>5, <2>7 DEF ExecShape, Actors, UpdatePcs
  <2> QED BY <2>6, <2>8, <2>10, <2>11
<1>3. CASE ExecCallback(f)
  <2>1. Untrack(f) /\ exec[f].pc = "over" /\ exec[f].job \in Jobs
        /\ UNCHANGED <<jobs, agenda, used, txn, chk, main, req, ended>>
    BY <1>3 DEF ExecCallback, ExecShape
  <2>2. TypeOK'
    BY <2>1, UntrackType DEF TypeOK
  <2>3. ExecShape' /\ MainShape'
    BY <2>1, UntrackType DEF ExecShape, MainShape, UpdatePcs
  <2>4. RequestShape' /\ CheckerShape'
    BY <2>1 DEF RequestShape, CheckerShape
  <2> QED BY <2>2, <2>3, <2>4
<1>4. CASE \/ ExecTake(f) \/ ExecGetJob(f) \/ ExecSkipUpdate(f) \/ ExecCheck(f)
           \/ FuncPolls(f) \/ FuncActs(f) \/ FuncReturns(f) \/ ExecReschedule(f)
           \/ ExecSchedule(f)
  <2>1. UNCHANGED <<jobs, agenda, used, txn, fjm, chk, main, req, ended>>
    BY <1>4 DEF ExecTake, ExecGetJob, ExecSkipUpdate, ExecCheck, FuncPolls, FuncActs,
                FuncReturns, ExecReschedule, ExecSchedule
  <2>2. exec[f].pc # "free" /\ txn[f] = NoTxn
    BY <1>4 DEF ExecTake, ExecGetJob, ExecSkipUpdate, ExecCheck, FuncPolls, FuncActs,
                FuncReturns, ExecReschedule, ExecSchedule, ExecShape, UpdatePcs
  <2>3. exec[f] \in ExecRecord /\ exec[f].job \in Jobs
    BY <2>2 DEF TypeOK, ExecShape
  <2>4. /\ exec' \in [Futures -> ExecRecord]
        /\ exec'[f].job = exec[f].job /\ exec'[f].pc # "free"
        /\ exec'[f].pc \in {"schedule", "merge"} => exec'[f].next \in Row
        /\ \A g \in Futures \ {f} : exec'[g] = exec[g]
    <3> USE <2>3
    <3>1. CASE ExecTake(f)
      BY <3>1 DEF ExecTake, TypeOK, ExecRecord, ExecPcs
    <3>2. CASE ExecGetJob(f)
      <4>1. Exists(exec[f].job) => jobs[exec[f].job].saved.cancellable \in BOOLEAN
        BY DEF TypeOK, Exists, Row
      <4> QED BY <3>2, <4>1 DEF ExecGetJob, TypeOK, ExecRecord, ExecPcs
    <3>3. CASE ExecSkipUpdate(f)
      <4>1. exec' = [exec EXCEPT ![f].pc = After[exec[f].pc]]
        BY <3>3 DEF ExecSkipUpdate
      <4>2. After[exec[f].pc] \in ExecPcs \ {"free", "schedule", "merge"}
        BY <3>3 DEF ExecSkipUpdate, After, ExecPcs
      <4> QED BY <4>1, <4>2 DEF TypeOK, ExecRecord
    <3>4. CASE ExecCheck(f) \/ FuncPolls(f) \/ FuncReturns(f)
      <4>1. \/ exec' = [exec EXCEPT ![f].pc = "func"]
            \/ \E s \in FinishedStates : Ends(f, s)
        BY <3>4 DEF ExecCheck, FuncPolls, FuncReturns, FinishedStates
      <4> QED BY <4>1 DEF Ends, TypeOK, ExecRecord, ExecPcs
    <3>5. CASE FuncActs(f)
      BY <3>5 DEF FuncActs, TypeOK, ExecRecord, ExecPcs
    <3>6. CASE ExecReschedule(f)
      <4> DEFINE j == exec[f].job
                 p == IF exec[f].lower THEN LOW ELSE jobs[j].priority
                 goesOn == Exists(j) /\ Finished(jobs[j]) /\ MustReschedule(jobs[j], exec[f].delay)
                 new == Rescheduled(jobs[j], exec[f].delay, p)
                 time == RescheduleTime(jobs[j], exec[f].delay)
      <4>1. CASE goesOn
        <5>1. jobs[j] \in Row /\ Finished(jobs[j]) /\ MustReschedule(jobs[j], exec[f].delay)
          BY <4>1 DEF TypeOK, Exists
        <5>2. p \in {HIGH, REGULAR, LOW}
          BY <5>1 DEF Row
        <5>3. new \in Row
          BY <5>1, <5>2, RescheduledType
        <5>4. exec' = [exec EXCEPT ![f] = [@ EXCEPT !.pc = "schedule", !.delay = time, !.next = new]]
          BY <3>6, <4>1 DEF ExecReschedule
        <5>5. time \in {"none", "now", "later"}
          BY <5>1 DEF RescheduleTime, Row, TypeOK, ExecRecord
        <5> HIDE DEF new, time
        <5> QED BY <5>3, <5>4, <5>5 DEF TypeOK, ExecRecord, ExecPcs
      <4>2. CASE ~goesOn
        <5>1. exec' = [exec EXCEPT ![f] = [@ EXCEPT !.pc = "over"]]
          BY <3>6, <4>2 DEF ExecReschedule
        <5> QED BY <5>1 DEF TypeOK, ExecRecord, ExecPcs
      <4> QED BY <4>1, <4>2
    <3>7. CASE ExecSchedule(f)
      BY <3>7 DEF ExecSchedule, TypeOK, ExecRecord, ExecPcs, ExecShape
    <3> QED BY <1>4, <3>1, <3>2, <3>3, <3>4, <3>5, <3>6, <3>7
  <2>5. TypeOK'
    BY <2>1, <2>4 DEF TypeOK
  <2>6. RequestShape' /\ CheckerShape'
    BY <2>1 DEF RequestShape, CheckerShape
  <2>7. MainShape'
    BY <2>1, <2>2, <2>4 DEF MainShape
  <2>8. ExecShape'
    BY <2>1, <2>2, <2>3, <2>4 DEF ExecShape
  <2> QED BY <2>5, <2>6, <2>7, <2>8
<1> QED BY <1>1, <1>2, <1>3, <1>4 DEF ExecStep

\* The table after a DELETE.
LEMMA DeleteType ==
    ASSUME TypeOK, NEW js \in SUBSET Jobs, NEW force \in BOOLEAN, Delete(js, force)
    PROVE  /\ jobs' \in [Jobs -> Row \cup {NoRow}]
           /\ agenda' \subseteq Jobs \X Jobs
           /\ \A j \in Jobs : jobs'[j] = jobs[j] \/ jobs'[j] = NoRow
BY DEF TypeOK, Delete, Without

RequestRecord == [pc : RequestPcs, job : Jobs \cup {NoJob}, next : Row \cup {NoRow}, time : Times]

\* A step of a request that opens and closes no transaction.
LEMMA RequestOnly ==
    ASSUME TypeInv, NEW r \in Requests, NEW q \in RequestRecord,
           UNCHANGED <<txn, exec, fjm, chk, main, ended>>,
           txn[r] = NoTxn, req' = [req EXCEPT ![r] = q],
           jobs' \in [Jobs -> Row \cup {NoRow}], agenda' \subseteq Jobs \X Jobs, used' \subseteq Jobs,
           q.pc \notin {"new", "done"} => q.job \in Jobs,
           q.pc \in {"clearFirst", "schedule", "merge"} => q.next \in Row
    PROVE  TypeInv'
<1> USE DEF TypeInv
<1>1. req' \in [Requests -> RequestRecord] /\ req'[r] = q
      /\ \A p \in Requests \ {r} : req'[p] = req[p]
  BY DEF TypeOK, RequestRecord
<1>2. TypeOK'
  BY <1>1 DEF TypeOK, RequestRecord
<1>3. RequestShape'
  BY <1>1 DEF RequestShape
<1>4. ExecShape' /\ CheckerShape' /\ MainShape'
  BY DEF ExecShape, CheckerShape, MainShape
<1> QED BY <1>2, <1>3, <1>4

\* The same when it only goes somewhere else.
LEMMA RequestGoes ==
    ASSUME TypeInv, NEW r \in Requests, NEW pc \in RequestPcs, Goes(r, pc),
           UNCHANGED <<txn, used, exec, fjm, chk, main, ended>>,
           txn[r] = NoTxn,
           jobs' \in [Jobs -> Row \cup {NoRow}], agenda' \subseteq Jobs \X Jobs,
           pc \notin {"new", "done"} => req[r].job \in Jobs,
           pc \in {"clearFirst", "schedule", "merge"} => req[r].next \in Row
    PROVE  TypeInv'
<1> DEFINE q == [req[r] EXCEPT !.pc = pc]
<1>1. q \in RequestRecord /\ q.pc = pc /\ q.job = req[r].job /\ q.next = req[r].next
  BY DEF TypeInv, TypeOK, RequestRecord
<1>2. req' = [req EXCEPT ![r] = q]
  BY DEF Goes
<1>3. used' \subseteq Jobs
  BY DEF TypeInv, TypeOK
<1> HIDE DEF q
<1> QED BY <1>1, <1>2, <1>3, RequestOnly

\* A request that begins keeps the types.
LEMMA RequestBeginKeepsTypes ==
    TypeInv /\ (\E r \in Requests : RequestBegins(r)) => TypeInv'
<1> SUFFICES ASSUME TypeInv, NEW r \in Requests, RequestBegins(r) PROVE TypeInv'
  OBVIOUS
<1> USE DEF TypeInv
<1>1. TypeOK
  OBVIOUS
<1>2. ASSUME NEW j \in Jobs, NEW k \in Kinds, RequestEnqueue(r, j, k) \/ RequestUpdate(r, j, k)
      PROVE  TypeInv'
  <2>1. /\ UNCHANGED <<jobs, agenda, txn, exec, fjm, chk, main, ended>>
        /\ used' \subseteq Jobs /\ txn[r] = NoTxn
    BY <1>2 DEF RequestEnqueue, RequestUpdate, RequestShape, TypeOK
  <2>2. PICK c \in BOOLEAN : req' = [req EXCEPT ![r] =
          [pc |-> "schedule", job |-> j, time |-> k.time,
           next |-> Scheduled(c, k.priority, k.repeat, k.retry)]]
    <3>1. CASE RequestEnqueue(r, j, k)
      <4>1. k.cancellable \in BOOLEAN
        BY ConstantsAssumption DEF Kind
      <4> QED BY <3>1, <4>1 DEF RequestEnqueue
    <3>2. CASE RequestUpdate(r, j, k)
      <4>1. jobs[j].saved.cancellable \in BOOLEAN
        BY <3>2 DEF RequestUpdate, Exists, TypeOK, Row
      <4> QED BY <3>2, <4>1 DEF RequestUpdate
    <3> QED BY <1>2, <3>1, <3>2
  <2> DEFINE row == Scheduled(c, k.priority, k.repeat, k.retry)
             q == [pc |-> "schedule", job |-> j, time |-> k.time, next |-> row]
  <2>3. row \in Row
    <3>1. /\ k.priority \in {HIGH, REGULAR, LOW} /\ k.retry \in {"none", "now", "later"}
          /\ k.repeat \in (0 .. MaxRepeat) \cup {Forever}
      BY ConstantsAssumption DEF Kind
    <3> QED BY <3>1, ScheduledType, Zenon
  <2> HIDE DEF row
  <2>4. q \in RequestRecord
    <3>1. k.time \in Times
      BY ConstantsAssumption DEF Kind, Times
    <3> QED BY <2>3, <3>1 DEF RequestRecord, RequestPcs
  <2>5. q.pc = "schedule" /\ q.job = j /\ q.next = row
    OBVIOUS
  <2>6. req' = [req EXCEPT ![r] = q]
    BY <2>2 DEF row
  <2> HIDE DEF q
  <2> QED BY <1>1, <2>1, <2>3, <2>4, <2>5, <2>6, RequestOnly DEF TypeOK
<1>3. ASSUME NEW j \in Jobs, NEW op \in ViewOps, RequestView(r, j, op) PROVE TypeInv'
  <2> DEFINE q == [NewRequest EXCEPT !.pc = IF op = "cancelIfExists" THEN "cancel" ELSE op, !.job = j]
  <2>1. /\ UNCHANGED <<jobs, agenda, used, txn, exec, fjm, chk, main, ended>>
        /\ req' = [req EXCEPT ![r] = q] /\ txn[r] = NoTxn
    BY <1>3 DEF RequestView, RequestShape
  <2>2. q \in RequestRecord /\ q.job \in Jobs /\ q.pc \notin {"clearFirst", "schedule", "merge"}
    BY DEF NewRequest, RequestRecord, RequestPcs, ViewOps, Times
  <2> HIDE DEF q
  <2> QED BY <1>1, <2>1, <2>2, RequestOnly DEF TypeOK
<1>4. CASE RequestClearAll(r)
  <2>1. /\ Delete(Jobs, FALSE) /\ Goes(r, "done") /\ txn[r] = NoTxn
        /\ UNCHANGED <<used, txn, exec, fjm, chk, main, ended>>
    BY <1>4 DEF RequestClearAll, RequestShape
  <2>2. jobs' \in [Jobs -> Row \cup {NoRow}] /\ agenda' \subseteq Jobs \X Jobs
    BY <2>1, <1>1, DeleteType, Zenon
  <2> QED BY <1>1, <2>1, <2>2, RequestGoes DEF RequestPcs
<1> QED BY <1>2, <1>3, <1>4 DEF RequestBegins

\* The steps of the requests keep the types.
LEMMA RequestKeepsTypes == TypeInv /\ (\E r \in Requests : RequestStep(r)) => TypeInv'
<1> SUFFICES ASSUME TypeInv, NEW r \in Requests, RequestStep(r) PROVE TypeInv'
  OBVIOUS
<1> USE DEF TypeInv
<1>1. TypeOK /\ r \in Actors
  BY DEF Actors
<1>2. CASE RequestCancel(r) \/ RequestSchedule(r)
  <2>1. /\ UNCHANGED <<jobs, agenda, used, txn, exec, fjm, chk, main, ended>>
        /\ req[r].pc \in {"cancel", "schedule"}
        /\ \E pc \in {"done", "forget", "mark", "merge"} :
             Goes(r, pc) /\ (pc = "merge" => req[r].pc = "schedule")
    BY <1>2 DEF RequestCancel, RequestSchedule
  <2>2. PICK pc \in {"done", "forget", "mark", "merge"} :
             Goes(r, pc) /\ (pc = "merge" => req[r].pc = "schedule")
    BY <2>1
  <2>3. /\ txn[r] = NoTxn /\ req[r].job \in Jobs /\ pc \in RequestPcs
        /\ pc = "merge" => req[r].next \in Row
    BY <2>1, <2>2 DEF RequestShape, RequestPcs
  <2> QED BY <1>1, <2>1, <2>2, <2>3, RequestGoes DEF TypeOK
<1>3. CASE RequestDelete(r) \/ RequestClearFirst(r)
  <2>1. /\ UNCHANGED <<used, txn, exec, fjm, chk, main, ended>>
        /\ req[r].pc \in {"clear", "delete", "forget", "clearFirst"}
        /\ \E force \in BOOLEAN : Delete({req[r].job}, force)
        /\ \/ Goes(r, "done")
           \/ Goes(r, "schedule") /\ req[r].pc = "clearFirst"
    BY <1>3 DEF RequestDelete, RequestClearFirst
  <2>2. /\ txn[r] = NoTxn /\ req[r].job \in Jobs
        /\ req[r].pc = "clearFirst" => req[r].next \in Row
    BY <2>1 DEF RequestShape
  <2>3. jobs' \in [Jobs -> Row \cup {NoRow}] /\ agenda' \subseteq Jobs \X Jobs
    <3>1. PICK force \in BOOLEAN : Delete({req[r].job}, force)
      BY <2>1
    <3>2. {req[r].job} \in SUBSET Jobs
      BY <2>2
    <3> QED BY <1>1, <3>1, <3>2, DeleteType, Zenon
  <2> QED BY <1>1, <2>1, <2>2, <2>3, RequestGoes DEF RequestPcs
<1>4. CASE RequestRestart(r)
  <2> DEFINE j == req[r].job
             row == Scheduled(jobs[j].saved.cancellable, jobs[j].priority, 0, "none")
             q == [pc |-> "clearFirst", job |-> j, time |-> "now", next |-> row]
  <2>1. /\ UNCHANGED <<jobs, agenda, used, txn, exec, fjm, chk, main, ended>>
        /\ txn[r] = NoTxn /\ j \in Jobs
        /\ \/ Exists(j) /\ req' = [req EXCEPT ![r] = q]
           \/ Goes(r, "done")
    BY <1>4 DEF RequestRestart, RequestShape, Goes
  <2>2. CASE Exists(j) /\ req' = [req EXCEPT ![r] = q]
    <3>1. row \in Row
      <4>1. /\ jobs[j].saved.cancellable \in BOOLEAN /\ jobs[j].priority \in {HIGH, REGULAR, LOW}
            /\ 0 \in (0 .. MaxRepeat) \cup {Forever}
        BY <2>1, <2>2, ConstantsAssumption DEF Exists, TypeOK, Row
      <4> QED BY <4>1, ScheduledType, Zenon
    <3> HIDE DEF row
    <3>2. q \in RequestRecord /\ q.pc = "clearFirst" /\ q.job \in Jobs /\ q.next \in Row
      BY <2>1, <3>1 DEF RequestRecord, RequestPcs, Times
    <3> HIDE DEF q
    <3> QED BY <1>1, <2>1, <2>2, <3>2, RequestOnly DEF TypeOK
  <2>3. CASE Goes(r, "done")
    BY <1>1, <2>1, <2>3, RequestGoes DEF RequestPcs, TypeOK
  <2> QED BY <2>1, <2>2, <2>3
<1>5. CASE RequestLoad(r)
  <2> DEFINE j == req[r].job
  <2>1. /\ UNCHANGED <<jobs, agenda, used, exec, fjm, chk, main, ended>> /\ txn[r] = NoTxn
        /\ req[r].pc \in {"merge", "mark"} /\ j \in Jobs
        /\ \/ req[r].pc = "merge" /\ LoadMerge(r, j, req[r].next, req[r].time) /\ UNCHANGED req
           \/ req[r].pc = "mark" /\ LoadMark(r, j, "CANCELING") /\ UNCHANGED req
           \/ Goes(r, "done") /\ UNCHANGED txn
    BY <1>5 DEF RequestLoad, RequestShape
  <2>2. CASE Goes(r, "done") /\ UNCHANGED txn
    BY <1>1, <2>1, <2>2, RequestGoes DEF RequestPcs, TypeOK
  <2>3. CASE UNCHANGED req /\ ~(Goes(r, "done") /\ UNCHANGED txn)
    <3>1. /\ txn' \in [Actors -> Txn \cup {NoTxn}]
          /\ \A b \in Actors \ {r} : txn'[b] = txn[b]
          /\ txn'[r] # NoTxn
          /\ txn'[r].job = j
          /\ txn'[r].loaded = NoRow => req[r].pc = "merge"
      <4>1. CASE req[r].pc = "merge" /\ LoadMerge(r, j, req[r].next, req[r].time)
        <5> DEFINE u == [job |-> j, loaded |-> jobs[j], new |-> req[r].next,
                         json |-> FALSE, time |-> req[r].time]
        <5>1. txn' = [txn EXCEPT ![r] = u]
          BY <4>1 DEF LoadMerge, Load
        <5>2. u \in Txn
          BY <2>1, <4>1 DEF Txn, TypeOK, RequestShape
        <5>3. u.job = j
          OBVIOUS
        <5> HIDE DEF u
        <5> QED BY <1>1, <4>1, <5>1, <5>2, <5>3, LoadType
      <4>2. CASE req[r].pc = "mark" /\ LoadMark(r, j, "CANCELING")
        BY <1>1, <2>1, <4>2, LoadMarkType DEF States
      <4> QED BY <2>1, <2>3, <4>1, <4>2
    <3>2. TypeOK'
      BY <2>1, <2>3, <3>1 DEF TypeOK
    <3>3. ExecShape' /\ CheckerShape' /\ MainShape'
      BY <2>1, <3>1, DistinctValues DEF ExecShape, CheckerShape, MainShape, Actors
    <3>4. RequestShape'
      BY <2>1, <2>3, <3>1 DEF RequestShape, Actors
    <3> QED BY <3>2, <3>3, <3>4
  <2> QED BY <2>1, <2>2, <2>3
<1>6. CASE RequestCommit(r)
  <2>1. /\ txn[r] # NoTxn /\ Commit(r) /\ Goes(r, "done")
        /\ UNCHANGED <<used, exec, fjm, chk, main, ended>>
    BY <1>6 DEF RequestCommit
  <2>2. /\ req' \in [Requests -> RequestRecord] /\ req'[r].pc = "done"
        /\ \A p \in Requests \ {r} : req'[p] = req[p]
    BY <2>1 DEF Goes, TypeOK, RequestRecord, RequestPcs
  <2>3. TypeOK'
    BY <1>1, <2>1, <2>2, CommitType DEF TypeOK, RequestRecord
  <2>4. txn'[r] = NoTxn /\ \A b \in Actors \ {r} : txn'[b] = txn[b]
    BY <1>1, <2>1, CommitType
  <2>5. ExecShape' /\ CheckerShape' /\ MainShape'
    BY <2>1, <2>4, DistinctValues DEF ExecShape, CheckerShape, MainShape, Actors
  <2>6. RequestShape'
    BY <2>2, <2>4 DEF RequestShape, Actors
  <2> QED BY <2>3, <2>5, <2>6
<1> QED BY <1>2, <1>3, <1>4, <1>5, <1>6 DEF RequestStep

MainRecord == [pc : MainPcs, job : Jobs \cup {NoJob}, todo : SUBSET Jobs]

\* A step of the main thread that touches neither the table nor an execution.
LEMMA MainOnly ==
    ASSUME TypeInv, main' \in MainRecord, chk' = chk, ended' \in Nat, txn[Main] = NoTxn,
           UNCHANGED <<jobs, agenda, used, txn, exec, fjm, req>>,
           main'.pc \in MarkPcs \cup {"drop"} => main'.job \in Jobs,
           main'.pc \in {"down", "requeue", "markQueued"} =>
               \A f \in Futures : exec[f].pc = "free",
           main'.pc \notin {"up", "stopping"} => chk.pc = "off"
    PROVE  TypeInv'
<1> USE DEF TypeInv
<1>1. TypeOK'
  BY DEF TypeOK, MainRecord
<1>2. ExecShape' /\ RequestShape'
  BY DEF ExecShape, RequestShape
<1>3. CheckerShape' /\ MainShape'
  BY DEF CheckerShape, MainShape
<1> QED BY <1>1, <1>2, <1>3

\* The start and the stop of the worker keep the types.
LEMMA MainKeepsTypes == TypeInv /\ (MainStep \/ Stop) => TypeInv'
<1> SUFFICES ASSUME TypeInv, MainStep \/ Stop PROVE TypeInv'
  OBVIOUS
<1> USE DEF TypeInv
<1>1. /\ TypeOK /\ Main \in Actors /\ main \in MainRecord /\ ended \in Nat
      /\ RunningJobs \subseteq Jobs
  BY DEF Actors, TypeOK, MainRecord, RunningJobs
<1>2. CASE Start
  <2>1. /\ UNCHANGED <<jobs, agenda, used, txn, exec, fjm, chk, req, ended>> /\ main.pc = "down"
        /\ main' = [pc |-> "requeue", job |-> NoJob, todo |-> RunningJobs]
    BY <1>2 DEF Start
  <2>2. main' \in MainRecord /\ main'.pc = "requeue"
    BY <1>1, <2>1 DEF MainRecord, MainPcs
  <2>3. txn[Main] = NoTxn /\ chk.pc = "off" /\ \A f \in Futures : exec[f].pc = "free"
    BY <2>1 DEF MainShape, CheckerShape, MarkPcs
  <2> QED BY <1>1, <2>1, <2>2, <2>3, MainOnly DEF MarkPcs
<1>3. ASSUME NEW todo, NEW pc \in {"markQueued", "markCanceling"}, MainNext(todo, pc),
             todo = IF pc = "markQueued" THEN "requeue" ELSE "shutdown"
      PROVE  TypeInv'
  <2>1. PICK j \in main.todo : main' = [main EXCEPT !.todo = @ \ {j}, !.job = j, !.pc = pc]
    BY <1>3 DEF MainNext
  <2>2. /\ UNCHANGED <<jobs, agenda, used, txn, exec, fjm, chk, req, ended>>
        /\ txn[Main] = NoTxn /\ main.pc = todo
    BY <1>3 DEF MainNext
  <2>3. main' \in MainRecord /\ main'.pc = pc /\ main'.job \in Jobs
    BY <1>1, <2>1 DEF MainRecord, MainPcs
  <2>4. chk.pc = "off" /\ (pc = "markQueued" => \A f \in Futures : exec[f].pc = "free")
    BY <1>3, <2>2 DEF CheckerShape, MainShape
  <2> QED BY <1>1, <2>2, <2>3, <2>4, MainOnly
<1>4. CASE MainUp
  <2>1. /\ UNCHANGED <<jobs, agenda, used, txn, exec, fjm, req, ended>>
        /\ main.pc = "requeue" /\ main' = [main EXCEPT !.pc = "up", !.job = NoJob]
        /\ chk' = IdleChecker
    BY <1>4 DEF MainUp
  <2>2. main' \in MainRecord /\ main'.pc = "up"
    BY <1>1, <2>1 DEF MainRecord, MainPcs
  <2>3. chk' \in [pc : CheckerPcs, job : Jobs \cup {NoJob}, todo : SUBSET Jobs]
        /\ chk'.pc = "next"
    BY <2>1 DEF IdleChecker, CheckerPcs
  <2>4. txn[Checker] = NoTxn /\ txn[Main] = NoTxn
    BY <2>1 DEF CheckerShape, MainShape, MarkPcs
  <2>5. TypeOK'
    BY <2>1, <2>2, <2>3 DEF TypeOK, MainRecord
  <2>6. ExecShape' /\ RequestShape'
    BY <2>1 DEF ExecShape, RequestShape
  <2>7. CheckerShape' /\ MainShape'
    BY <2>1, <2>2, <2>3, <2>4 DEF CheckerShape, MainShape, MarkPcs
  <2> QED BY <2>5, <2>6, <2>7
<1>5. CASE Stop
  <2>1. /\ UNCHANGED <<jobs, agenda, used, txn, exec, fjm, chk, req>> /\ ended' = ended + 1
        /\ main.pc = "up" /\ main' = [main EXCEPT !.pc = "stopping"]
    BY <1>5 DEF Stop
  <2>2. main' \in MainRecord /\ main'.pc = "stopping"
    BY <1>1, <2>1 DEF MainRecord, MainPcs
  <2>3. txn[Main] = NoTxn
    BY <2>1 DEF MainShape, MarkPcs
  <2> QED BY <1>1, <2>1, <2>2, <2>3, MainOnly DEF MarkPcs
<1>6. CASE MainJoined
  <2>1. /\ UNCHANGED <<jobs, agenda, used, txn, exec, fjm, chk, req, ended>>
        /\ main.pc = "stopping" /\ chk.pc = "off"
        /\ main' = [pc |-> "shutdown", job |-> NoJob, todo |-> RunningJobs]
    BY <1>6 DEF MainJoined
  <2>2. main' \in MainRecord /\ main'.pc = "shutdown"
    BY <1>1, <2>1 DEF MainRecord, MainPcs
  <2>3. txn[Main] = NoTxn
    BY <2>1 DEF MainShape, MarkPcs
  <2> QED BY <1>1, <2>1, <2>2, <2>3, MainOnly DEF MarkPcs
<1>7. CASE MainMark
  <2>1. /\ UNCHANGED <<used, exec, fjm, chk, req, ended>> /\ main.pc \in MarkPcs
        /\ main.job \in Jobs
    BY <1>7 DEF MainMark, MarkOf, MarkPcs, MainShape
  <2>2. chk.pc = "off"
    BY <2>1 DEF CheckerShape, MarkPcs
  <2>3. CASE txn[Main] = NoTxn /\ LoadMark(Main, main.job, MarkOf[main.pc])
             /\ UNCHANGED <<jobs, agenda, main>>
    <3>1. MarkOf[main.pc] \in States
      BY <2>1 DEF MarkOf, MarkPcs, States, FinishedStates
    <3>2. /\ txn' \in [Actors -> Txn \cup {NoTxn}]
          /\ \A b \in Actors \ {Main} : txn'[b] = txn[b]
          /\ txn'[Main].job = main.job /\ txn'[Main].loaded # NoRow
      BY <1>1, <2>1, <2>3, <3>1, LoadMarkType
    <3>3. TypeOK'
      BY <2>1, <2>3, <3>2 DEF TypeOK
    <3>4. ExecShape' /\ RequestShape' /\ CheckerShape'
      BY <2>1, <2>3, <3>2, DistinctValues DEF ExecShape, RequestShape, CheckerShape, Actors
    <3>5. MainShape'
      BY <2>1, <2>3, <3>2 DEF MainShape
    <3> QED BY <3>3, <3>4, <3>5
  <2>4. CASE main' = [main EXCEPT !.pc = Follows[@]]
    <3>1. /\ main' \in MainRecord /\ main'.job = main.job
          /\ main'.pc = Follows[main.pc] /\ main'.pc \in {"requeue", "drop", "shutdown"}
          /\ main'.pc = "requeue" => main.pc = "markQueued"
      BY <1>1, <2>1, <2>4 DEF MainRecord, MainPcs, Follows, MarkPcs
    <3>2. \/ UNCHANGED <<jobs, agenda, txn>> /\ txn[Main] = NoTxn
          \/ txn[Main] # NoTxn /\ Commit(Main)
      <4>1. main' # main
        BY <2>1, <3>1 DEF MarkPcs
      <4> QED BY <1>7, <4>1 DEF MainMark
    <3>3. /\ txn' \in [Actors -> Txn \cup {NoTxn}] /\ txn'[Main] = NoTxn
          /\ \A b \in Actors \ {Main} : txn'[b] = txn[b]
          /\ jobs' \in [Jobs -> Row \cup {NoRow}] /\ agenda' \subseteq Jobs \X Jobs
      BY <1>1, <3>2, CommitType DEF TypeOK
    <3>4. TypeOK'
      BY <2>1, <3>1, <3>3 DEF TypeOK, MainRecord
    <3>5. ExecShape' /\ RequestShape' /\ CheckerShape'
      BY <2>1, <2>2, <3>3, DistinctValues DEF ExecShape, RequestShape, CheckerShape, Actors
    <3>6. MainShape'
      BY <2>1, <3>1, <3>3 DEF MainShape, MarkPcs
    <3> QED BY <3>4, <3>5, <3>6
  <2> QED BY <1>7, <2>3, <2>4 DEF MainMark
<1>8. CASE MainDrop
  <2>1. /\ UNCHANGED <<jobs, agenda, used, txn, chk, req, ended>> /\ main.pc = "drop"
        /\ UNCHANGED <<exec, fjm>> \/ (Droppable(main.job) /\ Untrack(fjm[main.job]))
        /\ \E pc \in {"markCanceled", "shutdown"} : main' = [main EXCEPT !.pc = pc]
    BY <1>8 DEF MainDrop
  <2>2. /\ main' \in MainRecord /\ main'.job = main.job /\ main.job \in Jobs
        /\ main'.pc \in {"markCanceled", "shutdown"} /\ txn[Main] = NoTxn /\ chk.pc = "off"
    BY <1>1, <2>1 DEF MainRecord, MainPcs, MainShape, CheckerShape, MarkPcs
  <2>3. CASE UNCHANGED <<exec, fjm>>
    BY <1>1, <2>1, <2>2, <2>3, MainOnly
  <2>4. CASE Droppable(main.job) /\ Untrack(fjm[main.job])
    <3> DEFINE f == fjm[main.job]
    <3>1. f \in Futures /\ exec[f].pc = "pending"
      BY <2>2, <2>4 DEF Droppable, TypeOK
    <3>2. exec[f].job \in Jobs
      BY <3>1 DEF ExecShape
    <3>3. /\ exec' \in [Futures -> ExecRecord] /\ fjm' \in [Jobs -> Futures \cup {NoFuture}]
          /\ exec'[f].pc = "free"
          /\ \A g \in Futures \ {f} : exec'[g] = exec[g]
      BY <1>1, <2>4, <3>1, <3>2, UntrackType
    <3>4. TypeOK'
      BY <2>1, <2>2, <3>3 DEF TypeOK, MainRecord
    <3>5. ExecShape'
      BY <2>1, <3>1, <3>3 DEF ExecShape, UpdatePcs
    <3>6. RequestShape' /\ CheckerShape'
      BY <2>1, <2>2 DEF RequestShape, CheckerShape
    <3>7. MainShape'
      BY <2>1, <2>2 DEF MainShape
    <3> QED BY <3>4, <3>5, <3>6, <3>7
  <2> QED BY <2>1, <2>3, <2>4
<1>9. CASE MainDown
  <2>1. /\ UNCHANGED <<jobs, agenda, used, txn, exec, fjm, chk, req, ended>> /\ main.pc = "shutdown"
        /\ main' = [main EXCEPT !.pc = "down", !.job = NoJob]
        /\ \A f \in Futures : exec[f].pc = "free"
    BY <1>9 DEF MainDown
  <2>2. main' \in MainRecord /\ main'.pc = "down" /\ txn[Main] = NoTxn /\ chk.pc = "off"
    BY <1>1, <2>1 DEF MainRecord, MainPcs, MainShape, CheckerShape, MarkPcs
  <2> QED BY <1>1, <2>1, <2>2, MainOnly DEF MarkPcs
<1> QED BY <1>2, <1>3, <1>4, <1>5, <1>6, <1>7, <1>8, <1>9 DEF MainStep

\* A crash keeps the types.
LEMMA CrashKeepsTypes == TypeInv /\ Crash => TypeInv'
<1> SUFFICES ASSUME TypeInv, Crash PROVE TypeInv'
  OBVIOUS
<1> USE DEF TypeInv
<1>1. /\ UNCHANGED <<jobs, agenda, used>> /\ ended' \in Nat
      /\ main' \in MainRecord /\ main'.pc = "down"
  BY DEF Crash, TypeOK, MainRecord, MainPcs
<1>2. chk' \in [pc : CheckerPcs, job : Jobs \cup {NoJob}, todo : SUBSET Jobs] /\ chk'.pc = "off"
  BY DEF Crash, IdleChecker, CheckerPcs
<1>3. /\ exec' \in [Futures -> ExecRecord] /\ \A f \in Futures : exec'[f].pc = "free"
  BY FreeExecType DEF Crash
<1>4. /\ txn' \in [Actors -> Txn \cup {NoTxn}] /\ \A a \in Actors : txn'[a] = NoTxn
  BY DEF Crash
<1>5. /\ req' \in [Requests -> RequestRecord]
      /\ \A r \in Requests : req'[r].pc \in {"new", "done"}
  <2>1. \A r \in Requests : [req[r] EXCEPT !.pc = "done"] \in RequestRecord
    BY DEF TypeOK, RequestRecord, RequestPcs
  <2>2. \A r \in Requests : req[r] \in RequestRecord
    BY DEF TypeOK, RequestRecord
  <2>3. req' = [r \in Requests |-> IF req[r].pc = "new" THEN req[r] ELSE [req[r] EXCEPT !.pc = "done"]]
    BY DEF Crash
  <2> QED BY <2>1, <2>2, <2>3 DEF RequestRecord
<1>6. fjm' \in [Jobs -> Futures \cup {NoFuture}]
  BY DEF Crash
<1>7. TypeOK'
  BY <1>1, <1>2, <1>3, <1>4, <1>5, <1>6 DEF TypeOK, MainRecord, RequestRecord
<1>8. ExecShape' /\ RequestShape' /\ CheckerShape' /\ MainShape'
  BY <1>1, <1>2, <1>3, <1>4, <1>5 DEF ExecShape, RequestShape, CheckerShape, MainShape, Actors, MarkPcs
<1> QED BY <1>7, <1>8

\* The types hold at the start.
LEMMA TypeInit == Init => TypeInv
<1> SUFFICES ASSUME Init PROVE TypeInv
  OBVIOUS
<1>1. TypeOK
  BY FreeExecType DEF Init, TypeOK, IdleChecker, CheckerPcs, MainPcs, NewRequest, RequestPcs, Times
<1>2. ExecShape /\ RequestShape /\ CheckerShape /\ MainShape
  BY FreeExecType DEF Init, ExecShape, RequestShape, CheckerShape, MainShape, Actors,
                     IdleChecker, NewRequest, MarkPcs
<1> QED BY <1>1, <1>2 DEF TypeInv

\* Every step keeps the types.
LEMMA TypeStep == TypeInv /\ [Next]_vars => TypeInv'
<1> SUFFICES ASSUME TypeInv, [Next]_vars PROVE TypeInv'
  OBVIOUS
<1>1. CASE UNCHANGED vars
  BY <1>1 DEF vars, TypeInv, TypeOK, ExecShape, RequestShape, CheckerShape, MainShape
<1>2. ASSUME NEW j \in Jobs, TimePasses(j) PROVE TypeInv'
  <2>1. UNCHANGED <<jobs, used, txn, exec, fjm, chk, main, req, ended>>
        /\ agenda' \subseteq Jobs \X Jobs
    BY <1>2 DEF TimePasses, AtTheEnd, TypeInv, TypeOK
  <2> QED BY <2>1 DEF TypeInv, TypeOK, ExecShape, RequestShape, CheckerShape, MainShape
<1> QED BY <1>1, <1>2, CheckerKeepsTypes, ExecKeepsTypes, RequestBeginKeepsTypes,
           RequestKeepsTypes, MainKeepsTypes, CrashKeepsTypes DEF Next

\* Every state of the runner is well typed, and each thread holds a transaction
\* only where the code has one open.
THEOREM TypesHold == Spec => []TypeInv
BY TypeInit, TypeStep, PTL DEF Spec

\* In particular the type invariant holds for all values of the constants.
THEOREM TypeCorrect == Spec => []TypeOK
<1>1. TypeInv => TypeOK
  BY DEF TypeInv
<1> QED BY <1>1, TypesHold, PTL

-----------------------------------------------------------------------------
(* What a step of an execution can move.                                   *)

\* A step of an execution touches no other execution, and tracks or frees only its own.
LEMMA ExecMoves ==
    ASSUME TypeInv, NEW f \in Futures, ExecStep(f)
    PROVE  /\ UNCHANGED <<used, chk, main, req, ended>>
           /\ exec[f].pc # "free" /\ exec[f].job \in Jobs
           /\ \A g \in Futures \ {f} : exec'[g] = exec[g]
           /\ exec[f].pc = "over" => Untrack(f) /\ UNCHANGED <<jobs, txn>>
           /\ exec[f].pc # "over" => /\ fjm' = fjm
                                     /\ exec'[f].job = exec[f].job
                                     /\ exec'[f].priority = exec[f].priority
                                     /\ exec'[f].pc # "free"
           /\ "retryNow" \notin Body /\ exec[f].delay # "now"
              /\ (Exists(exec[f].job) => jobs[exec[f].job].retry # "now") => exec'[f].delay # "now"
<1> USE DEF TypeInv
<1>1. CASE ExecCallback(f)
  <2>1. Untrack(f) /\ exec[f].pc = "over" /\ UNCHANGED <<used, chk, main, req, ended>>
        /\ UNCHANGED <<jobs, txn>>
    BY <1>1 DEF ExecCallback
  <2>2. exec[f].job \in Jobs
    BY <2>1 DEF ExecShape
  <2>3. FreeExec.delay = "none"
    BY DEF FreeExec
  <2> QED BY <2>1, <2>2, <2>3, UntrackType
<1>2. CASE ~ExecCallback(f)
  <2>1. /\ UNCHANGED <<used, chk, main, req, ended, fjm>>
        /\ exec[f].pc \notin {"free", "over"} \/ txn[f] # NoTxn
    BY <1>2 DEF ExecStep, ExecTake, ExecGetJob, ExecLoad, ExecCommit, ExecSkipUpdate,
                ExecCheck, FuncPolls, FuncActs, FuncReturns, ExecReschedule, ExecSchedule
  <2>2. exec[f].pc \notin {"free", "over"} /\ exec[f].job \in Jobs
    BY <2>1 DEF ExecShape, UpdatePcs
  <2>3. exec \in [Futures -> ExecRecord]
    BY DEF TypeOK
  <2>4. /\ \A g \in Futures \ {f} : exec'[g] = exec[g]
        /\ exec'[f].job = exec[f].job /\ exec'[f].pc # "free"
        /\ exec'[f].priority = exec[f].priority
        /\ "retryNow" \notin Body /\ exec[f].delay # "now"
           /\ (Exists(exec[f].job) => jobs[exec[f].job].retry # "now") => exec'[f].delay # "now"
    <3>1. CASE ExecLoad(f)
      BY <2>2, <3>1 DEF ExecLoad
    <3>2. CASE ExecCommit(f) \/ ExecSkipUpdate(f)
      <4>1. exec' = [exec EXCEPT ![f].pc = After[exec[f].pc]]
        BY <3>2 DEF ExecCommit, ExecSkipUpdate
      <4>2. exec[f].pc \in UpdatePcs
        BY <3>2 DEF ExecCommit, ExecSkipUpdate, ExecShape, UpdatePcs
      <4>3. After[exec[f].pc] # "free"
        BY <4>2 DEF After, UpdatePcs
      <4> QED BY <2>3, <4>1, <4>3 DEF ExecRecord
    <3>3. CASE ExecTake(f) \/ ExecGetJob(f) \/ ExecSchedule(f)
      <4>1. CASE ExecTake(f)
        BY <2>2, <2>3, <4>1 DEF ExecTake, ExecRecord
      <4>2. CASE ExecGetJob(f)
        <5>1. \E c : \/ exec' = [exec EXCEPT ![f] = [@ EXCEPT !.pc = "markRunning", !.cancellable = c]]
                    \/ exec' = [exec EXCEPT ![f] = [@ EXCEPT !.pc = "over"]]
          BY <4>2 DEF ExecGetJob
        <5> QED BY <2>3, <5>1 DEF ExecRecord
      <4>3. CASE ExecSchedule(f)
        <5>1. \E pc \in {"over", "merge"} : exec' = [exec EXCEPT ![f].pc = pc]
          BY <4>3 DEF ExecSchedule
        <5> QED BY <2>3, <5>1 DEF ExecRecord
      <4> QED BY <3>3, <4>1, <4>2, <4>3
    <3>4. CASE ExecCheck(f) \/ FuncPolls(f) \/ FuncReturns(f) \/ FuncActs(f)
      BY <2>2, <2>3, <3>4 DEF ExecCheck, FuncPolls, FuncReturns, FuncActs, Ends, ExecRecord
    <3>5. CASE ExecReschedule(f)
      <4> DEFINE j == exec[f].job
                 time == RescheduleTime(jobs[j], exec[f].delay)
                 Handed(row, t) == exec' = [exec EXCEPT ![f] =
                   [@ EXCEPT !.pc = "schedule", !.delay = t, !.next = row]]
      <4>1. \/ Exists(j) /\ \E row : Handed(row, time)
            \/ exec' = [exec EXCEPT ![f] = [@ EXCEPT !.pc = "over"]]
        BY <3>5 DEF ExecReschedule
      <4>2. CASE exec' = [exec EXCEPT ![f] = [@ EXCEPT !.pc = "over"]]
        BY <2>3, <4>2 DEF ExecRecord
      <4>3. ASSUME NEW row, NEW t, Handed(row, t)
            PROVE  /\ \A g \in Futures \ {f} : exec'[g] = exec[g]
                   /\ exec'[f].job = j /\ exec'[f].pc # "free"
                   /\ exec'[f].priority = exec[f].priority
                   /\ exec'[f].delay = t
        BY <2>3, <4>3 DEF ExecRecord
      <4>4. time \in {exec[f].delay, jobs[j].retry, "later"}
        BY DEF RescheduleTime
      <4> HIDE DEF Handed, time
      <4> QED BY <4>1, <4>2, <4>3, <4>4
    <3> QED BY <1>2, <3>1, <3>2, <3>3, <3>4, <3>5 DEF ExecStep
  <2> QED BY <2>1, <2>2, <2>4
<1> QED BY <1>1, <1>2

\* The same for the checker, which submits an execution or drops a pending one.
LEMMA CheckerMoves ==
    ASSUME TypeInv, CheckerStep
    PROVE  /\ UNCHANGED <<used, main, req, ended>>
           /\ \/ UNCHANGED <<exec, fjm>>
              \/ \E f \in Futures :
                   /\ exec[f].pc = "pending" /\ Untrack(f) /\ exec[f].job \in Jobs
                   /\ chk.pc # "select"
                   /\ UNCHANGED <<jobs, txn>>
              \/ \E f \in Futures :
                   /\ chk.pc = "select" /\ chk.job \in Jobs
                   /\ exec[f].pc = "free"
                   /\ exec'[f].pc = "pending" /\ exec'[f].job = chk.job
                   /\ exec'[f].priority = txn[Checker].loaded.priority
                   /\ exec'[f].delay = "none"
                   /\ \A g \in Futures \ {f} : exec'[g] = exec[g]
                   /\ fjm' = [fjm EXCEPT ![chk.job] = f]
<1> USE DEF TypeInv
<1>1. CASE CheckerStart
  <2>1. chk.job \in Jobs /\ chk.pc = "select" /\ UNCHANGED <<used, main, req, ended>>
    BY <1>1 DEF CheckerStart, CheckerShape, TypeOK, Txn, Actors
  <2>2. CASE UNCHANGED <<exec, fjm>>
    BY <2>1, <2>2
  <2>3. CASE ~UNCHANGED <<exec, fjm>>
    <3> DEFINE e == [FreeExec EXCEPT !.pc = "pending", !.job = chk.job,
                                     !.priority = txn[Checker].loaded.priority]
    <3>1. /\ e.pc = "pending" /\ e.job = chk.job
          /\ e.priority = txn[Checker].loaded.priority /\ e.delay = "none"
      BY DEF FreeExec
    <3>2. PICK f \in Futures : /\ exec[f].pc = "free"
                               /\ exec' = [exec EXCEPT ![f] = e]
                               /\ fjm' = [fjm EXCEPT ![chk.job] = f]
      BY <1>1, <2>3 DEF CheckerStart
    <3> HIDE DEF e
    <3>3. exec'[f] = e /\ \A g \in Futures \ {f} : exec'[g] = exec[g]
      BY <3>2 DEF TypeOK
    <3> QED BY <2>1, <3>1, <3>2, <3>3
  <2> QED BY <2>2, <2>3
<1>2. ASSUME NEW j \in Jobs, CheckerCancel(j)
      PROVE  /\ UNCHANGED <<used, main, req, ended>>
             /\ \/ UNCHANGED <<exec, fjm>>
                \/ \E f \in Futures :
                     /\ exec[f].pc = "pending" /\ Untrack(f) /\ exec[f].job \in Jobs
                     /\ chk.pc # "select"
                     /\ UNCHANGED <<jobs, txn>>
  <2>1. /\ UNCHANGED <<used, main, req, ended, jobs, txn>> /\ chk.pc = "cancel"
        /\ UNCHANGED <<exec, fjm>> \/ (Droppable(j) /\ Untrack(fjm[j]))
    BY <1>2 DEF CheckerCancel
  <2>2. Droppable(j) => /\ fjm[j] \in Futures /\ exec[fjm[j]].pc = "pending"
                        /\ exec[fjm[j]].job \in Jobs
    BY DEF Droppable, TypeOK, ExecShape
  <2> QED BY <2>1, <2>2
<1>3. CASE CheckerLoad \/ CheckerNone \/ CheckerScan \/ CheckerMark \/ CheckerLoopEnds \/ CheckerWakes
  BY <1>3 DEF CheckerLoad, CheckerNone, CheckerScan, CheckerMark, CheckerLoopEnds, CheckerWakes
<1> QED BY <1>1, <1>2, <1>3 DEF CheckerStep

\* The main thread too can drop a pending execution, and a crash loses them all.
LEMMA MainMoves ==
    ASSUME TypeInv, MainStep
    PROVE  /\ UNCHANGED <<used, req>>
           /\ \/ UNCHANGED <<exec, fjm>>
              \/ \E f \in Futures :
                   /\ exec[f].pc = "pending" /\ Untrack(f) /\ exec[f].job \in Jobs
                   /\ UNCHANGED <<jobs, txn>>
<1> USE DEF TypeInv
<1>1. CASE MainDrop
  <2>1. /\ main.job \in Jobs /\ UNCHANGED <<used, req, jobs, txn>>
        /\ UNCHANGED <<exec, fjm>> \/ (Droppable(main.job) /\ Untrack(fjm[main.job]))
    BY <1>1 DEF MainDrop, MainShape
  <2>2. Droppable(main.job) => /\ fjm[main.job] \in Futures /\ exec[fjm[main.job]].pc = "pending"
                               /\ exec[fjm[main.job]].job \in Jobs
    BY <2>1 DEF Droppable, TypeOK, ExecShape
  <2> QED BY <2>1, <2>2
<1>2. CASE ~MainDrop
  BY <1>2 DEF MainStep, Start, MainNext, MainUp, MainJoined, MainMark, MainDown
<1> QED BY <1>1, <1>2

-----------------------------------------------------------------------------
(* BusyMeansBusy.                                                          *)

\* Every step keeps BusyMeansBusy.
LEMMA BusyStep == TypeInv /\ BusyMeansBusy /\ [Next]_vars => BusyMeansBusy'
<1> SUFFICES ASSUME TypeInv, BusyMeansBusy, [Next]_vars PROVE BusyMeansBusy'
  OBVIOUS
<1>1. TypeOK /\ fjm \in [Jobs -> Futures \cup {NoFuture}]
  BY DEF TypeInv, TypeOK
<1>2. CASE UNCHANGED <<exec, fjm>>
  BY <1>2 DEF BusyMeansBusy
<1>3. ASSUME NEW f \in Futures, exec[f].job \in Jobs, Untrack(f) PROVE BusyMeansBusy'
  BY <1>1, <1>3, UntrackType DEF BusyMeansBusy
<1>4. CASE CheckerStep
  <2>1. ASSUME NEW f \in Futures, chk.job \in Jobs, exec[f].pc = "free",
               exec'[f].pc = "pending", exec'[f].job = chk.job,
               \A g \in Futures \ {f} : exec'[g] = exec[g],
               fjm' = [fjm EXCEPT ![chk.job] = f]
        PROVE  BusyMeansBusy'
    BY <1>1, <2>1 DEF BusyMeansBusy
  <2> QED BY <1>2, <1>3, <1>4, <2>1, CheckerMoves
<1>5. ASSUME NEW f \in Futures, ExecStep(f) PROVE BusyMeansBusy'
  <2>1. CASE exec[f].pc = "over"
    BY <1>3, <1>5, <2>1, ExecMoves
  <2>2. CASE exec[f].pc # "over"
    <3>1. fjm' = fjm /\ \A g \in Futures : exec[g].pc # "free" =>
                          exec'[g].pc # "free" /\ exec'[g].job = exec[g].job
      BY <1>5, <2>2, ExecMoves
    <3> QED BY <1>1, <3>1 DEF BusyMeansBusy
  <2> QED BY <2>1, <2>2
<1>6. ASSUME NEW r \in Requests, RequestBegins(r) \/ RequestStep(r) PROVE BusyMeansBusy'
  <2>1. UNCHANGED <<exec, fjm>>
    BY <1>6 DEF RequestBegins, RequestStep, RequestEnqueue, RequestUpdate, RequestView,
                RequestClearAll, RequestCancel, RequestDelete, RequestRestart,
                RequestClearFirst, RequestSchedule, RequestLoad, RequestCommit
  <2> QED BY <1>2, <2>1
<1>7. CASE MainStep
  BY <1>2, <1>3, <1>7, MainMoves
<1>8. CASE Crash
  BY <1>8 DEF Crash, BusyMeansBusy
<1>9. CASE Stop \/ (\E j \in Jobs : TimePasses(j)) \/ UNCHANGED vars
  <2>1. UNCHANGED <<exec, fjm>>
    BY <1>9 DEF Stop, TimePasses, vars
  <2> QED BY <1>2, <2>1
<1> QED BY <1>4, <1>5, <1>6, <1>7, <1>8, <1>9 DEF Next

\* A worker that future_job_mapping counts as busy is busy: no future that is
\* done stays in the mapping, whatever is canceled, rescheduled or dropped.
THEOREM BusyCorrect == Spec => []BusyMeansBusy
<1>1. Init => BusyMeansBusy
  BY DEF Init, BusyMeansBusy
<1> QED BY <1>1, BusyStep, TypesHold, PTL DEF Spec

-----------------------------------------------------------------------------
(* What each thread does with the table: nothing, it opens a transaction,  *)
(* or it commits the one that it has open.                                 *)

Quiet == UNCHANGED <<jobs, txn>>
Opens(a) == /\ txn[a] = NoTxn /\ txn'[a] # NoTxn /\ jobs' = jobs
            /\ \A b \in Actors \ {a} : txn'[b] = txn[b]
            /\ txn'[a].job \in Jobs /\ txn'[a].loaded = jobs[txn'[a].job]
Commits(a) == txn[a] # NoTxn /\ Commit(a)

\* What a step of the job checker does to the rows, by the transaction it opens or commits.
LEMMA CheckerTable ==
    ASSUME TypeInv, CheckerStep
    PROVE  \/ Quiet
           \/ /\ Opens(Checker) /\ chk'.pc = "select" /\ UNCHANGED exec
              /\ txn'[Checker].new.state = "SELECTED"
              /\ txn'[Checker].new = Selected(txn'[Checker].loaded)
              /\ txn'[Checker].loaded.state = "QUEUED" /\ txn'[Checker].job = chk'.job
              /\ txn'[Checker].time = "keep"
           \/ /\ Opens(Checker) /\ chk.pc = "mark" /\ chk' = chk /\ UNCHANGED exec
              /\ txn'[Checker].new.state = "CANCELED" /\ txn'[Checker].time = "keep"
              /\ txn'[Checker].new = Marked(txn'[Checker].loaded, "CANCELED")
              /\ txn'[Checker].loaded # NoRow
           \/ Commits(Checker)
<1> USE DEF TypeInv
<1>1. CASE CheckerLoad
  <2>1. PICK j \in Jobs : /\ Load(Checker, j, Selected(jobs[j]), FALSE, "keep")
                          /\ Exists(j) /\ jobs[j].state = "QUEUED"
                          /\ chk' = [chk EXCEPT !.pc = "select", !.job = j]
    BY <1>1 DEF CheckerLoad, NextQueued, Due
  <2> DEFINE row == Selected(jobs[j])
             t == [job |-> j, loaded |-> jobs[j], new |-> row, json |-> FALSE, time |-> "keep"]
  <2>2. jobs[j] \in Row /\ row \in Row /\ row.state = "SELECTED"
    BY <2>1, RowOperations DEF TypeOK, Exists, Selected, Row
  <2>3. txn' = [txn EXCEPT ![Checker] = t] /\ Checker \in Actors
    BY <2>1 DEF Load, Actors
  <2>4. t \in Txn
    BY <2>2 DEF Txn, Times
  <2>5. t.job = j /\ t.loaded = jobs[j] /\ t.new = row /\ t.time = "keep"
        /\ t.new = Selected(t.loaded)
    OBVIOUS
  <2> HIDE DEF t, row
  <2>6. /\ txn[Checker] = NoTxn /\ chk'.pc = "select" /\ chk'.job = j
        /\ UNCHANGED <<exec, jobs>>
    BY <1>1, <2>1 DEF CheckerLoad, CheckerShape, TypeOK
  <2>7. /\ \A b \in Actors \ {Checker} : txn'[b] = txn[b]
        /\ txn'[Checker] = t /\ t # NoTxn
    BY <2>3, <2>4, LoadType
  <2> QED BY <2>1, <2>2, <2>5, <2>6, <2>7 DEF Opens
<1>2. CASE CheckerMark
  <2>1. CASE txn[Checker] = NoTxn /\ LoadMark(Checker, chk.job, "CANCELED")
             /\ UNCHANGED <<jobs, agenda, chk>>
    <3>1. chk.pc = "mark" /\ chk.job \in Jobs /\ UNCHANGED exec
      BY <1>2 DEF CheckerMark, CheckerShape
    <3> QED BY <2>1, <3>1, LoadMarkType DEF Opens, Actors, States, FinishedStates
  <2>2. CASE UNCHANGED <<jobs, txn>> \/ (txn[Checker] # NoTxn /\ Commit(Checker))
    BY <2>2 DEF Quiet, Commits
  <2> QED BY <1>2, <2>1, <2>2 DEF CheckerMark
<1>3. CASE CheckerStart
  BY <1>3 DEF CheckerStart, CheckerShape, Commits
<1>4. CASE CheckerNone \/ CheckerScan \/ CheckerLoopEnds \/ CheckerWakes \/ \E j \in Jobs : CheckerCancel(j)
  BY <1>4 DEF CheckerNone, CheckerScan, CheckerLoopEnds, CheckerWakes, CheckerCancel, Quiet
<1> QED BY <1>1, <1>2, <1>3, <1>4 DEF CheckerStep

\* What a step of an execution does to the rows, by the transaction it opens or commits.
LEMMA ExecTable ==
    ASSUME TypeInv, NEW f \in Futures, ExecStep(f)
    PROVE  \/ Quiet /\ txn[f] = NoTxn
           \/ /\ Opens(f) /\ UNCHANGED exec /\ txn'[f].job = exec[f].job
              /\ txn'[f].time = IF exec[f].pc # "merge" THEN "keep"
                                ELSE IF exec[f].delay = "now" THEN "now" ELSE "later"
              /\ \/ exec[f].pc = "markRunning" /\ txn'[f].new.state = "RUNNING"
                    /\ txn'[f].loaded # NoRow /\ txn'[f].new = Marked(txn'[f].loaded, "RUNNING")
                 \/ /\ exec[f].pc \in {"progress", "saveCancellable"}
                    /\ txn'[f].loaded # NoRow
                    /\ txn'[f].new.state = txn'[f].loaded.state
                    /\ txn'[f].new.retry = txn'[f].loaded.retry
                 \/ exec[f].pc = "finish" /\ txn'[f].new.state \in FinishedStates
                    /\ txn'[f].loaded # NoRow
                    /\ txn'[f].new = Marked(txn'[f].loaded, exec[f].outcome)
                 \/ exec[f].pc = "merge" /\ txn'[f].new = exec[f].next
           \/ Commits(f) /\ exec' = [exec EXCEPT ![f].pc = After[@]]
<1> USE DEF TypeInv
<1>1. CASE ExecLoad(f)
  <2> DEFINE j == exec[f].job
  <2>1. UNCHANGED <<jobs, exec>> /\ txn[f] = NoTxn /\ j \in Jobs /\ f \in Actors
    BY <1>1 DEF ExecLoad, ExecShape, Actors
  <2>2. ASSUME NEW row \in Row, NEW json \in BOOLEAN, NEW time \in Times,
               Load(f, j, row, json, time)
        PROVE  /\ Opens(f) /\ txn'[f].job = j /\ txn'[f].new = row
               /\ txn'[f].loaded = jobs[j] /\ txn'[f].time = time
    <3> DEFINE t == [job |-> j, loaded |-> jobs[j], new |-> row, json |-> json, time |-> time]
    <3>1. txn' = [txn EXCEPT ![f] = t]
      BY <2>2 DEF Load
    <3>2. t \in Txn
      BY <2>1, <2>2 DEF Txn, TypeOK
    <3>3. t.job = j /\ t.loaded = jobs[j] /\ t.new = row /\ t.time = time
      OBVIOUS
    <3> HIDE DEF t
    <3> QED BY <2>1, <3>1, <3>2, <3>3, LoadType DEF Opens
  <2>3. CASE exec[f].pc = "markRunning" /\ LoadMark(f, j, "RUNNING")
    BY <2>1, <2>3, LoadMarkType DEF Opens, States
  <2>4. CASE exec[f].pc = "finish" /\ LoadMark(f, j, exec[f].outcome)
    <3>1. exec[f].outcome \in FinishedStates /\ exec[f].outcome \in States
      BY DEF TypeOK, ExecRecord, States
    <3> QED BY <2>1, <2>4, <3>1, LoadMarkType DEF Opens
  <2>5. CASE exec[f].pc = "progress" /\ Exists(j) /\ Load(f, j, jobs[j], TRUE, "keep")
    <3>1. jobs[j] \in Row /\ jobs[j] # NoRow /\ "keep" \in Times /\ TRUE \in BOOLEAN
      BY <2>1, <2>5 DEF TypeOK, Exists, Times
    <3>2. /\ Opens(f) /\ txn'[f].job = j /\ txn'[f].new = jobs[j]
          /\ txn'[f].loaded = jobs[j] /\ txn'[f].time = "keep"
      BY <2>2, <2>5, <3>1, Zenon
    <3> QED BY <2>1, <2>5, <3>1, <3>2
  <2>6. CASE exec[f].pc = "saveCancellable" /\ Exists(j)
             /\ Load(f, j, WithCancellable(jobs[j], exec[f].cancellable), FALSE, "keep")
    <3> DEFINE row == WithCancellable(jobs[j], exec[f].cancellable)
    <3>1. jobs[j] \in Row /\ jobs[j] # NoRow /\ "keep" \in Times /\ FALSE \in BOOLEAN
          /\ exec[f].cancellable \in BOOLEAN
      BY <2>1, <2>6 DEF TypeOK, Exists, Times, ExecRecord
    <3>2. row \in Row
      BY <3>1, RowOperations, Zenon
    <3>3. row.state = jobs[j].state /\ row.retry = jobs[j].retry
      BY <3>1 DEF WithCancellable, Row
    <3>4. /\ Opens(f) /\ txn'[f].job = j /\ txn'[f].new = row
          /\ txn'[f].loaded = jobs[j] /\ txn'[f].time = "keep"
      BY <2>2, <2>6, <3>1, <3>2, Zenon
    <3> HIDE DEF row
    <3> QED BY <2>1, <2>6, <3>1, <3>3, <3>4
  <2>7. CASE exec[f].pc = "merge"
             /\ LoadMerge(f, j, exec[f].next, IF exec[f].delay = "now" THEN "now" ELSE "later")
    <3> DEFINE time == IF exec[f].delay = "now" THEN "now" ELSE "later"
    <3>1. Load(f, j, exec[f].next, FALSE, time)
      BY <2>7 DEF LoadMerge
    <3>2. exec[f].next \in Row /\ time \in Times /\ FALSE \in BOOLEAN
      BY <2>7 DEF ExecShape, Times
    <3>3. Opens(f) /\ txn'[f].job = j /\ txn'[f].new = exec[f].next /\ txn'[f].time = time
      BY <2>2, <3>1, <3>2, Zenon
    <3> QED BY <2>1, <2>7, <3>3
  <2> QED BY <1>1, <2>3, <2>4, <2>5, <2>6, <2>7 DEF ExecLoad
<1>2. CASE ExecCommit(f)
  BY <1>2 DEF ExecCommit, Commits
<1>3. CASE ~ExecLoad(f) /\ ~ExecCommit(f)
  BY <1>3 DEF ExecStep, ExecTake, ExecGetJob, ExecSkipUpdate, ExecCheck, FuncPolls, FuncActs,
              FuncReturns, ExecReschedule, ExecSchedule, ExecCallback, Quiet, ExecShape, UpdatePcs
<1> QED BY <1>1, <1>2, <1>3

\* What a step of a request does to the rows, by the transaction it opens or commits.
LEMMA RequestTable ==
    ASSUME TypeInv, NEW r \in Requests, RequestBegins(r) \/ RequestStep(r)
    PROVE  /\ UNCHANGED <<exec, fjm, chk, main>>
           /\ \A p \in Requests \ {r} : req'[p] = req[p]
           /\ \/ Quiet /\ txn[r] = NoTxn
              \/ /\ UNCHANGED txn /\ txn[r] = NoTxn
                 /\ \A j \in Jobs : jobs'[j] = jobs[j] \/ jobs'[j] = NoRow
              \/ /\ Opens(r) /\ UNCHANGED req /\ txn'[r].job = req[r].job
                 /\ \/ req[r].pc = "merge" /\ txn'[r].new = req[r].next
                    \/ req[r].pc = "mark" /\ txn'[r].new.state = "CANCELING"
                       /\ txn'[r].time = "keep" /\ txn'[r].loaded # NoRow
                       /\ txn'[r].new = Marked(txn'[r].loaded, "CANCELING")
              \/ Commits(r) /\ Goes(r, "done")
<1> USE DEF TypeInv
<1>1. UNCHANGED <<exec, fjm, chk, main>> /\ \A p \in Requests \ {r} : req'[p] = req[p]
  BY DEF RequestBegins, RequestStep, RequestEnqueue, RequestUpdate, RequestView, RequestClearAll,
         RequestCancel, RequestDelete, RequestRestart, RequestClearFirst, RequestSchedule,
         RequestLoad, RequestCommit, Goes, TypeOK
<1>2. CASE RequestClearAll(r) \/ RequestDelete(r) \/ RequestClearFirst(r)
  <2>1. UNCHANGED txn /\ txn[r] = NoTxn
        /\ \E js \in SUBSET Jobs, force \in BOOLEAN : Delete(js, force)
    BY <1>2 DEF RequestClearAll, RequestDelete, RequestClearFirst, RequestShape
  <2>2. TypeOK
    OBVIOUS
  <2>3. \A j \in Jobs : jobs'[j] = jobs[j] \/ jobs'[j] = NoRow
    BY <2>1, <2>2, DeleteType, Zenon
  <2> QED BY <1>1, <2>1, <2>3
<1>3. CASE RequestLoad(r)
  <2> DEFINE j == req[r].job
  <2>1. UNCHANGED jobs /\ txn[r] = NoTxn /\ j \in Jobs /\ r \in Actors
    BY <1>3 DEF RequestLoad, RequestShape, Actors
  <2>2. CASE req[r].pc = "merge" /\ LoadMerge(r, j, req[r].next, req[r].time) /\ UNCHANGED req
    <3> DEFINE u == [job |-> j, loaded |-> jobs[j], new |-> req[r].next,
                     json |-> FALSE, time |-> req[r].time]
    <3>1. txn' = [txn EXCEPT ![r] = u]
      BY <2>2 DEF LoadMerge, Load
    <3>2. u \in Txn
      BY <2>1, <2>2 DEF Txn, TypeOK, RequestShape
    <3>3. u.job = j /\ u.new = req[r].next /\ u.loaded = jobs[j]
      OBVIOUS
    <3> HIDE DEF u
    <3> QED BY <1>1, <2>1, <2>2, <3>1, <3>2, <3>3, LoadType DEF Opens
  <2>3. CASE req[r].pc = "mark" /\ LoadMark(r, j, "CANCELING") /\ UNCHANGED req
    BY <1>1, <2>1, <2>3, LoadMarkType DEF Opens, States
  <2>4. CASE UNCHANGED txn
    BY <1>1, <2>1, <2>4 DEF Quiet
  <2> QED BY <1>3, <2>2, <2>3, <2>4 DEF RequestLoad
<1>4. CASE RequestCommit(r)
  BY <1>1, <1>4 DEF RequestCommit, Commits
<1>5. CASE \/ RequestCancel(r) \/ RequestRestart(r) \/ RequestSchedule(r)
           \/ \E j \in Jobs, k \in Kinds : RequestEnqueue(r, j, k) \/ RequestUpdate(r, j, k)
           \/ \E j \in Jobs, op \in ViewOps : RequestView(r, j, op)
  <2>1. Quiet
    BY <1>5 DEF RequestCancel, RequestRestart, RequestSchedule, RequestEnqueue, RequestUpdate,
                RequestView, Quiet
  <2>2. req[r].pc \in {"cancel", "restart", "schedule", "new"}
    BY <1>5 DEF RequestCancel, RequestRestart, RequestSchedule, RequestEnqueue, RequestUpdate,
                RequestView
  <2> QED BY <1>1, <2>1, <2>2 DEF RequestShape
<1> QED BY <1>2, <1>3, <1>4, <1>5 DEF RequestBegins, RequestStep

\* What the start and the stop of the worker do to the rows.
LEMMA MainTable ==
    ASSUME TypeInv, MainStep
    PROVE  \/ Quiet /\ txn[Main] = NoTxn
           \/ /\ Opens(Main) /\ main' = main /\ txn'[Main].job = main.job
              /\ UNCHANGED <<exec, chk>>
              /\ main.pc \in MarkPcs /\ txn'[Main].new.state = MarkOf[main.pc]
              /\ txn'[Main].new = Marked(txn'[Main].loaded, MarkOf[main.pc])
              /\ txn'[Main].loaded # NoRow /\ txn'[Main].time = "keep"
           \/ /\ Commits(Main) /\ main.pc \in MarkPcs /\ UNCHANGED <<exec, chk>>
              /\ main' = [main EXCEPT !.pc = Follows[@]]
<1> USE DEF TypeInv
<1>1. CASE MainMark
  <2>1. main.pc \in MarkPcs /\ main.job \in Jobs /\ UNCHANGED <<exec, chk>> /\ Main \in Actors
        /\ MarkOf[main.pc] \in States
    BY <1>1 DEF MainMark, MarkOf, MarkPcs, MainShape, Actors, States, FinishedStates
  <2>2. CASE txn[Main] = NoTxn /\ LoadMark(Main, main.job, MarkOf[main.pc])
             /\ UNCHANGED <<jobs, agenda, main>>
    BY <2>1, <2>2, LoadMarkType DEF Opens
  <2>3. CASE UNCHANGED <<jobs, txn>> /\ txn[Main] = NoTxn
    BY <2>3 DEF Quiet
  <2>4. CASE txn[Main] # NoTxn /\ Commit(Main) /\ main' = [main EXCEPT !.pc = Follows[@]]
    BY <2>1, <2>4 DEF Commits
  <2> QED BY <1>1, <2>2, <2>3, <2>4 DEF MainMark
<1>2. CASE ~MainMark
  BY <1>2 DEF MainStep, Start, MainNext, MainUp, MainJoined, MainDrop, MainDown, Quiet, MainShape, MarkPcs
<1> QED BY <1>1, <1>2

-----------------------------------------------------------------------------
(* Who writes what.                                                        *)

\* Only queued rows are handed to schedule().
LEMMA ExecSchedulesQueued ==
    ASSUME TypeInv, WritersInv, NEW f \in Futures, ExecStep(f),
           exec'[f].pc \in {"schedule", "merge"}
    PROVE  exec'[f].next.state = "QUEUED"
<1> USE DEF TypeInv
<1>1. exec \in [Futures -> ExecRecord]
  BY DEF TypeOK
<1>2. CASE ExecLoad(f) \/ ExecSchedule(f)
  <2>1. exec[f].pc \in {"schedule", "merge"} => exec[f].next.state = "QUEUED"
    BY DEF WritersInv
  <2>2. CASE ExecLoad(f)
    BY <2>1, <2>2 DEF ExecLoad
  <2>3. CASE ExecSchedule(f)
    BY <1>1, <2>1, <2>3 DEF ExecSchedule, ExecRecord
  <2> QED BY <1>2, <2>2, <2>3
<1>3. CASE ExecReschedule(f)
  <2> DEFINE j == exec[f].job
             new == Rescheduled(jobs[j], exec[f].delay, IF exec[f].lower THEN LOW ELSE jobs[j].priority)
             goesOn == Exists(j) /\ Finished(jobs[j]) /\ MustReschedule(jobs[j], exec[f].delay)
             time == RescheduleTime(jobs[j], exec[f].delay)
  <2>1. new.state = "QUEUED"
    BY DEF Rescheduled, Scheduled
  <2>2. exec' = [exec EXCEPT ![f] =
          IF goesOn THEN [@ EXCEPT !.pc = "schedule", !.delay = time, !.next = new]
                    ELSE [@ EXCEPT !.pc = "over"]]
    BY <1>3 DEF ExecReschedule
  <2> HIDE DEF new, goesOn, time
  <2> QED BY <1>1, <2>1, <2>2 DEF ExecRecord
<1>4. CASE ExecCommit(f) \/ ExecSkipUpdate(f)
  <2>1. exec[f].pc \in UpdatePcs /\ exec' = [exec EXCEPT ![f].pc = After[@]]
    BY <1>4 DEF ExecCommit, ExecSkipUpdate, ExecShape, UpdatePcs
  <2> QED BY <1>1, <2>1 DEF After, UpdatePcs, ExecRecord
<1>5. CASE \/ ExecTake(f) \/ ExecGetJob(f) \/ ExecCheck(f) \/ FuncPolls(f) \/ FuncActs(f)
           \/ FuncReturns(f)
  <2>1. exec[f] \in ExecRecord
    BY <1>1
  <2>2. CASE ExecTake(f) \/ ExecGetJob(f)
    <3>1. CASE ExecTake(f)
      BY <1>1, <3>1 DEF ExecTake
    <3>2. CASE ExecGetJob(f)
      <4> DEFINE c == jobs[exec[f].job].saved.cancellable
      <4>1. \/ exec' = [exec EXCEPT ![f] = [@ EXCEPT !.pc = "markRunning", !.cancellable = c]]
            \/ exec' = [exec EXCEPT ![f] = [@ EXCEPT !.pc = "over"]]
        BY <3>2 DEF ExecGetJob
      <4> HIDE DEF c
      <4>2. CASE exec' = [exec EXCEPT ![f] = [@ EXCEPT !.pc = "over"]]
        BY <1>1, <2>1, <4>2 DEF ExecRecord
      <4>3. CASE exec' = [exec EXCEPT ![f] = [@ EXCEPT !.pc = "markRunning", !.cancellable = c]]
        BY <1>1, <2>1, <4>3 DEF ExecRecord
      <4> QED BY <4>1, <4>2, <4>3
    <3> QED BY <2>2, <3>1, <3>2
  <2>3. CASE ExecCheck(f) \/ FuncPolls(f) \/ FuncReturns(f)
    <3>1. (\E s \in FinishedStates : Ends(f, s)) \/ exec' = [exec EXCEPT ![f].pc = "func"]
      BY <2>3 DEF ExecCheck, FuncPolls, FuncReturns, FinishedStates
    <3> QED BY <1>1, <2>1, <3>1 DEF Ends, ExecRecord
  <2>4. CASE FuncActs(f)
    BY <1>1, <2>1, <2>4 DEF FuncActs, ExecRecord
  <2> QED BY <1>5, <2>2, <2>3, <2>4
<1>6. CASE ExecCallback(f)
  BY <1>1, <1>6, FreeExecType DEF ExecCallback, Untrack
<1> QED BY <1>2, <1>3, <1>4, <1>5, <1>6 DEF ExecStep

\* The row that a request schedules is QUEUED.
LEMMA RequestSchedulesQueued ==
    ASSUME TypeInv, WritersInv, NEW r \in Requests, RequestBegins(r) \/ RequestStep(r),
           req'[r].pc \in {"clearFirst", "schedule", "merge"}
    PROVE  req'[r].next.state = "QUEUED"
<1> USE DEF TypeInv
<1>1. req \in [Requests -> RequestRecord]
  BY DEF TypeOK, RequestRecord
<1>2. \A c, p, n, y : Scheduled(c, p, n, y).state = "QUEUED"
  BY DEF Scheduled
<1>3. ASSUME NEW j \in Jobs, NEW k \in Kinds, RequestEnqueue(r, j, k) \/ RequestUpdate(r, j, k)
      PROVE  req'[r].next.state = "QUEUED"
  <2>1. \E row, time : row.state = "QUEUED" /\
          req' = [req EXCEPT ![r] = [pc |-> "schedule", job |-> j, time |-> time, next |-> row]]
    BY <1>2, <1>3 DEF RequestEnqueue, RequestUpdate
  <2> QED BY <1>1, <2>1
<1>4. CASE RequestRestart(r)
  <2> DEFINE j == req[r].job
             row == Scheduled(jobs[j].saved.cancellable, jobs[j].priority, 0, "none")
  <2>1. row.state = "QUEUED"
    BY DEF Scheduled
  <2>2. \/ Goes(r, "done")
        \/ req' = [req EXCEPT ![r] = [pc |-> "clearFirst", job |-> j, time |-> "now", next |-> row]]
    BY <1>4 DEF RequestRestart, Goes
  <2> HIDE DEF row
  <2> QED BY <1>1, <2>1, <2>2 DEF Goes, RequestRecord
<1>5. CASE RequestClearFirst(r) \/ RequestSchedule(r)
  <2>1. req[r].pc \in {"clearFirst", "schedule"} /\ \E pc : Goes(r, pc)
    BY <1>5 DEF RequestClearFirst, RequestSchedule
  <2>2. req[r].next.state = "QUEUED"
    BY <2>1 DEF WritersInv
  <2> QED BY <1>1, <2>1, <2>2 DEF Goes, RequestRecord
<1>6. CASE RequestLoad(r)
  <2>1. req' = req \/ Goes(r, "done")
    BY <1>6 DEF RequestLoad
  <2> QED BY <1>1, <2>1 DEF Goes, RequestRecord, WritersInv
<1>7. CASE RequestCancel(r) \/ RequestDelete(r) \/ RequestCommit(r) \/ RequestClearAll(r)
  BY <1>1, <1>7 DEF RequestCancel, RequestDelete, RequestCommit, RequestClearAll, Goes, RequestRecord
<1>8. ASSUME NEW j \in Jobs, NEW op \in ViewOps, RequestView(r, j, op) PROVE FALSE
  <2>1. req'[r].pc \in ViewOps
    BY <1>1, <1>8 DEF RequestView, NewRequest, ViewOps
  <2> QED BY <2>1 DEF ViewOps
<1> QED BY <1>3, <1>4, <1>5, <1>6, <1>7, <1>8 DEF RequestBegins, RequestStep

\* Every step keeps WritersInv.
LEMMA WritersStep == TypeInv /\ WritersInv /\ [Next]_vars => WritersInv'
<1> SUFFICES ASSUME TypeInv, WritersInv, [Next]_vars PROVE WritersInv'
  OBVIOUS
<1>1. TypeOK /\ Checker \in Actors /\ Main \in Actors /\ Futures \subseteq Actors /\ Requests \subseteq Actors
  BY DEF TypeInv, Actors
<1>2. \A a \in Actors : Commits(a) => txn'[a] = NoTxn /\ \A b \in Actors \ {a} : txn'[b] = txn[b]
  BY <1>1, CommitType DEF Commits
<1>3. CASE UNCHANGED <<txn, exec, req, main>>
  BY <1>3 DEF WritersInv, Writes
<1>4. CASE CheckerStep
  <2>1. UNCHANGED <<req, main>>
    BY <1>4, CheckerMoves
  <2>2. /\ \A b \in Actors \ {Checker} : txn'[b] = txn[b]
        /\ \/ txn'[Checker] = txn[Checker] \/ txn'[Checker] = NoTxn
           \/ txn'[Checker].new.state \in {"SELECTED", "CANCELED"}
    BY <1>1, <1>2, <1>4, CheckerTable DEF Quiet, Opens
  <2>3. \A f \in Futures : \/ exec'[f] = exec[f]
                           \/ txn[f] = NoTxn /\ exec'[f].pc \in {"free", "pending"}
    <3>1. \A f \in Futures : exec[f].pc \in {"free", "pending"} => txn[f] = NoTxn
      BY DEF TypeInv, ExecShape, UpdatePcs
    <3>2. \A f \in Futures : exec[f].job \in Jobs /\ Untrack(f) =>
            exec'[f].pc = "free" /\ \A g \in Futures \ {f} : exec'[g] = exec[g]
      BY <1>1, UntrackType
    <3> QED BY <1>4, <3>1, <3>2, CheckerMoves
  <2> QED BY <2>1, <2>2, <2>3, DistinctValues DEF WritersInv, Writes, Actors
<1>5. ASSUME NEW f \in Futures, ExecStep(f) PROVE WritersInv'
  <2>1. UNCHANGED <<req, main>> /\ \A g \in Futures \ {f} : exec'[g] = exec[g]
    BY <1>5, ExecMoves
  <2>2. \A b \in Actors \ {f} : txn'[b] = txn[b]
    BY <1>1, <1>2, <1>5, ExecTable DEF Quiet, Opens
  <2>3. exec'[f].pc \in {"schedule", "merge"} => exec'[f].next.state = "QUEUED"
    BY <1>5, ExecSchedulesQueued
  <2>4. /\ Writes(f, "QUEUED")' => exec'[f].pc = "merge"
        /\ Writes(f, "RUNNING")' => exec'[f].pc = "markRunning"
        /\ exec'[f].pc = "finish" /\ txn'[f] # NoTxn => txn'[f].new.state \in FinishedStates
    <3>1. CASE txn'[f] = NoTxn
      BY <3>1 DEF Writes
    <3>2. CASE txn'[f] # NoTxn
      <4>1. /\ UNCHANGED exec
            /\ \/ exec[f].pc = "markRunning" /\ txn'[f].new.state = "RUNNING"
               \/ /\ exec[f].pc \in {"progress", "saveCancellable"}
                  /\ txn'[f].loaded # NoRow
                  /\ txn'[f].new.state = txn'[f].loaded.state
               \/ exec[f].pc = "finish" /\ txn'[f].new.state \in FinishedStates
               \/ exec[f].pc = "merge" /\ txn'[f].new = exec[f].next
        BY <1>1, <1>2, <1>5, <3>2, ExecTable DEF Quiet
      <4> QED BY <2>3, <4>1 DEF Writes, FinishedStates
    <3> QED BY <3>1, <3>2
  <2> QED BY <2>1, <2>2, <2>3, <2>4, DistinctValues DEF WritersInv, Writes, Actors
<1>6. ASSUME NEW r \in Requests, RequestBegins(r) \/ RequestStep(r) PROVE WritersInv'
  <2>1. UNCHANGED <<exec, main>> /\ \A p \in Requests \ {r} : req'[p] = req[p]
    BY <1>6, RequestTable
  <2>2. \A b \in Actors \ {r} : txn'[b] = txn[b]
    BY <1>1, <1>2, <1>6, RequestTable DEF Quiet, Opens
  <2>3. req'[r].pc \in {"clearFirst", "schedule", "merge"} => req'[r].next.state = "QUEUED"
    BY <1>6, RequestSchedulesQueued
  <2>4. /\ Writes(r, "QUEUED")' => req'[r].pc = "merge"
        /\ ~Writes(r, "RUNNING")'
    <3>1. CASE txn'[r] = NoTxn
      BY <3>1 DEF Writes
    <3>2. CASE txn'[r] # NoTxn
      <4>1. /\ UNCHANGED req
            /\ \/ req[r].pc = "merge" /\ txn'[r].new = req[r].next
               \/ req[r].pc = "mark" /\ txn'[r].new.state = "CANCELING"
        BY <1>1, <1>2, <1>6, <3>2, RequestTable DEF Quiet
      <4> QED BY <2>3, <4>1 DEF Writes
    <3> QED BY <3>1, <3>2
  <2> QED BY <2>1, <2>2, <2>3, <2>4, DistinctValues DEF WritersInv, Writes, Actors
<1>7. CASE MainStep
  <2>1. UNCHANGED req
    BY <1>7, MainMoves
  <2>2. /\ \A b \in Actors \ {Main} : txn'[b] = txn[b]
        /\ \/ txn'[Main] = NoTxn
           \/ /\ main' = main /\ main.pc \in MarkPcs
              /\ txn'[Main].new.state = MarkOf[main.pc]
    BY <1>1, <1>2, <1>7, MainTable DEF Quiet, Opens
  <2>3. \A f \in Futures : \/ exec'[f] = exec[f]
                           \/ txn[f] = NoTxn /\ exec'[f].pc = "free"
    <3>1. \A f \in Futures : exec[f].pc = "pending" => txn[f] = NoTxn
      BY DEF TypeInv, ExecShape, UpdatePcs
    <3>2. \A f \in Futures : exec[f].job \in Jobs /\ Untrack(f) =>
            exec'[f].pc = "free" /\ \A g \in Futures \ {f} : exec'[g] = exec[g]
      BY <1>1, UntrackType
    <3> QED BY <1>7, <3>1, <3>2, MainMoves
  <2>4. /\ Writes(Main, "QUEUED")' => main'.pc = "markQueued"
        /\ ~Writes(Main, "RUNNING")'
    BY <2>2 DEF Writes, MarkOf, MarkPcs
  <2> QED BY <2>1, <2>2, <2>3, <2>4, DistinctValues DEF WritersInv, Writes, Actors
<1>8. CASE Crash
  <2>1. \A a \in Actors : txn'[a] = NoTxn
    BY <1>8 DEF Crash
  <2>2. \A f \in Futures : exec'[f].pc = "free"
    BY <1>8, FreeExecType DEF Crash
  <2>3. \A r \in Requests : req'[r].pc \in {"new", "done"}
    BY <1>8 DEF Crash, TypeInv, TypeOK
  <2> QED BY <1>1, <2>1, <2>2, <2>3 DEF WritersInv, Writes
<1>9. CASE Stop
  <2>1. txn[Main] = NoTxn
    BY <1>9 DEF Stop, TypeInv, MainShape, MarkPcs
  <2> QED BY <1>9, <2>1 DEF Stop, WritersInv, Writes
<1>10. CASE (\E j \in Jobs : TimePasses(j)) \/ UNCHANGED vars
  <2>1. UNCHANGED <<txn, exec, req, main>>
    BY <1>10 DEF TimePasses, vars
  <2> QED BY <1>3, <2>1
<1> QED BY <1>4, <1>5, <1>6, <1>7, <1>8, <1>9, <1>10 DEF Next

\* WritersInv holds at the start.
LEMMA WritersInit == Init => WritersInv
BY FreeExecType DEF Init, WritersInv, Writes, Actors, NewRequest

-----------------------------------------------------------------------------
(* RunningIsBacked.                                                        *)

\* A commit leaves the states as they were or writes what it loaded to write,
\* and what differs from the loaded row is written.
LEMMA CommitState ==
    ASSUME TypeInv, NEW a \in Actors, Commits(a)
    PROVE  LET t == txn[a] IN
           /\ \A j \in Jobs : Exists(j)' =>
                \/ Exists(j) /\ jobs'[j].state = jobs[j].state
                \/ j = t.job /\ Writes(a, jobs'[j].state)
           /\ t.loaded # NoRow /\ jobs'[t.job] # NoRow /\ t.loaded.state # t.new.state
                => jobs'[t.job].state = t.new.state
<1> DEFINE t == txn[a]
<1>1. /\ t \in Txn /\ t # NoTxn /\ t.job \in Jobs
      /\ jobs'[t.job] = Flush(jobs[t.job], t)
      /\ \A j \in Jobs \ {t.job} : jobs'[j] = jobs[j]
  BY CommitType DEF Commits, TypeInv, Txn
<1>2. jobs[t.job] \in Row \cup {NoRow}
  BY <1>1 DEF TypeInv, TypeOK
<1>3. jobs'[t.job] # NoRow =>
        \/ Exists(t.job) /\ jobs'[t.job].state = jobs[t.job].state
        \/ Writes(a, jobs'[t.job].state)
  BY <1>1, <1>2, FlushState DEF Writes, Exists
<1>4. t.loaded # NoRow /\ jobs'[t.job] # NoRow /\ t.loaded.state # t.new.state
        => jobs'[t.job].state = t.new.state
  <2> SUFFICES ASSUME t.loaded # NoRow, jobs'[t.job] # NoRow, t.loaded.state # t.new.state
               PROVE  jobs'[t.job].state = t.new.state
    OBVIOUS
  <2>1. jobs[t.job] # NoRow
    BY <1>1, <1>2, FlushType DEF Exists
  <2>2. jobs'[t.job] = WriteBack(jobs[t.job], t)
    BY <1>1, <2>1 DEF Flush, Applies
  <2> QED BY <2>2 DEF WriteBack
<1> QED BY <1>1, <1>3, <1>4 DEF Exists

\* Only an execution makes a job running, by the commit of its mark.
LEMMA RunningShrinks ==
    ASSUME TypeInv, WritersInv,
           \/ CheckerStep \/ MainStep \/ Crash \/ Stop \/ UNCHANGED vars
           \/ \E j \in Jobs : TimePasses(j)
           \/ \E r \in Requests : RequestBegins(r) \/ RequestStep(r)
    PROVE  RunningJobs' \subseteq RunningJobs
<1>1. UNCHANGED jobs => RunningJobs' \subseteq RunningJobs
  BY DEF RunningJobs, Exists
<1>2. ASSUME NEW a \in Actors, Commits(a), ~Writes(a, "RUNNING") PROVE RunningJobs' \subseteq RunningJobs
  BY <1>2, CommitState DEF RunningJobs
<1>3. CASE CheckerStep
  BY <1>1, <1>2, <1>3, CheckerTable DEF Quiet, Opens, Actors, WritersInv
<1>4. ASSUME NEW r \in Requests, RequestBegins(r) \/ RequestStep(r) PROVE RunningJobs' \subseteq RunningJobs
  <2>1. CASE \A j \in Jobs : jobs'[j] = jobs[j] \/ jobs'[j] = NoRow
    BY <2>1 DEF RunningJobs, Exists
  <2>2. CASE Commits(r)
    BY <1>2, <2>2 DEF WritersInv, Actors
  <2> QED BY <1>1, <1>4, <2>1, <2>2, RequestTable DEF Quiet, Opens
<1>5. CASE MainStep
  BY <1>1, <1>2, <1>5, MainTable DEF Quiet, Opens, Actors, WritersInv
<1>6. CASE Crash \/ Stop \/ (\E j \in Jobs : TimePasses(j)) \/ UNCHANGED vars
  <2>1. UNCHANGED jobs
    BY <1>6 DEF Crash, Stop, TimePasses, vars
  <2> QED BY <1>1, <2>1
<1> QED BY <1>3, <1>4, <1>5, <1>6

\* A row becomes RUNNING only by the commit of an execution of that job.
LEMMA RunningGrows ==
    ASSUME TypeInv, WritersInv, NEW f \in Futures, ExecStep(f),
           NEW j \in RunningJobs' \ RunningJobs
    PROVE  Commits(f) /\ exec[f].pc = "markRunning" /\ txn[f].job = j
<1>1. jobs' # jobs
  BY DEF RunningJobs, Exists
<1>2. Commits(f)
  BY <1>1, ExecTable DEF Quiet, Opens
<1>3. j = txn[f].job /\ Writes(f, "RUNNING")
  BY <1>2, CommitState DEF RunningJobs, Actors
<1> QED BY <1>2, <1>3 DEF WritersInv

\* The end of an execution takes its job out of RUNNING.
LEMMA AnswersHolds ==
    ASSUME TypeInv, WritersInv, NEW f \in Futures, ExecStep(f), Answers(f),
           exec[f].job \in RunningJobs \cap RunningJobs'
    PROVE  Answers(f)'
<1> USE DEF TypeInv
<1>1. exec \in [Futures -> ExecRecord] /\ exec[f] \in ExecRecord
  BY DEF TypeOK
<1>2. exec[f].job \in Jobs /\ Exists(exec[f].job) /\ jobs[exec[f].job].state = "RUNNING"
      /\ jobs'[exec[f].job] # NoRow /\ jobs'[exec[f].job].state = "RUNNING"
  BY DEF RunningJobs, Exists
<1>3. CASE ExecLoad(f)
  <2>1. UNCHANGED exec /\ txn[f] = NoTxn
    BY <1>3 DEF ExecLoad
  <2>2. txn'[f] # NoTxn => txn'[f].loaded = jobs[exec[f].job]
    BY <2>1, ExecTable DEF Quiet, Commits, Opens
  <2> QED BY <1>2, <2>1, <2>2 DEF Answers
<1>4. CASE ExecCommit(f)
  <2>1. Commits(f) /\ txn[f].job = exec[f].job /\ exec' = [exec EXCEPT ![f].pc = After[@]]
    BY <1>4 DEF ExecCommit, Commits, ExecShape
  <2>2. exec[f].pc \in {"progress", "saveCancellable", "finish"}
    BY <2>1 DEF Answers, Commits, ExecShape, UpdatePcs
  <2>3. exec[f].pc # "finish"
    <3> SUFFICES ASSUME exec[f].pc = "finish" PROVE FALSE
      OBVIOUS
    <3>1. txn[f].loaded.state = "RUNNING" /\ txn[f].new.state \in FinishedStates
          /\ txn[f].loaded # NoRow
      BY <2>1 DEF Answers, Commits, WritersInv, ExecShape
    <3>2. jobs'[txn[f].job].state = txn[f].new.state
      BY <1>2, <2>1, <3>1, CommitState DEF Actors, FinishedStates
    <3> QED BY <1>2, <2>1, <3>1, <3>2 DEF FinishedStates
  <2>4. exec'[f].pc = "func"
    BY <1>1, <2>1, <2>2, <2>3 DEF After, ExecRecord
  <2> QED BY <2>4 DEF Answers
<1>5. CASE ExecCheck(f) \/ FuncPolls(f) \/ FuncReturns(f)
  <2>1. txn'[f] = NoTxn
    BY <1>5 DEF ExecCheck, FuncPolls, FuncReturns, ExecShape, UpdatePcs
  <2>2. (\E s \in FinishedStates : Ends(f, s)) \/ exec' = [exec EXCEPT ![f].pc = "func"]
    BY <1>5 DEF ExecCheck, FuncPolls, FuncReturns, FinishedStates
  <2>3. exec'[f].pc \in {"func", "finish"}
    BY <1>1, <2>2 DEF Ends, ExecRecord
  <2> QED BY <2>1, <2>3 DEF Answers
<1>6. CASE FuncActs(f)
  <2>1. exec'[f].pc \in {"func", "progress", "saveCancellable"}
    BY <1>1, <1>6 DEF FuncActs, ExecRecord
  <2> QED BY <2>1 DEF Answers
<1>7. CASE \/ ExecTake(f) \/ ExecGetJob(f) \/ ExecSkipUpdate(f) \/ ExecReschedule(f)
           \/ ExecSchedule(f) \/ ExecCallback(f)
  BY <1>2, <1>7 DEF ExecTake, ExecGetJob, ExecSkipUpdate, ExecReschedule, ExecSchedule,
                    ExecCallback, Answers
<1> QED BY <1>3, <1>4, <1>5, <1>6, <1>7 DEF ExecStep

Up == main.pc \notin {"down", "requeue", "markQueued"}

\* A step that leaves those who answer for the running jobs alone.
LEMMA BackedFrame ==
    ASSUME BackedInv, Up, RunningJobs' \subseteq RunningJobs, Up',
           \A f \in Futures : Answers(f) => Answers(f)' /\ exec'[f].job = exec[f].job
    PROVE  BackedInv'
<1>1. \A j \in RunningJobs' : \E f \in Futures : Answers(f)' /\ exec'[f].job = j
  BY DEF BackedInv, Up
<1> QED BY <1>1 DEF BackedInv, Up

\* The start and the stop of the worker keep BackedInv.
LEMMA MainBacked == TypeInv /\ WritersInv /\ BackedInv /\ MainStep => BackedInv'
<1> SUFFICES ASSUME TypeInv, WritersInv, BackedInv, MainStep PROVE BackedInv'
  OBVIOUS
<1>1. RunningJobs' \subseteq RunningJobs
  BY RunningShrinks
<1>2. /\ main \in MainRecord
      /\ txn[Main] # NoTxn => main.pc \in MarkPcs
  BY DEF TypeInv, TypeOK, MainRecord, MainShape
<1>3. ASSUME Up, Up' PROVE BackedInv'
  <2>1. \A f \in Futures : Answers(f) => exec'[f] = exec[f]
    <3>1. \A f \in Futures : Answers(f) => exec[f].pc # "pending"
      BY DEF Answers
    <3>2. \A f \in Futures : exec[f].job \in Jobs /\ Untrack(f) =>
            \A g \in Futures \ {f} : exec'[g] = exec[g]
      BY UntrackType DEF TypeInv
    <3> QED BY <3>1, <3>2, MainMoves
  <2>2. \A f \in Futures : txn'[f] = txn[f]
    BY MainTable, CommitType, DistinctValues DEF Quiet, Opens, Commits, Actors, TypeInv
  <2>3. \A f \in Futures : Answers(f) => Answers(f)' /\ exec'[f].job = exec[f].job
    BY <2>1, <2>2 DEF Answers
  <2> QED BY <1>1, <1>3, <2>3, BackedFrame
<1>4. CASE Start
  <2>1. main'.pc = "requeue" /\ main'.todo = RunningJobs
    BY <1>4 DEF Start
  <2> QED BY <1>1, <2>1 DEF BackedInv
<1>5. CASE MainNext("requeue", "markQueued")
  <2>1. PICK j \in main.todo : main' = [main EXCEPT !.todo = @ \ {j}, !.job = j, !.pc = "markQueued"]
    BY <1>5 DEF MainNext
  <2>2. main.pc = "requeue" /\ txn'[Main] = NoTxn
    BY <1>5 DEF MainNext
  <2>3. main'.pc = "markQueued" /\ main'.job = j /\ main'.todo = main.todo \ {j}
    BY <1>2, <2>1 DEF MainRecord
  <2> QED BY <1>1, <2>2, <2>3 DEF BackedInv
<1>6. CASE MainUp
  <2>1. RunningJobs' = {} /\ main'.pc = "up"
    BY <1>1, <1>2, <1>6 DEF MainUp, BackedInv, MainRecord
  <2> QED BY <2>1 DEF BackedInv
<1>7. CASE MainMark /\ main.pc = "markQueued"
  <2>1. CASE Opens(Main) /\ main' = main /\ txn'[Main].job = main.job
             /\ txn'[Main].new.state = MarkOf[main.pc]
    <3>1. txn'[Main].new.state = "QUEUED" /\ txn'[Main].loaded = jobs[main.job] /\ jobs' = jobs
      BY <1>7, <2>1 DEF Opens, MarkOf
    <3>2. main.job \in RunningJobs' => txn'[Main].loaded.state = "RUNNING"
      BY <1>1, <3>1 DEF RunningJobs
    <3> QED BY <1>1, <1>7, <2>1, <3>1, <3>2 DEF BackedInv
  <2>2. CASE Commits(Main) /\ main' = [main EXCEPT !.pc = Follows[@]]
    <3>1. main'.pc = "requeue" /\ main'.todo = main.todo
      BY <1>2, <1>7, <2>2 DEF Follows, MainRecord
    <3>2. txn[Main].job = main.job /\ txn[Main].loaded # NoRow /\ main.job \in Jobs
      BY <2>2 DEF TypeInv, MainShape, Commits
    <3>3. main.job \notin RunningJobs'
      <4> SUFFICES ASSUME main.job \in RunningJobs' PROVE FALSE
        OBVIOUS
      <4>1. txn[Main].new.state = "QUEUED" /\ txn[Main].loaded.state = "RUNNING"
        BY <1>1, <1>7, <2>2 DEF BackedInv, Commits
      <4>2. jobs'[main.job] # NoRow /\ jobs'[main.job].state = "RUNNING"
        BY DEF RunningJobs, Exists
      <4>3. jobs'[main.job].state = "QUEUED"
        BY <2>2, <3>2, <4>1, <4>2, CommitState DEF Actors
      <4> QED BY <4>2, <4>3
    <3> QED BY <1>1, <1>7, <3>1, <3>3 DEF BackedInv
  <2>3. CASE UNCHANGED <<jobs, txn>> /\ ~Exists(main.job) /\ main' = [main EXCEPT !.pc = Follows[@]]
    <3>1. main'.pc = "requeue" /\ main'.todo = main.todo
      BY <1>2, <1>7, <2>3 DEF Follows, MainRecord
    <3>2. main.job \notin RunningJobs'
      BY <2>3 DEF RunningJobs, Exists
    <3> QED BY <1>1, <1>7, <3>1, <3>2 DEF BackedInv
  <2>4. CASE Quiet /\ txn[Main] = NoTxn /\ ~(~Exists(main.job) /\ main' = [main EXCEPT !.pc = Follows[@]])
    <3>1. LoadMark(Main, main.job, MarkOf[main.pc])
      BY <1>7, <2>4 DEF MainMark
    <3>2. main.job \in Jobs /\ MarkOf[main.pc] \in States
      BY <1>7 DEF TypeInv, MainShape, MarkPcs, MarkOf, States
    <3>3. txn'[Main] # NoTxn
      BY <3>1, <3>2, LoadMarkType DEF TypeInv, Actors
    <3> QED BY <2>4, <3>3 DEF Quiet
  <2>5. CASE Quiet /\ txn[Main] = NoTxn /\ ~Exists(main.job) /\ main' = [main EXCEPT !.pc = Follows[@]]
    BY <2>3, <2>5 DEF Quiet
  <2> QED BY <2>1, <2>2, <2>4, <2>5, MainTable
<1>8. CASE MainDown
  <2>1. main'.pc = "down"
    BY <1>2, <1>8 DEF MainDown, MainRecord
  <2> QED BY <2>1 DEF BackedInv
<1>9. CASE \/ MainJoined \/ MainNext("shutdown", "markCanceling") \/ MainDrop
           \/ MainMark /\ main.pc # "markQueued"
  <2>1. Up
    BY <1>9 DEF MainJoined, MainNext, MainDrop, MainMark, MarkOf, Up
  <2>2. Up'
    <3>1. CASE MainJoined
      BY <3>1 DEF MainJoined, Up
    <3>2. CASE MainNext("shutdown", "markCanceling")
      BY <1>2, <3>2 DEF MainNext, Up, MainRecord
    <3>3. CASE MainDrop
      BY <1>2, <3>3 DEF MainDrop, Up, MainRecord
    <3>4. CASE MainMark /\ main.pc # "markQueued"
      <4>1. main.pc \in {"markCanceling", "markCanceled"}
            /\ (main' = main \/ main' = [main EXCEPT !.pc = Follows[@]])
        BY <3>4 DEF MainMark, MarkOf
      <4> QED BY <1>2, <4>1 DEF Follows, Up, MainRecord
    <3> QED BY <1>9, <3>1, <3>2, <3>3, <3>4
  <2> QED BY <1>3, <2>1, <2>2
<1> QED BY <1>4, <1>5, <1>6, <1>7, <1>8, <1>9 DEF MainStep

\* Every step keeps BackedInv.
LEMMA BackedStep == TypeInv /\ WritersInv /\ BackedInv /\ [Next]_vars => BackedInv'
<1> SUFFICES ASSUME TypeInv, WritersInv, BackedInv, [Next]_vars PROVE BackedInv'
  OBVIOUS
<1>1. TypeOK /\ Futures \subseteq Actors /\ Requests \subseteq Actors /\ Checker \in Actors
  BY DEF TypeInv, Actors
<1>2. \A a \in Actors : Commits(a) => \A b \in Actors \ {a} : txn'[b] = txn[b]
  BY <1>1, CommitType DEF Commits
<1>3. ASSUME RunningJobs' \subseteq RunningJobs, main' = main, txn'[Main] = txn[Main],
             \A f \in Futures : Answers(f) => exec'[f] = exec[f] /\ txn'[f] = txn[f]
      PROVE  BackedInv'
  <2>1. CASE Up
    <3>1. \A f \in Futures : Answers(f) => Answers(f)' /\ exec'[f].job = exec[f].job
      BY <1>3 DEF Answers
    <3> QED BY <1>3, <2>1, <3>1, BackedFrame DEF Up
  <2>2. CASE ~Up
    BY <1>3, <2>2 DEF BackedInv, Up
  <2> QED BY <2>1, <2>2
<1>4. CASE CheckerStep
  <2>1. \A b \in Actors \ {Checker} : txn'[b] = txn[b]
    BY <1>1, <1>2, <1>4, CheckerTable DEF Quiet, Opens
  <2>2. \A f \in Futures : Answers(f) => exec'[f] = exec[f]
    <3>1. \A f \in Futures : Answers(f) => exec[f].pc \notin {"free", "pending"}
      BY DEF Answers
    <3>2. \A f \in Futures : exec[f].job \in Jobs /\ Untrack(f) =>
            \A g \in Futures \ {f} : exec'[g] = exec[g]
      BY <1>1, UntrackType
    <3> QED BY <1>4, <3>1, <3>2, CheckerMoves
  <2>3. main' = main /\ RunningJobs' \subseteq RunningJobs
    BY <1>4, CheckerMoves, RunningShrinks
  <2> QED BY <1>3, <2>1, <2>2, <2>3, DistinctValues DEF Actors
<1>5. ASSUME NEW r \in Requests, RequestBegins(r) \/ RequestStep(r) PROVE BackedInv'
  <2>1. \A b \in Actors \ {r} : txn'[b] = txn[b]
    BY <1>1, <1>2, <1>5, RequestTable DEF Quiet, Opens
  <2>2. UNCHANGED <<exec, main>> /\ RunningJobs' \subseteq RunningJobs
    BY <1>5, RequestTable, RunningShrinks
  <2> QED BY <1>3, <2>1, <2>2, DistinctValues DEF Actors
<1>6. ASSUME NEW f \in Futures, ExecStep(f) PROVE BackedInv'
  <2>1. main' = main /\ exec[f].pc # "free" /\ \A g \in Futures \ {f} : exec'[g] = exec[g]
    BY <1>6, ExecMoves
  <2>2. Up /\ Up'
    BY <2>1 DEF TypeInv, MainShape, Up
  <2>3. \A b \in Actors \ {f} : txn'[b] = txn[b]
    BY <1>1, <1>2, <1>6, ExecTable DEF Quiet, Opens
  <2>4. ASSUME NEW j \in RunningJobs' PROVE \E g \in Futures : Answers(g)' /\ exec'[g].job = j
    <3>1. CASE j \notin RunningJobs
      <4>1. Commits(f) /\ exec[f].pc = "markRunning" /\ txn[f].job = j
        BY <1>6, <3>1, RunningGrows
      <4>2. exec' = [exec EXCEPT ![f].pc = After[@]] /\ txn[f].job = exec[f].job
        BY <1>6, <4>1, ExecTable DEF Quiet, Opens, Commits, TypeInv, ExecShape
      <4>3. exec'[f].pc = "check" /\ exec'[f].job = j
        BY <1>1, <4>1, <4>2 DEF After, TypeOK, ExecRecord
      <4> QED BY <4>3 DEF Answers
    <3>2. CASE j \in RunningJobs
      <4>1. PICK g \in Futures : Answers(g) /\ exec[g].job = j
        BY <2>2, <3>2 DEF BackedInv, Up
      <4>2. CASE g # f
        BY <1>1, <2>1, <2>3, <4>1, <4>2 DEF Answers
      <4>3. CASE g = f
        <5>1. Answers(f)'
          BY <1>6, <3>2, <4>1, <4>3, AnswersHolds
        <5>2. exec[f].pc # "over"
          BY <4>1, <4>3 DEF Answers
        <5>3. exec'[f].job = exec[f].job
          BY <1>6, <5>2, ExecMoves
        <5> QED BY <4>1, <4>3, <5>1, <5>3
      <4> QED BY <4>2, <4>3
    <3> QED BY <3>1, <3>2
  <2> QED BY <2>2, <2>4 DEF BackedInv, Up
<1>7. CASE Crash
  BY <1>7 DEF Crash, BackedInv
<1>8. CASE Stop
  <2>1. Up /\ Up' /\ UNCHANGED <<exec, txn>>
    BY <1>8 DEF Stop, Up, TypeInv, TypeOK
  <2>2. \A f \in Futures : Answers(f) => Answers(f)' /\ exec'[f].job = exec[f].job
    BY <2>1 DEF Answers
  <2>3. RunningJobs' \subseteq RunningJobs
    BY <1>8, RunningShrinks
  <2> QED BY <2>1, <2>2, <2>3, BackedFrame
<1>9. CASE (\E j \in Jobs : TimePasses(j)) \/ UNCHANGED vars
  <2>1. UNCHANGED <<exec, txn, main>>
    BY <1>9 DEF TimePasses, vars
  <2>2. RunningJobs' \subseteq RunningJobs
    BY <1>9, RunningShrinks
  <2> QED BY <1>3, <2>1, <2>2
<1> QED BY <1>4, <1>5, <1>6, <1>7, <1>8, <1>9, MainBacked DEF Next

\* While the worker is up, a job that the table shows as RUNNING has a live
\* execution, whatever requests, commits and crashes come between.
THEOREM BackedCorrect == Spec => []RunningIsBacked
<1>1. Init => BackedInv
  BY DEF Init, BackedInv
<1>2. BackedInv => RunningIsBacked
  BY DEF BackedInv, RunningIsBacked, Answers, Live
<1> QED BY <1>1, <1>2, WritersInit, WritersStep, BackedStep, TypesHold, PTL DEF Spec

-----------------------------------------------------------------------------
(* NoConcurrentRuns.                                                       *)

\* Where the checker can be when it holds a job it has picked.
LEMMA CheckerPicks ==
    ASSUME TypeInv, CheckerStep, chk'.pc = "select"
    PROVE  /\ UNCHANGED <<jobs, exec>> /\ chk'.job \in Jobs
           /\ Exists(chk'.job) /\ jobs[chk'.job].state = "QUEUED"
           /\ jobs[chk'.job].priority # LOW
           /\ txn'[Checker].loaded.state = "QUEUED" /\ txn'[Checker].loaded = jobs[chk'.job]
           /\ IsDue(chk'.job) /\ fjm' = fjm
           /\ txn'[Checker].loaded.priority > HIGH => Busy < RegularWorkers
<1> USE DEF TypeInv
<1>1. chk \in [pc : CheckerPcs, job : Jobs \cup {NoJob}, todo : SUBSET Jobs]
  BY DEF TypeOK
<1>2. CASE CheckerLoad
  <2>1. PICK j \in NextQueued(AskedPriority) :
               /\ Load(Checker, j, Selected(jobs[j]), FALSE, "keep")
               /\ chk' = [chk EXCEPT !.pc = "select", !.job = j]
    BY <1>2 DEF CheckerLoad
  <2>2. /\ j \in Jobs /\ Exists(j) /\ jobs[j].state = "QUEUED" /\ IsDue(j)
        /\ jobs[j].priority <= AskedPriority
    BY DEF NextQueued, Due
  <2>3. chk'.job = j /\ UNCHANGED <<jobs, exec, fjm>> /\ chk.pc = "next"
    BY <1>1, <1>2, <2>1 DEF CheckerLoad
  <2>4. jobs[j] \in Row
    BY <2>2 DEF TypeOK, Exists
  <2>5. jobs[j].priority > HIGH => Busy < RegularWorkers
    <3>1. AskedPriority # REGULAR => AskedPriority \in {HIGH, 0}
      BY DEF AskedPriority
    <3>2. AskedPriority = REGULAR => Busy < RegularWorkers
      BY DEF AskedPriority, HIGH, REGULAR
    <3>3. jobs[j].priority \in {HIGH, REGULAR, LOW}
      BY <2>4 DEF Row
    <3> QED BY <2>2, <3>1, <3>2, <3>3 DEF HIGH, REGULAR, LOW
  <2>6. jobs[j].priority # LOW
    <3>1. AskedPriority \in {REGULAR, HIGH, 0}
      BY DEF AskedPriority
    <3> QED BY <2>2, <3>1 DEF HIGH, REGULAR, LOW
  <2>7. txn'[Checker].loaded = jobs[j]
    <3> DEFINE row == Selected(jobs[j])
               t == [job |-> j, loaded |-> jobs[j], new |-> row, json |-> FALSE, time |-> "keep"]
    <3>1. row \in Row
      BY <2>4, RowOperations
    <3>2. txn' = [txn EXCEPT ![Checker] = t] /\ Checker \in Actors
      BY <2>1 DEF Load, Actors
    <3> HIDE DEF row
    <3>3. t \in Txn /\ t.loaded = jobs[j]
      BY <2>2, <2>4, <3>1 DEF Txn, Times
    <3> HIDE DEF t
    <3> QED BY <3>2, <3>3, LoadType
  <2> QED BY <2>2, <2>3, <2>5, <2>6, <2>7
<1>3. CASE CheckerStart
  BY <1>3 DEF CheckerStart, IdleChecker
<1>4. CASE CheckerMark
  BY <1>1, <1>4 DEF CheckerMark
<1>5. CASE CheckerNone \/ CheckerScan \/ CheckerLoopEnds \/ CheckerWakes
           \/ \E j \in Jobs : CheckerCancel(j)
  BY <1>1, <1>5 DEF CheckerNone, CheckerScan, CheckerLoopEnds, CheckerWakes, CheckerCancel
<1> QED BY <1>2, <1>3, <1>4, <1>5 DEF CheckerStep

\* Other threads leave the checker and its transaction alone or stop it.
LEMMA CheckerLeftAlone ==
    ASSUME TypeInv, [Next]_vars, ~CheckerStep, chk'.pc = "select"
    PROVE  chk' = chk /\ txn'[Checker] = txn[Checker]
<1>1. TypeOK /\ \A a \in Actors : Commits(a) => \A b \in Actors \ {a} : txn'[b] = txn[b]
  BY CommitType DEF TypeInv, Commits
<1>2. ASSUME NEW f \in Futures, ExecStep(f) PROVE chk' = chk /\ txn'[Checker] = txn[Checker]
  BY <1>1, <1>2, ExecMoves, ExecTable, DistinctValues DEF Quiet, Opens, Actors
<1>3. ASSUME NEW r \in Requests, RequestBegins(r) \/ RequestStep(r)
      PROVE  chk' = chk /\ txn'[Checker] = txn[Checker]
  BY <1>1, <1>3, RequestTable, DistinctValues DEF Quiet, Opens, Actors
<1>4. CASE MainStep
  <2>1. txn'[Checker] = txn[Checker]
    BY <1>1, <1>4, MainTable, DistinctValues DEF Quiet, Opens, Actors
  <2>2. chk' = chk \/ chk' = IdleChecker
    BY <1>4 DEF MainStep, Start, MainNext, MainUp, MainJoined, MainMark, MainDrop, MainDown
  <2> QED BY <2>1, <2>2 DEF IdleChecker
<1>5. CASE Crash
  BY <1>5 DEF Crash, IdleChecker
<1>6. CASE Stop \/ (\E j \in Jobs : TimePasses(j)) \/ UNCHANGED vars
  BY <1>6 DEF Stop, TimePasses, vars
<1> QED BY <1>2, <1>3, <1>4, <1>5, <1>6 DEF Next

\* An execution comes to life only when the checker submits the job it picked.
LEMMA LiveMoves ==
    ASSUME TypeInv, [Next]_vars, NEW f \in Futures, exec'[f].pc # "free"
    PROVE  \/ /\ exec[f].pc # "free" /\ exec'[f].job = exec[f].job
              /\ Live(f)' => Live(f)
           \/ /\ CheckerStep /\ chk.pc = "select" /\ chk.job \in Jobs
              /\ exec'[f].job = chk.job
              /\ \A g \in Futures \ {f} : exec'[g] = exec[g]
<1>1. \A g \in Futures : exec[g].job \in Jobs /\ Untrack(g) =>
        exec'[g].pc = "free" /\ \A h \in Futures \ {g} : exec'[h] = exec[h]
  BY UntrackType DEF TypeInv
<1>2. CASE exec'[f] = exec[f]
  BY <1>2 DEF Live
<1>3. CASE CheckerStep
  BY <1>1, <1>2, <1>3, CheckerMoves
<1>4. ASSUME NEW g \in Futures, ExecStep(g) PROVE exec[f].pc # "free" /\ exec'[f].job = exec[f].job
                                                  /\ (Live(f)' => Live(f))
  BY <1>1, <1>4, ExecMoves DEF Live
<1>5. CASE MainStep
  BY <1>1, <1>2, <1>5, MainMoves
<1>6. ASSUME NEW r \in Requests, RequestBegins(r) \/ RequestStep(r) PROVE exec'[f] = exec[f]
  BY <1>6, RequestTable
<1>7. CASE Crash
  BY <1>7, FreeExecType DEF Crash
<1>8. CASE Stop \/ (\E j \in Jobs : TimePasses(j)) \/ UNCHANGED vars
  <2>1. UNCHANGED exec
    BY <1>8 DEF Stop, TimePasses, vars
  <2> QED BY <1>2, <2>1
<1> QED BY <1>2, <1>3, <1>4, <1>5, <1>6, <1>7, <1>8 DEF Next

\* Who can have written a row, and who can have brought it into the world.
Merging(a, j) ==
    \/ a \in Futures /\ exec[a].pc = "merge" /\ exec[a].job = j /\ exec'[a].pc = "over"
    \/ a \in Requests /\ req[a].pc = "merge" /\ req[a].job = j /\ req'[a].pc = "done"

\* A row that is there was there, or is being merged.
LEMMA RowsAppear ==
    ASSUME TypeInv, WritersInv, [Next]_vars, NEW j \in Jobs, jobs'[j] # NoRow
    PROVE  /\ Exists(j) \/ \E a \in Actors : Merging(a, j)
           /\ jobs'[j].state = "QUEUED" =>
                \/ Exists(j) /\ jobs[j].state = "QUEUED"
                \/ main.pc = "markQueued"
                \/ \E a \in Actors : Merging(a, j)
<1> USE DEF TypeInv
<1>1. TypeOK /\ exec \in [Futures -> ExecRecord] /\ req \in [Requests -> RequestRecord]
  BY DEF TypeOK, RequestRecord
<1>2. CASE jobs'[j] = jobs[j]
  BY <1>2 DEF Exists
<1>3. ASSUME NEW a \in Actors, Commits(a)
      PROVE  /\ Exists(j) \/ (txn[a].job = j /\ txn[a].loaded = NoRow)
             /\ jobs'[j].state = "QUEUED" =>
                  \/ Exists(j) /\ jobs[j].state = "QUEUED"
                  \/ txn[a].job = j /\ Writes(a, "QUEUED")
  <2>1. /\ txn[a] \in Txn /\ txn[a].job \in Jobs
        /\ jobs'[txn[a].job] = Flush(jobs[txn[a].job], txn[a])
        /\ \A k \in Jobs \ {txn[a].job} : jobs'[k] = jobs[k]
    BY <1>1, <1>3, CommitType DEF Commits, Txn
  <2>2. Exists(j) \/ (txn[a].job = j /\ txn[a].loaded = NoRow)
    BY <1>1, <2>1, FlushType DEF Exists, TypeOK
  <2>3. \/ Exists(j) /\ jobs'[j].state = jobs[j].state
        \/ j = txn[a].job /\ Writes(a, jobs'[j].state)
    BY <1>3, CommitState DEF Exists
  <2> QED BY <2>2, <2>3
<1>4. CASE CheckerStep
  <2>1. Commits(Checker) => txn[Checker].loaded # NoRow /\ ~Writes(Checker, "QUEUED")
    BY DEF Commits, CheckerShape, WritersInv
  <2> QED BY <1>2, <1>3, <1>4, <2>1, CheckerTable DEF Quiet, Opens, Actors
<1>5. CASE MainStep
  <2>1. Commits(Main) => txn[Main].loaded # NoRow /\ (Writes(Main, "QUEUED") => main.pc = "markQueued")
    BY DEF Commits, MainShape, WritersInv
  <2> QED BY <1>2, <1>3, <1>5, <2>1, MainTable DEF Quiet, Opens, Actors
<1>6. ASSUME NEW f \in Futures, ExecStep(f), jobs'[j] # jobs[j]
      PROVE  /\ Exists(j) \/ Merging(f, j)
             /\ jobs'[j].state = "QUEUED" =>
                  \/ Exists(j) /\ jobs[j].state = "QUEUED"
                  \/ Merging(f, j)
  <2>1. Commits(f) /\ exec' = [exec EXCEPT ![f].pc = After[@]]
    BY <1>6, ExecTable DEF Quiet, Opens
  <2>2. txn[f].loaded = NoRow \/ Writes(f, "QUEUED") => exec[f].pc = "merge"
    BY <2>1 DEF ExecShape, WritersInv, Commits
  <2>3. txn[f].job = exec[f].job /\ (exec[f].pc = "merge" => exec'[f].pc = "over")
    BY <1>1, <2>1 DEF ExecShape, Commits, After, ExecRecord
  <2> QED BY <1>3, <2>1, <2>2, <2>3 DEF Merging, Actors
<1>7. ASSUME NEW r \in Requests, RequestBegins(r) \/ RequestStep(r), jobs'[j] # jobs[j]
      PROVE  /\ Exists(j) \/ Merging(r, j)
             /\ jobs'[j].state = "QUEUED" =>
                  \/ Exists(j) /\ jobs[j].state = "QUEUED"
                  \/ Merging(r, j)
  <2>1. Commits(r) /\ Goes(r, "done")
    BY <1>7, RequestTable DEF Quiet, Opens
  <2>2. txn[r].loaded = NoRow \/ Writes(r, "QUEUED") => req[r].pc = "merge"
    BY <2>1 DEF RequestShape, WritersInv, Commits
  <2>3. txn[r].job = req[r].job /\ req'[r].pc = "done"
    BY <1>1, <2>1 DEF RequestShape, Commits, Goes, RequestRecord
  <2> QED BY <1>3, <2>1, <2>2, <2>3 DEF Merging, Actors
<1>8. CASE Crash \/ Stop \/ (\E i \in Jobs : TimePasses(i)) \/ UNCHANGED vars
  <2>1. UNCHANGED jobs
    BY <1>8 DEF Crash, Stop, TimePasses, vars
  <2> QED BY <1>2, <2>1
<1> QED BY <1>2, <1>4, <1>5, <1>6, <1>7, <1>8 DEF Next, Actors

\* With fresh ids a request either goes on with its job or takes an unused one.
LEMMA RequestFresh ==
    ASSUME FreshIdsOnly, TypeInv, BirthInv, NEW r \in Requests, RequestBegins(r) \/ RequestStep(r)
    PROVE  /\ req'[r].pc \notin {"restart", "clearFirst"}
           /\ \/ /\ used' = used
                 /\ Scheduling(r)' => Scheduling(r) /\ req'[r].job = req[r].job
              \/ \E j \in Jobs \ used :
                   /\ used' = used \cup {j} /\ req'[r].pc = "schedule" /\ req'[r].job = j
                   /\ UNCHANGED <<jobs, exec, chk>>
<1> USE DEF TypeInv
<1>1. req \in [Requests -> RequestRecord] /\ req[r] \in RequestRecord
  BY DEF TypeOK, RequestRecord
<1>2. req[r].pc \notin {"restart", "clearFirst"}
  BY DEF BirthInv
<1>3. ASSUME NEW j \in Jobs, NEW k \in Kinds, RequestEnqueue(r, j, k) \/ RequestUpdate(r, j, k)
      PROVE  /\ j \in Jobs \ used
             /\ used' = used \cup {j} /\ req'[r].pc = "schedule" /\ req'[r].job = j
             /\ UNCHANGED <<jobs, exec, chk>>
  <2>1. RequestEnqueue(r, j, k)
    BY <1>3 DEF RequestUpdate, FreshIdsOnly
  <2>2. j \notin used /\ used' = used \cup {j} /\ UNCHANGED <<jobs, exec, chk>>
    BY <2>1 DEF RequestEnqueue, FreshIdsOnly
  <2>3. req'[r].pc = "schedule" /\ req'[r].job = j
    BY <1>1, <2>1 DEF RequestEnqueue
  <2> QED BY <2>2, <2>3
<1>4. ASSUME NEW j \in Jobs, NEW op \in ViewOps, RequestView(r, j, op)
      PROVE  used' = used /\ req'[r].pc \notin {"restart", "clearFirst", "schedule", "merge"}
  <2>1. op \in Ops /\ used' = used
    BY <1>4 DEF RequestView
  <2>2. op # "restart"
    BY <2>1 DEF FreshIdsOnly
  <2>3. req'[r].pc = IF op = "cancelIfExists" THEN "cancel" ELSE op
    BY <1>1, <1>4 DEF RequestView, NewRequest
  <2> QED BY <2>1, <2>2, <2>3 DEF ViewOps
<1>5. CASE RequestClearAll(r) \/ RequestCancel(r) \/ RequestDelete(r) \/ RequestCommit(r)
           \/ RequestSchedule(r)
  <2>1. used' = used
    BY <1>5 DEF RequestClearAll, RequestCancel, RequestDelete, RequestCommit, RequestSchedule
  <2>2. \E pc \in {"done", "forget", "mark", "merge"} :
          Goes(r, pc) /\ (pc = "merge" => req[r].pc = "schedule")
    BY <1>5 DEF RequestClearAll, RequestCancel, RequestDelete, RequestCommit, RequestSchedule
  <2> QED BY <1>1, <2>1, <2>2 DEF Goes, RequestRecord, Scheduling
<1>6. CASE RequestLoad(r)
  <2>1. used' = used /\ (req' = req \/ Goes(r, "done"))
    BY <1>6 DEF RequestLoad
  <2> QED BY <1>1, <1>2, <2>1 DEF Goes, RequestRecord, Scheduling
<1>7. CASE RequestRestart(r) \/ RequestClearFirst(r)
  BY <1>2, <1>7 DEF RequestRestart, RequestClearFirst
<1> QED BY <1>3, <1>4, <1>5, <1>6, <1>7 DEF RequestBegins, RequestStep, Scheduling

\* A job stays unborn until the request that enqueues it commits its row.
LEMMA UnbornStays ==
    ASSUME TypeInv, WritersInv, [Next]_vars, NEW j \in Jobs, Unborn(j),
           \A a \in Requests : ~Merging(a, j)
    PROVE  Unborn(j)'
<1>1. jobs'[j] = NoRow
  <2>1. \A a \in Actors \ Requests : ~Merging(a, j)
    BY DEF Merging, Unborn
  <2> QED BY <2>1, RowsAppear DEF Unborn
<1>2. \A f \in Futures : exec'[f].pc # "free" => exec'[f].job # j
  BY LiveMoves DEF Unborn
<1>3. chk'.pc = "select" => chk'.job # j
  BY CheckerPicks, CheckerLeftAlone DEF Unborn
<1> QED BY <1>1, <1>2, <1>3 DEF Unborn, Exists

\* Without fixed ids, every step keeps BirthInv.
LEMMA BirthStep ==
    ASSUME FreshIdsOnly, TypeInv, WritersInv, BirthInv, [Next]_vars
    PROVE  BirthInv'
<1>0. ASSUME \A r \in Requests : req'[r].pc \notin {"restart", "clearFirst"},
             \A j \in Jobs \ used' :
               Unborn(j)' /\ \A r \in Requests : Scheduling(r)' => req'[r].job # j,
             \A r \in Requests, j \in Jobs : Scheduling(r)' /\ req'[r].job = j => Unborn(j)',
             \A r, q \in Requests :
               Scheduling(r)' /\ Scheduling(q)' /\ req'[r].job = req'[q].job => r = q
      PROVE  BirthInv'
  <2>1. TypeInv'
    BY TypeStep
  <2>2. \A r \in Requests : Scheduling(r)' => req'[r].job \in Jobs
    BY <2>1 DEF TypeInv, RequestShape, Scheduling
  <2> QED BY <1>0, <2>2 DEF BirthInv, Unborn, Exists, Scheduling
<1>1. ASSUME used' = used,
             \A r \in Requests :
               /\ req'[r].pc \notin {"restart", "clearFirst"}
               /\ Scheduling(r)' => Scheduling(r) /\ req'[r].job = req[r].job
      PROVE  BirthInv'
  <2>1. ASSUME NEW j \in Jobs \ used PROVE Unborn(j)' /\ \A r \in Requests : Scheduling(r)' => req'[r].job # j
    <3>1. Unborn(j) /\ \A r \in Requests : Scheduling(r) => req[r].job # j
      BY DEF BirthInv
    <3>2. \A r \in Requests : ~Merging(r, j)
      BY <3>1, DistinctValues DEF Merging, Scheduling
    <3> QED BY <1>1, <3>1, <3>2, UnbornStays
  <2>2. ASSUME NEW r \in Requests, Scheduling(r)', NEW j \in Jobs, req'[r].job = j PROVE Unborn(j)'
    <3>1. Scheduling(r) /\ req[r].job = j /\ Unborn(j)
      BY <1>1, <2>2 DEF BirthInv
    <3>2. \A q \in Requests : ~Merging(q, j)
      <4> SUFFICES ASSUME NEW q \in Requests, Merging(q, j) PROVE FALSE
        OBVIOUS
      <4>1. Scheduling(q) /\ req[q].job = j /\ req'[q].pc = "done"
        BY DistinctValues DEF Merging, Scheduling
      <4>2. q = r
        BY <3>1, <4>1 DEF BirthInv
      <4> QED BY <2>2, <4>1, <4>2 DEF Scheduling
    <3> QED BY <3>1, <3>2, UnbornStays
  <2>3. \A r, q \in Requests :
          Scheduling(r)' /\ Scheduling(q)' /\ req'[r].job = req'[q].job => r = q
    BY <1>1 DEF BirthInv
  <2> QED BY <1>0, <1>1, <2>1, <2>2, <2>3
<1>2. ASSUME NEW r \in Requests, RequestBegins(r) \/ RequestStep(r) PROVE BirthInv'
  <2>1. \A q \in Requests \ {r} : req'[q] = req[q]
    BY <1>2, RequestTable
  <2>2. \A q \in Requests : req[q].pc \notin {"restart", "clearFirst"}
    BY DEF BirthInv
  <2>3. CASE used' = used /\ (Scheduling(r)' => Scheduling(r) /\ req'[r].job = req[r].job)
    BY <1>1, <1>2, <2>1, <2>2, <2>3, RequestFresh DEF Scheduling
  <2>4. ASSUME NEW j \in Jobs \ used, used' = used \cup {j}, req'[r].pc = "schedule",
               req'[r].job = j, UNCHANGED <<jobs, exec, chk>>
        PROVE  BirthInv'
    <3>1. \A i \in Jobs : Unborn(i) => Unborn(i)'
      BY <2>4 DEF Unborn, Exists
    <3>2. Unborn(j) /\ \A q \in Requests : Scheduling(q) => req[q].job # j
      BY <2>4 DEF BirthInv
    <3>3. \A q \in Requests \ {r} : Scheduling(q)' => Scheduling(q) /\ req'[q].job = req[q].job
      BY <2>1 DEF Scheduling
    <3>4. \A q \in Requests : Scheduling(q) => req[q].job \in Jobs
      BY DEF Scheduling, TypeInv, RequestShape
    <3>5. \A q \in Requests : req'[q].pc \notin {"restart", "clearFirst"}
      BY <2>1, <2>2, <2>4
    <3>6. \A i \in Jobs \ used' : Unborn(i)' /\ \A q \in Requests : Scheduling(q)' => req'[q].job # i
      BY <2>4, <3>1, <3>3 DEF BirthInv
    <3>7. ASSUME NEW q \in Requests, Scheduling(q)', NEW i \in Jobs, req'[q].job = i PROVE Unborn(i)'
      <4>1. Unborn(i)
        BY <2>4, <3>2, <3>3, <3>7 DEF BirthInv
      <4> QED BY <3>1, <4>1
    <3>8. \A p, q \in Requests :
            Scheduling(p)' /\ Scheduling(q)' /\ req'[p].job = req'[q].job => p = q
      BY <2>4, <3>2, <3>3 DEF BirthInv
    <3> QED BY <1>0, <3>5, <3>6, <3>7, <3>8
  <2> QED BY <1>2, <2>3, <2>4, RequestFresh
<1>3. CASE Crash
  <2>1. used' = used /\ \A r \in Requests : req'[r].pc \in {"new", "done"}
    BY <1>3 DEF Crash, TypeInv, TypeOK
  <2> QED BY <1>1, <2>1 DEF Scheduling
<1>4. CASE \/ CheckerStep \/ MainStep \/ Stop \/ UNCHANGED vars
           \/ (\E f \in Futures : ExecStep(f)) \/ (\E j \in Jobs : TimePasses(j))
  <2>1. UNCHANGED <<used, req>>
    BY <1>4, CheckerMoves, MainMoves, ExecMoves DEF Stop, TimePasses, vars
  <2> QED BY <1>1, <2>1 DEF BirthInv, Scheduling
<1> QED BY <1>2, <1>3, <1>4 DEF Next

\* A job that is QUEUED has no live execution after a step either.
LEMMA QueuedStep ==
    ASSUME TypeInv, WritersInv, RunsInv, [Next]_vars
    PROVE  QueuedIsIdle'
<1> USE DEF RunsInv
<1>1. ASSUME NEW f \in Futures, Live(f)', jobs'[exec'[f].job] # NoRow
      PROVE  jobs'[exec'[f].job].state # "QUEUED"
  <2> DEFINE j == exec'[f].job
  <2>1. CASE exec[f].pc # "free" /\ j = exec[f].job /\ Live(f)
    <3> SUFFICES ASSUME jobs'[j].state = "QUEUED" PROVE FALSE
      OBVIOUS
    <3>1. j \in Jobs
      BY <2>1 DEF TypeInv, ExecShape
    <3>2. ~(Exists(j) /\ jobs[j].state = "QUEUED")
      BY <2>1 DEF QueuedIsIdle
    <3>3. main.pc # "markQueued"
      BY <2>1 DEF TypeInv, MainShape
    <3>4. PICK a \in Actors : Merging(a, j)
      BY <1>1, <3>1, <3>2, <3>3, RowsAppear
    <3>5. CASE a \in Futures
      <4>1. Live(a) /\ exec[a].job = j /\ exec'[a].pc = "over"
        BY <3>4, <3>5, DistinctValues DEF Merging, Live
      <4>2. a = f
        BY <2>1, <3>5, <4>1 DEF NoConcurrentRuns
      <4> QED BY <1>1, <4>1, <4>2 DEF Live
    <3>6. CASE a \in Requests
      <4>1. Scheduling(a) /\ req[a].job = j
        BY <3>4, <3>6, DistinctValues DEF Merging, Scheduling
      <4>2. Unborn(j)
        BY <3>6, <4>1 DEF BirthInv
      <4> QED BY <2>1, <4>2 DEF Unborn
    <3> QED BY <3>4, <3>5, <3>6 DEF Merging
  <2>2. CASE CheckerStep /\ chk.pc = "select" /\ chk.job \in Jobs /\ j = chk.job
    <3> DEFINE t == txn[Checker]
    <3>1. /\ t # NoTxn /\ t.new = Selected(t.loaded) /\ t.job = j /\ t.loaded # NoRow
          /\ t.loaded.state = "QUEUED"
      BY <2>2 DEF TypeInv, CheckerShape, QueuedIsIdle
    <3>2. t.loaded \in Row
      BY <3>1 DEF TypeInv, TypeOK, Txn, Actors
    <3>3. t.new.state = "SELECTED"
      BY <3>1, <3>2 DEF Selected, Row
    <3>4. Commits(Checker)
      BY <2>2, <3>1 DEF CheckerStep, CheckerLoad, CheckerNone, CheckerStart, CheckerScan,
                        CheckerCancel, CheckerMark, CheckerLoopEnds, CheckerWakes, Commits
    <3>5. jobs'[j].state = "SELECTED"
      BY <1>1, <3>1, <3>3, <3>4, CommitState DEF Actors
    <3> QED BY <3>5
  <2>3. exec'[f].pc # "free"
    BY <1>1 DEF Live
  <2> QED BY <1>1, <2>1, <2>2, <2>3, LiveMoves
<1>2. ASSUME chk'.pc = "select"
      PROVE  /\ txn'[Checker].loaded.state = "QUEUED"
             /\ \A f \in Futures : Live(f)' => chk'.job # exec'[f].job
  <2>1. CASE CheckerStep
    <3>1. /\ UNCHANGED <<jobs, exec>> /\ Exists(chk'.job) /\ jobs[chk'.job].state = "QUEUED"
          /\ txn'[Checker].loaded.state = "QUEUED"
      BY <1>2, <2>1, CheckerPicks
    <3> QED BY <3>1 DEF QueuedIsIdle, Live
  <2>2. CASE ~CheckerStep
    <3>1. chk' = chk /\ txn'[Checker] = txn[Checker]
      BY <1>2, <2>2, CheckerLeftAlone
    <3>2. \A f \in Futures : Live(f)' => Live(f) /\ exec'[f].job = exec[f].job
      BY <2>2, LiveMoves DEF Live
    <3> QED BY <1>2, <3>1, <3>2 DEF QueuedIsIdle
  <2> QED BY <2>1, <2>2
<1> QED BY <1>1, <1>2 DEF QueuedIsIdle, Exists

\* No step makes a second execution of a job live.
LEMMA AloneStep ==
    ASSUME TypeInv, RunsInv, [Next]_vars
    PROVE  NoConcurrentRuns'
<1> SUFFICES ASSUME NEW f \in Futures, NEW g \in Futures, f # g, Live(f)', Live(g)',
                    exec'[f].job = exec'[g].job
             PROVE  FALSE
  BY DEF NoConcurrentRuns
<1>1. exec'[f].pc # "free" /\ exec'[g].pc # "free"
  BY DEF Live
<1>2. ASSUME NEW h \in Futures, NEW i \in Futures, h # i, Live(i)', exec'[h].job = exec'[i].job,
             chk.pc = "select", exec'[h].job = chk.job,
             \A k \in Futures \ {h} : exec'[k] = exec[k]
      PROVE  FALSE
  <2>1. Live(i) /\ exec[i].job = chk.job
    BY <1>2 DEF Live
  <2> QED BY <1>2, <2>1 DEF RunsInv, QueuedIsIdle
<1>3. Live(f) /\ exec'[f].job = exec[f].job
  BY <1>1, <1>2, LiveMoves
<1>4. Live(g) /\ exec'[g].job = exec[g].job
  BY <1>1, <1>2, LiveMoves
<1> QED BY <1>3, <1>4 DEF RunsInv, NoConcurrentRuns

\* RunsInv holds at the start.
LEMMA RunsInit == Init => RunsInv
<1> SUFFICES ASSUME Init PROVE RunsInv
  OBVIOUS
<1>1. /\ \A f \in Futures : exec[f].pc = "free"
      /\ \A r \in Requests : req[r].pc = "new"
      /\ chk.pc = "off" /\ jobs = [j \in Jobs |-> NoRow]
  BY FreeExecType DEF Init, IdleChecker, NewRequest
<1>2. BirthInv
  BY <1>1 DEF BirthInv, Unborn, Scheduling, Exists
<1>3. QueuedIsIdle /\ NoConcurrentRuns
  BY <1>1 DEF QueuedIsIdle, NoConcurrentRuns, Live
<1> QED BY <1>2, <1>3 DEF RunsInv

\* As long as job ids are fresh and jobs are neither updated nor restarted,
\* whatever the number of jobs, workers, requests and crashes, a job never has
\* two live executions.  (The run on fixed ids shows that the condition is
\* needed.)
THEOREM RunsAlone ==
    ASSUME FreshIdsOnly
    PROVE  Spec => []NoConcurrentRuns
<1>1. TypeInv /\ WritersInv /\ RunsInv /\ [Next]_vars => RunsInv'
  BY BirthStep, QueuedStep, AloneStep DEF RunsInv
<1>2. RunsInv => NoConcurrentRuns
  BY DEF RunsInv
<1> QED BY <1>1, <1>2, RunsInit, WritersInit, WritersStep, TypesHold, PTL DEF Spec

-----------------------------------------------------------------------------
(* RegularLeavesRoomForHigh.                                               *)

\* Nobody but an execution itself brings it to its end.
LEMMA OverMoves ==
    ASSUME TypeInv, [Next]_vars, NEW f \in Futures, exec'[f].pc = "over"
    PROVE  \/ exec'[f] = exec[f]
           \/ ExecStep(f) /\ Live(f) /\ exec'[f].job = exec[f].job
<1>1. \A g \in Futures : exec[g].job \in Jobs /\ Untrack(g) =>
        exec'[g].pc = "free" /\ \A h \in Futures \ {g} : exec'[h] = exec[h]
  BY UntrackType DEF TypeInv
<1>2. CASE CheckerStep
  BY <1>1, <1>2, CheckerMoves
<1>3. ASSUME NEW g \in Futures, ExecStep(g)
      PROVE  exec'[f] = exec[f] \/ (ExecStep(f) /\ Live(f) /\ exec'[f].job = exec[f].job)
  BY <1>1, <1>3, ExecMoves DEF Live
<1>4. CASE MainStep
  BY <1>1, <1>4, MainMoves
<1>5. ASSUME NEW r \in Requests, RequestBegins(r) \/ RequestStep(r) PROVE exec'[f] = exec[f]
  BY <1>5, RequestTable
<1>6. CASE Crash
  BY <1>6, FreeExecType DEF Crash
<1>7. CASE Stop \/ (\E j \in Jobs : TimePasses(j)) \/ UNCHANGED vars
  BY <1>7 DEF Stop, TimePasses, vars
<1> QED BY <1>2, <1>3, <1>4, <1>5, <1>6, <1>7 DEF Next

\* A commit makes its own job due, if it writes the present time, and no other;
\* a later time takes the job out of those that are due.
LEMMA CommitAgenda ==
    ASSUME TypeInv, NEW a \in Actors, Commits(a)
    PROVE  /\ \A j \in Jobs : ~IsDue(j) /\ <<j, j>> \in agenda' => txn[a].time = "now" /\ j = txn[a].job
           /\ txn[a].time = "later" /\ Applies(jobs[txn[a].job], txn[a])
                => <<txn[a].job, txn[a].job>> \notin agenda'
<1> DEFINE t == txn[a]
<1>1. agenda' = IF t.time = "keep" \/ ~Applies(jobs[t.job], t) THEN agenda
                ELSE Without({t.job}) \cup (IF t.time = "now" THEN AtTheEnd(t.job) ELSE {})
  BY DEF Commits, Commit
<1>2. t.job \in Jobs /\ t.time \in Times
  BY DEF Commits, TypeInv, TypeOK, Txn
<1>3. \A j \in Jobs : <<j, j>> \in Without({t.job}) => IsDue(j) /\ j # t.job
  BY DEF Without, IsDue
<1>4. \A j \in Jobs : <<j, j>> \in AtTheEnd(t.job) => j = t.job
  BY DEF AtTheEnd
<1> HIDE DEF t
<1>5. ASSUME NEW j \in Jobs, ~IsDue(j), <<j, j>> \in agenda' PROVE t.time = "now" /\ j = t.job
  BY <1>1, <1>3, <1>4, <1>5 DEF IsDue
<1>6. ASSUME t.time = "later", Applies(jobs[t.job], t) PROVE <<t.job, t.job>> \notin agenda'
  BY <1>1, <1>2, <1>3, <1>6
<1> QED BY <1>5, <1>6 DEF t

\* The table of times grows only by a commit and by the clock.
LEMMA AgendaMoves ==
    ASSUME TypeInv, [Next]_vars
    PROVE  \/ agenda' \subseteq agenda
           \/ \E a \in Actors : Commits(a)
           \/ \E j \in Jobs : TimePasses(j)
<1> USE DEF TypeInv
<1>1. CASE CheckerStep
  <2>1. agenda' = agenda \/ Commits(Checker)
    BY <1>1 DEF CheckerStep, CheckerLoad, CheckerNone, CheckerStart, CheckerScan, CheckerCancel,
                CheckerMark, CheckerLoopEnds, CheckerWakes, CheckerShape, Commits
  <2> QED BY <2>1 DEF Actors
<1>2. CASE MainStep
  <2>1. agenda' = agenda \/ Commits(Main)
    BY <1>2 DEF MainStep, Start, MainNext, MainUp, MainJoined, MainMark, MainDrop, MainDown, Commits
  <2> QED BY <2>1 DEF Actors
<1>3. ASSUME NEW f \in Futures, ExecStep(f) PROVE agenda' = agenda \/ Commits(f)
  BY <1>3 DEF ExecStep, ExecTake, ExecGetJob, ExecLoad, ExecCommit, ExecSkipUpdate, ExecCheck,
              FuncPolls, FuncActs, FuncReturns, ExecReschedule, ExecSchedule, ExecCallback, Commits
<1>4. ASSUME NEW r \in Requests, RequestBegins(r) \/ RequestStep(r)
      PROVE  agenda' \subseteq agenda \/ Commits(r)
  <2>1. \A js, force : Delete(js, force) => agenda' \subseteq agenda
    BY DEF Delete, Without
  <2> QED BY <1>4, <2>1 DEF RequestBegins, RequestStep, RequestEnqueue, RequestUpdate, RequestView,
                RequestClearAll, RequestCancel, RequestDelete, RequestRestart, RequestClearFirst,
                RequestSchedule, RequestLoad, RequestCommit, Commits
<1>5. CASE Crash \/ Stop \/ UNCHANGED vars
  BY <1>5 DEF Crash, Stop, vars
<1> QED BY <1>1, <1>2, <1>3, <1>4, <1>5 DEF Next, Actors

\* A job becomes due with the clock or when a request merges its row.
LEMMA DueMoves ==
    ASSUME TypeInv, DelaysInv, [Next]_vars, NEW j \in Jobs, ~IsDue(j), <<j, j>> \in agenda'
    PROVE  \/ TimePasses(j)
           \/ \E r \in Requests : Scheduling(r) /\ req[r].job = j
<1>1. ASSUME NEW a \in Actors, Commits(a)
      PROVE  txn[a] # NoTxn /\ txn[a].time = "now" /\ txn[a].job = j
  BY <1>1, CommitAgenda DEF Commits
<1>2. ~Commits(Checker) /\ ~Commits(Main) /\ \A f \in Futures : ~Commits(f)
  BY <1>1 DEF DelaysInv, Actors
<1>3. ASSUME NEW r \in Requests, Commits(r) PROVE Scheduling(r) /\ req[r].job = j
  <2>1. txn[r] # NoTxn /\ txn[r].time = "now" /\ txn[r].job = j
    BY <1>1, <1>3 DEF Actors
  <2> QED BY <2>1 DEF DelaysInv, Scheduling, TypeInv, RequestShape
<1>4. ASSUME NEW i \in Jobs, TimePasses(i) PROVE TimePasses(j)
  <2>1. <<j, j>> \in AtTheEnd(i)
    BY <1>4 DEF TimePasses, IsDue
  <2>2. i = j
    BY <2>1 DEF AtTheEnd
  <2> QED BY <1>4, <2>2
<1>5. ~(agenda' \subseteq agenda)
  BY DEF IsDue
<1> QED BY <1>2, <1>3, <1>4, <1>5, AgendaMoves DEF Actors

\* A row that a commit leaves has the retry interval that was there or was written.
LEMMA FlushRetry ==
    ASSUME NEW cur \in Row \cup {NoRow}, NEW t \in Txn, Flush(cur, t) # NoRow
    PROVE  \/ cur # NoRow /\ Flush(cur, t).retry = cur.retry
           \/ Flush(cur, t).retry = t.new.retry
BY DEF Flush, WriteBack

\* How a step can move rows and transactions: it opens, it commits or it drops.
LEMMA TableMoves ==
    ASSUME TypeInv, [Next]_vars
    PROVE  \/ /\ \A j \in Jobs : jobs'[j] = jobs[j] \/ jobs'[j] = NoRow
              /\ \A a \in Actors : txn'[a] = txn[a] \/ txn'[a] = NoTxn
           \/ \E a \in Actors : Commits(a)
           \/ \E a \in Actors :
                /\ Opens(a)
                /\ \/ txn'[a].loaded # NoRow /\ txn'[a].new.retry = txn'[a].loaded.retry
                   \/ a \in Futures /\ exec[a].pc = "merge" /\ txn'[a].new = exec[a].next
                   \/ a \in Requests /\ req[a].pc = "merge" /\ txn'[a].new = req[a].next
<1>1. \A row \in Row : /\ Selected(row).retry = row.retry
                       /\ \A s \in States : Marked(row, s).retry = row.retry
  BY DEF Selected, Marked, Row
<1>2. \A a \in Actors : Opens(a) /\ txn'[a].loaded # NoRow => txn'[a].loaded \in Row
  BY DEF Opens, TypeInv, TypeOK
<1>3. Quiet => /\ \A j \in Jobs : jobs'[j] = jobs[j] \/ jobs'[j] = NoRow
               /\ \A a \in Actors : txn'[a] = txn[a] \/ txn'[a] = NoTxn
  BY DEF Quiet
<1>4. CASE CheckerStep
  <2>1. Opens(Checker) => txn'[Checker].loaded # NoRow \/ txn'[Checker].loaded.state = "QUEUED"
    BY <1>4, CheckerTable DEF Opens, Quiet, Commits
  <2>2. CASE Opens(Checker) /\ ~Quiet /\ ~Commits(Checker)
    <3>1. txn'[Checker].loaded # NoRow
      BY <1>4, <2>2, CheckerPicks, CheckerTable DEF Exists
    <3>2. txn'[Checker].new \in {Selected(txn'[Checker].loaded), Marked(txn'[Checker].loaded, "CANCELED")}
      BY <1>4, <2>2, CheckerTable
    <3>3. txn'[Checker].loaded \in Row
      BY <1>2, <2>2, <3>1 DEF Actors
    <3>4. txn'[Checker].new.retry = txn'[Checker].loaded.retry
      BY <1>1, <3>2, <3>3 DEF States, FinishedStates
    <3> QED BY <2>2, <3>1, <3>4 DEF Actors
  <2> QED BY <1>3, <1>4, <2>2, CheckerTable DEF Actors
<1>5. ASSUME NEW f \in Futures, ExecStep(f)
      PROVE  \/ Quiet \/ Commits(f)
             \/ /\ Opens(f)
                /\ \/ txn'[f].loaded # NoRow /\ txn'[f].new.retry = txn'[f].loaded.retry
                   \/ exec[f].pc = "merge" /\ txn'[f].new = exec[f].next
  <2>1. exec[f].outcome \in States /\ "RUNNING" \in States
    BY DEF TypeInv, TypeOK, ExecRecord, States, FinishedStates
  <2> QED BY <1>1, <1>2, <1>5, <2>1, ExecTable DEF Actors
<1>6. ASSUME NEW r \in Requests, RequestBegins(r) \/ RequestStep(r)
      PROVE  \/ UNCHANGED txn /\ \A j \in Jobs : jobs'[j] = jobs[j] \/ jobs'[j] = NoRow
             \/ Commits(r)
             \/ /\ Opens(r)
                /\ \/ txn'[r].loaded # NoRow /\ txn'[r].new.retry = txn'[r].loaded.retry
                   \/ req[r].pc = "merge" /\ txn'[r].new = req[r].next
  <2>1. "CANCELING" \in States
    BY DEF States
  <2> QED BY <1>1, <1>2, <1>6, <2>1, RequestTable DEF Actors, Quiet
<1>7. CASE MainStep
  <2>1. main.pc \in MarkPcs => MarkOf[main.pc] \in States
    BY DEF MarkPcs, MarkOf, States, FinishedStates
  <2> QED BY <1>1, <1>2, <1>3, <1>7, <2>1, MainTable DEF Actors
<1>8. CASE Crash
  BY <1>8 DEF Crash
<1>9. CASE Stop \/ (\E j \in Jobs : TimePasses(j)) \/ UNCHANGED vars
  BY <1>9 DEF Stop, TimePasses, vars
<1>10. ASSUME NEW f \in Futures, ExecStep(f)
       PROVE  \/ /\ \A j \in Jobs : jobs'[j] = jobs[j] \/ jobs'[j] = NoRow
                 /\ \A a \in Actors : txn'[a] = txn[a] \/ txn'[a] = NoTxn
              \/ \E a \in Actors : Commits(a)
              \/ \E a \in Actors :
                   /\ Opens(a)
                   /\ \/ txn'[a].loaded # NoRow /\ txn'[a].new.retry = txn'[a].loaded.retry
                      \/ a \in Futures /\ exec[a].pc = "merge" /\ txn'[a].new = exec[a].next
  BY <1>3, <1>5, <1>10 DEF Actors
<1>11. ASSUME NEW r \in Requests, RequestBegins(r) \/ RequestStep(r)
       PROVE  \/ /\ \A j \in Jobs : jobs'[j] = jobs[j] \/ jobs'[j] = NoRow
                 /\ \A a \in Actors : txn'[a] = txn[a] \/ txn'[a] = NoTxn
              \/ \E a \in Actors : Commits(a)
              \/ \E a \in Actors :
                   /\ Opens(a)
                   /\ \/ txn'[a].loaded # NoRow /\ txn'[a].new.retry = txn'[a].loaded.retry
                      \/ a \in Requests /\ req[a].pc = "merge" /\ txn'[a].new = req[a].next
  BY <1>6, <1>11 DEF Actors
<1> QED BY <1>4, <1>7, <1>8, <1>9, <1>10, <1>11 DEF Next

\* The row that an execution is to merge has the retry interval of its job.
LEMMA RetriesExec ==
    ASSUME TypeInv, RetriesInv, NEW f \in Futures, ExecStep(f),
           exec'[f].pc \in {"schedule", "merge"}
    PROVE  exec'[f].next.retry # "now"
<1> USE DEF TypeInv
<1>1. exec \in [Futures -> ExecRecord] /\ exec[f] \in ExecRecord
  BY DEF TypeOK
<1>2. exec[f].pc \in {"schedule", "merge"} => exec[f].next.retry # "now"
  BY DEF RetriesInv
<1>3. CASE ExecLoad(f)
  BY <1>2, <1>3 DEF ExecLoad
<1>4. CASE ExecSchedule(f)
  BY <1>1, <1>2, <1>4 DEF ExecSchedule, ExecRecord
<1>5. CASE ExecReschedule(f)
  <2> DEFINE j == exec[f].job
             new == Rescheduled(jobs[j], exec[f].delay, IF exec[f].lower THEN LOW ELSE jobs[j].priority)
             goesOn == Exists(j) /\ Finished(jobs[j]) /\ MustReschedule(jobs[j], exec[f].delay)
             time == RescheduleTime(jobs[j], exec[f].delay)
  <2>1. new.retry = jobs[j].retry
    BY DEF Rescheduled, Scheduled
  <2>2. goesOn => jobs[j].retry # "now"
    BY <1>5 DEF RetriesInv, ExecReschedule, ExecShape
  <2>3. exec' = [exec EXCEPT ![f] =
          IF goesOn THEN [@ EXCEPT !.pc = "schedule", !.delay = time, !.next = new]
                    ELSE [@ EXCEPT !.pc = "over"]]
    BY <1>5 DEF ExecReschedule
  <2> HIDE DEF new, goesOn, time
  <2> QED BY <1>1, <2>1, <2>2, <2>3 DEF ExecRecord
<1>6. CASE ExecCommit(f) \/ ExecSkipUpdate(f)
  <2>1. exec[f].pc \in UpdatePcs /\ exec' = [exec EXCEPT ![f].pc = After[@]]
    BY <1>6 DEF ExecCommit, ExecSkipUpdate, ExecShape, UpdatePcs
  <2> QED BY <1>1, <2>1 DEF After, UpdatePcs, ExecRecord
<1>7. CASE ExecTake(f)
  BY <1>1, <1>7 DEF ExecTake
<1>8. CASE ExecGetJob(f)
  <2> DEFINE c == jobs[exec[f].job].saved.cancellable
  <2>1. \/ exec' = [exec EXCEPT ![f] = [@ EXCEPT !.pc = "markRunning", !.cancellable = c]]
        \/ exec' = [exec EXCEPT ![f] = [@ EXCEPT !.pc = "over"]]
    BY <1>8 DEF ExecGetJob
  <2> HIDE DEF c
  <2> QED BY <1>1, <2>1 DEF ExecRecord
<1>9. CASE ExecCheck(f) \/ FuncPolls(f) \/ FuncReturns(f)
  <2>1. (\E s \in FinishedStates : Ends(f, s)) \/ exec' = [exec EXCEPT ![f].pc = "func"]
    BY <1>9 DEF ExecCheck, FuncPolls, FuncReturns, FinishedStates
  <2> QED BY <1>1, <2>1 DEF Ends, ExecRecord
<1>10. CASE FuncActs(f)
  BY <1>1, <1>10 DEF FuncActs, ExecRecord
<1>11. CASE ExecCallback(f)
  BY <1>1, <1>11, FreeExecType DEF ExecCallback, Untrack
<1> QED BY <1>3, <1>4, <1>5, <1>6, <1>7, <1>8, <1>9, <1>10, <1>11 DEF ExecStep

\* The row that a request is to merge has that of its arguments, or none.
LEMMA RetriesRequest ==
    ASSUME NoRetryAtOnce, TypeInv, RetriesInv, NEW r \in Requests, RequestBegins(r) \/ RequestStep(r),
           req'[r].pc \in {"clearFirst", "schedule", "merge"}
    PROVE  req'[r].next.retry # "now"
<1> USE DEF TypeInv
<1>1. req \in [Requests -> RequestRecord]
  BY DEF TypeOK, RequestRecord
<1>2. \A c, p, n, y : Scheduled(c, p, n, y).retry = y
  BY DEF Scheduled
<1>3. ASSUME NEW j \in Jobs, NEW k \in Kinds, RequestEnqueue(r, j, k) \/ RequestUpdate(r, j, k)
      PROVE  req'[r].next.retry # "now"
  <2>1. k.retry # "now"
    BY DEF NoRetryAtOnce
  <2>2. \E row, time : row.retry = k.retry /\
          req' = [req EXCEPT ![r] = [pc |-> "schedule", job |-> j, time |-> time, next |-> row]]
    BY <1>2, <1>3 DEF RequestEnqueue, RequestUpdate
  <2> QED BY <1>1, <2>1, <2>2
<1>4. CASE RequestRestart(r)
  <2> DEFINE j == req[r].job
             row == Scheduled(jobs[j].saved.cancellable, jobs[j].priority, 0, "none")
  <2>1. row.retry = "none"
    BY DEF Scheduled
  <2>2. \/ Goes(r, "done")
        \/ req' = [req EXCEPT ![r] = [pc |-> "clearFirst", job |-> j, time |-> "now", next |-> row]]
    BY <1>4 DEF RequestRestart, Goes
  <2> HIDE DEF row
  <2> QED BY <1>1, <2>1, <2>2 DEF Goes, RequestRecord
<1>5. CASE RequestClearFirst(r) \/ RequestSchedule(r)
  <2>1. req[r].pc \in {"clearFirst", "schedule"} /\ \E pc : Goes(r, pc)
    BY <1>5 DEF RequestClearFirst, RequestSchedule
  <2>2. req[r].next.retry # "now"
    BY <2>1 DEF RetriesInv
  <2> QED BY <1>1, <2>1, <2>2 DEF Goes, RequestRecord
<1>6. CASE RequestLoad(r)
  <2>1. req' = req \/ Goes(r, "done")
    BY <1>6 DEF RequestLoad
  <2> QED BY <1>1, <2>1 DEF Goes, RequestRecord, RetriesInv
<1>7. CASE RequestCancel(r) \/ RequestDelete(r) \/ RequestCommit(r) \/ RequestClearAll(r)
  BY <1>1, <1>7 DEF RequestCancel, RequestDelete, RequestCommit, RequestClearAll, Goes, RequestRecord
<1>8. ASSUME NEW j \in Jobs, NEW op \in ViewOps, RequestView(r, j, op) PROVE FALSE
  <2>1. req'[r].pc \in ViewOps
    BY <1>1, <1>8 DEF RequestView, NewRequest, ViewOps
  <2> QED BY <2>1 DEF ViewOps
<1> QED BY <1>3, <1>4, <1>5, <1>6, <1>7, <1>8 DEF RequestBegins, RequestStep

\* What executions and requests are to merge after a step.
LEMMA RetriesNext ==
    ASSUME NoRetryAtOnce, TypeInv, RetriesInv, [Next]_vars
    PROVE  /\ \A r \in Requests :
                req'[r].pc \in {"clearFirst", "schedule", "merge"} => req'[r].next.retry # "now"
           /\ \A f \in Futures :
                exec'[f].pc \in {"schedule", "merge"} => exec'[f].next.retry # "now"
<1>1. ASSUME NEW f \in Futures, exec'[f].pc \in {"schedule", "merge"} PROVE exec'[f].next.retry # "now"
  <2>1. \A g \in Futures : exec[g].job \in Jobs /\ Untrack(g) =>
          exec'[g].pc = "free" /\ \A h \in Futures \ {g} : exec'[h] = exec[h]
    BY UntrackType DEF TypeInv
  <2>2. CASE exec'[f] = exec[f]
    BY <1>1, <2>2 DEF RetriesInv
  <2>3. CASE ExecStep(f)
    BY <1>1, <2>3, RetriesExec
  <2>4. ASSUME NEW g \in Futures, ExecStep(g) PROVE f = g \/ exec'[f] = exec[f]
    BY <2>4, ExecMoves
  <2>5. CASE CheckerStep \/ MainStep
    <3>1. exec'[f] = exec[f] \/ exec'[f].pc \in {"free", "pending"}
      BY <2>1, <2>5, CheckerMoves, MainMoves
    <3> QED BY <1>1, <2>2, <3>1
  <2>6. ~Crash
    BY <1>1, FreeExecType DEF Crash
  <2>7. ASSUME NEW r \in Requests, RequestBegins(r) \/ RequestStep(r) PROVE exec'[f] = exec[f]
    BY <2>7, RequestTable
  <2>8. CASE Stop \/ (\E j \in Jobs : TimePasses(j)) \/ UNCHANGED vars
    BY <2>2, <2>8 DEF Stop, TimePasses, vars
  <2> QED BY <2>2, <2>3, <2>4, <2>5, <2>6, <2>7, <2>8 DEF Next
<1>2. ASSUME NEW r \in Requests, req'[r].pc \in {"clearFirst", "schedule", "merge"}
      PROVE  req'[r].next.retry # "now"
  <2>1. CASE req'[r] = req[r]
    BY <1>2, <2>1 DEF RetriesInv
  <2>2. CASE RequestBegins(r) \/ RequestStep(r)
    BY <1>2, <2>2, RetriesRequest
  <2>3. ASSUME NEW p \in Requests, RequestBegins(p) \/ RequestStep(p) PROVE p = r \/ req'[r] = req[r]
    BY <2>3, RequestTable
  <2>4. CASE CheckerStep \/ MainStep \/ Stop \/ (\E j \in Jobs : TimePasses(j)) \/ UNCHANGED vars
    BY <2>1, <2>4, CheckerMoves, MainMoves DEF Stop, TimePasses, vars
  <2>5. ASSUME NEW f \in Futures, ExecStep(f) PROVE req' = req
    BY <2>5, ExecMoves
  <2>6. CASE Crash
    <3>1. req \in [Requests -> RequestRecord]
      BY DEF TypeInv, TypeOK, RequestRecord
    <3>2. req'[r] = IF req[r].pc = "new" THEN req[r] ELSE [req[r] EXCEPT !.pc = "done"]
      BY <2>6 DEF Crash
    <3> QED BY <1>2, <3>1, <3>2 DEF RequestRecord
  <2> QED BY <2>1, <2>2, <2>3, <2>4, <2>5, <2>6 DEF Next
<1> QED BY <1>1, <1>2

LEMMA RetriesInit == Init => RetriesInv
<1> SUFFICES ASSUME Init PROVE RetriesInv
  OBVIOUS
<1>1. /\ \A j \in Jobs : ~Exists(j)
      /\ \A a \in Actors : txn[a] = NoTxn
      /\ \A f \in Futures : exec[f].pc = "free"
      /\ \A r \in Requests : req[r].pc = "new"
  BY FreeExecType DEF Init, NewRequest, Exists
<1> QED BY <1>1 DEF RetriesInv

\* Every step keeps RetriesInv.
LEMMA RetriesStep ==
    ASSUME NoRetryAtOnce, TypeInv, RetriesInv, [Next]_vars
    PROVE  RetriesInv'
<1>1. CASE /\ \A j \in Jobs : jobs'[j] = jobs[j] \/ jobs'[j] = NoRow
           /\ \A a \in Actors : txn'[a] = txn[a] \/ txn'[a] = NoTxn
  <2>1. \A j \in Jobs : jobs'[j] # NoRow => jobs'[j].retry # "now"
    BY <1>1 DEF RetriesInv, Exists
  <2> QED BY <1>1, <2>1, RetriesNext DEF RetriesInv, Exists
<1>2. ASSUME NEW a \in Actors, Commits(a) PROVE RetriesInv'
  <2>1. \A b \in Actors : txn'[b] = txn[b] \/ txn'[b] = NoTxn
    BY <1>2, CommitType DEF Commits, TypeInv
  <2>2. txn[a] \in Txn /\ txn[a].new.retry # "now" /\ jobs \in [Jobs -> Row \cup {NoRow}]
    BY <1>2 DEF Commits, TypeInv, TypeOK, RetriesInv
  <2>3. jobs' = [jobs EXCEPT ![txn[a].job] = Flush(@, txn[a])] /\ txn[a].job \in Jobs
    BY <1>2, <2>2 DEF Commits, Commit, Txn
  <2>4. ASSUME NEW j \in Jobs, jobs'[j] # NoRow PROVE jobs'[j].retry # "now"
    <3>1. CASE j = txn[a].job
      <4>1. jobs'[j] = Flush(jobs[j], txn[a])
        BY <2>2, <2>3, <3>1
      <4>2. jobs[j] # NoRow => jobs[j].retry # "now"
        BY DEF RetriesInv, Exists
      <4> QED BY <2>2, <2>4, <4>1, <4>2, FlushRetry
    <3>2. CASE j # txn[a].job
      BY <2>2, <2>3, <2>4, <3>2 DEF RetriesInv, Exists
    <3> QED BY <3>1, <3>2
  <2> QED BY <2>1, <2>4, RetriesNext DEF RetriesInv, Exists
<1>3. ASSUME NEW a \in Actors, Opens(a),
             \/ txn'[a].loaded # NoRow /\ txn'[a].new.retry = txn'[a].loaded.retry
             \/ a \in Futures /\ exec[a].pc = "merge" /\ txn'[a].new = exec[a].next
             \/ a \in Requests /\ req[a].pc = "merge" /\ txn'[a].new = req[a].next
      PROVE  RetriesInv'
  <2>1. jobs' = jobs /\ \A b \in Actors \ {a} : txn'[b] = txn[b]
    BY <1>3 DEF Opens
  <2>2. txn'[a].new.retry # "now"
    BY <1>3 DEF Opens, RetriesInv, Exists
  <2> QED BY <2>1, <2>2, RetriesNext DEF RetriesInv, Exists
<1> QED BY <1>1, <1>2, <1>3, TableMoves

\* Without retries at once, every step keeps DelaysInv.
LEMMA DelaysStep ==
    ASSUME "retryNow" \notin Body, \A j \in Jobs : Exists(j) => jobs[j].retry # "now",
           TypeInv, DelaysInv, [Next]_vars
    PROVE  DelaysInv'
<1>1. TypeOK /\ Checker \in Actors /\ Main \in Actors /\ Futures \subseteq Actors /\ Requests \subseteq Actors
  BY DEF TypeInv, Actors
<1>2. \A a \in Actors : Commits(a) => txn'[a] = NoTxn /\ \A b \in Actors \ {a} : txn'[b] = txn[b]
  BY <1>1, CommitType DEF Commits
<1>3. \A f \in Futures : exec[f].pc \in {"free", "pending"} => txn[f] = NoTxn
  BY DEF TypeInv, ExecShape, UpdatePcs
<1>4. FreeExec.delay = "none"
  BY DEF FreeExec
<1>5. \A f \in Futures : exec[f].job \in Jobs /\ Untrack(f) =>
        exec'[f].delay = "none" /\ \A g \in Futures \ {f} : exec'[g] = exec[g]
  BY <1>1, <1>4, UntrackType
<1>6. CASE CheckerStep
  <2>1. UNCHANGED <<req, main>>
    BY <1>6, CheckerMoves
  <2>2. /\ \A b \in Actors \ {Checker} : txn'[b] = txn[b]
        /\ txn'[Checker] = txn[Checker] \/ txn'[Checker] = NoTxn \/ txn'[Checker].time = "keep"
    BY <1>1, <1>2, <1>6, CheckerTable DEF Quiet, Opens
  <2>3. \A f \in Futures : exec'[f] = exec[f] \/ (txn[f] = NoTxn /\ exec'[f].delay = "none")
    BY <1>3, <1>5, <1>6, CheckerMoves
  <2> QED BY <2>1, <2>2, <2>3, DistinctValues DEF DelaysInv, Actors
<1>7. ASSUME NEW f \in Futures, ExecStep(f) PROVE DelaysInv'
  <2>1. /\ UNCHANGED <<req, main>> /\ \A g \in Futures \ {f} : exec'[g] = exec[g]
        /\ exec'[f].delay # "now"
    BY <1>7, ExecMoves DEF DelaysInv
  <2>2. \A b \in Actors \ {f} : txn'[b] = txn[b]
    BY <1>1, <1>2, <1>7, ExecTable DEF Quiet, Opens
  <2>3. txn'[f] # NoTxn =>
          /\ UNCHANGED exec
          /\ txn'[f].time = IF exec[f].pc # "merge" THEN "keep"
                            ELSE IF exec[f].delay = "now" THEN "now" ELSE "later"
    BY <1>1, <1>2, <1>7, ExecTable DEF Quiet
  <2>4. txn'[f] # NoTxn => txn'[f].time = IF exec'[f].pc = "merge" THEN "later" ELSE "keep"
    BY <2>3 DEF DelaysInv
  <2> QED BY <2>1, <2>2, <2>4, DistinctValues DEF DelaysInv, Actors
<1>8. ASSUME NEW r \in Requests, RequestBegins(r) \/ RequestStep(r) PROVE DelaysInv'
  <2>1. UNCHANGED <<exec, main>> /\ \A p \in Requests \ {r} : req'[p] = req[p]
    BY <1>8, RequestTable
  <2>2. \A b \in Actors \ {r} : txn'[b] = txn[b]
    BY <1>1, <1>2, <1>8, RequestTable DEF Quiet, Opens
  <2>3. txn'[r] # NoTxn /\ txn'[r].time # "keep" => req'[r].pc = "merge"
    BY <1>1, <1>2, <1>8, RequestTable DEF Quiet
  <2> QED BY <2>1, <2>2, <2>3, DistinctValues DEF DelaysInv, Actors
<1>9. CASE MainStep
  <2>1. UNCHANGED req
    BY <1>9, MainMoves
  <2>2. /\ \A b \in Actors \ {Main} : txn'[b] = txn[b]
        /\ txn'[Main] = NoTxn \/ txn'[Main].time = "keep"
    BY <1>1, <1>2, <1>9, MainTable DEF Quiet, Opens
  <2>3. \A f \in Futures : exec'[f] = exec[f] \/ (txn[f] = NoTxn /\ exec'[f].delay = "none")
    BY <1>3, <1>5, <1>9, MainMoves
  <2> QED BY <2>1, <2>2, <2>3, DistinctValues DEF DelaysInv, Actors
<1>10. CASE Crash
  <2>1. \A a \in Actors : txn'[a] = NoTxn
    BY <1>10 DEF Crash
  <2>2. \A f \in Futures : exec'[f].delay = "none"
    BY <1>4, <1>10 DEF Crash
  <2> QED BY <1>1, <2>1, <2>2 DEF DelaysInv
<1>11. CASE Stop \/ (\E j \in Jobs : TimePasses(j)) \/ UNCHANGED vars
  <2>1. UNCHANGED <<txn, exec, req>>
    BY <1>11 DEF Stop, TimePasses, vars
  <2> QED BY <2>1 DEF DelaysInv
<1> QED BY <1>6, <1>7, <1>8, <1>9, <1>10, <1>11 DEF Next

\* The row of a job that ends is not queued for the present: what its execution
\* merges is for later, and nobody else queues the job before its callback.
LEMMA OverStep ==
    ASSUME FreshIdsOnly, TypeInv, WritersInv, RunsInv, DelaysInv, TrackedInv, OverIsLater, [Next]_vars
    PROVE  OverIsLater'
<1> USE DEF RunsInv
<1>1. ASSUME NEW f \in Futures, exec'[f].pc = "over", NEW j \in Jobs, exec'[f].job = j,
             jobs'[j] # NoRow, jobs'[j].state = "QUEUED", <<j, j>> \in agenda'
      PROVE  FALSE
  <2>1. exec[f].pc # "free" /\ exec[f].job = j
    BY <1>1, OverMoves DEF Live
  <2>2. \A r \in Requests : Scheduling(r) => req[r].job # j
    BY <2>1 DEF BirthInv, Unborn
  <2>3. CASE exec'[f] = exec[f]
    <3>1. ~(Exists(j) /\ jobs[j].state = "QUEUED") \/ ~IsDue(j)
      BY <1>1, <2>1, <2>3 DEF OverIsLater
    <3>2. CASE ~(Exists(j) /\ jobs[j].state = "QUEUED")
      <4>1. main.pc # "markQueued"
        BY <2>1 DEF TypeInv, MainShape
      <4>2. PICK a \in Actors : Merging(a, j)
        BY <1>1, <3>2, <4>1, RowsAppear
      <4>3. a \in Futures /\ exec[a].pc = "merge" /\ exec[a].job = j
        BY <2>2, <4>2 DEF Merging, Scheduling
      <4>4. a = f
        BY <2>1, <4>3 DEF TrackedInv
      <4> QED BY <1>1, <2>3, <4>3, <4>4
    <3>3. CASE ~IsDue(j)
      <4>1. TimePasses(j)
        BY <1>1, <2>2, <3>3, DueMoves
      <4> QED BY <1>1, <2>1, <2>3, <4>1 DEF TimePasses
    <3> QED BY <3>1, <3>2, <3>3
  <2>4. CASE ExecStep(f) /\ Live(f)
    <3>1. ~(Exists(j) /\ jobs[j].state = "QUEUED")
      BY <2>1, <2>4 DEF QueuedIsIdle
    <3>2. Commits(f) /\ exec' = [exec EXCEPT ![f].pc = After[@]]
      BY <1>1, <2>4, <3>1, ExecTable DEF Quiet, Opens, Exists
    <3>3. txn[f] # NoTxn /\ txn[f].job = j /\ exec[f].pc \in UpdatePcs
      BY <2>1, <3>2 DEF Commits, TypeInv, ExecShape
    <3>4. exec[f].pc = "merge"
      BY <1>1, <3>2, <3>3 DEF After, UpdatePcs, TypeInv, TypeOK, ExecRecord
    <3>5. txn[f].time = "later"
      BY <3>3, <3>4 DEF DelaysInv
    <3>6. ~Applies(jobs[j], txn[f])
      BY <1>1, <3>2, <3>3, <3>5, CommitAgenda DEF Actors
    <3>7. jobs'[j] = jobs[j]
      <4>1. jobs'[j] = Flush(jobs[j], txn[f])
        BY <3>2, <3>3, CommitType DEF Commits, Actors, TypeInv
      <4> QED BY <3>6, <4>1 DEF Flush
    <3> QED BY <1>1, <3>1, <3>7 DEF Exists
  <2> QED BY <1>1, <2>3, <2>4, OverMoves
<1>2. ASSUME chk'.pc = "select", NEW f \in Futures, exec'[f].pc # "free"
      PROVE  exec'[f].job # chk'.job
  <2>1. CASE CheckerStep
    <3>1. /\ UNCHANGED exec /\ Exists(chk'.job) /\ jobs[chk'.job].state = "QUEUED"
          /\ IsDue(chk'.job)
      BY <1>2, <2>1, CheckerPicks
    <3>2. CASE Live(f)
      BY <3>1, <3>2 DEF QueuedIsIdle
    <3>3. CASE exec[f].pc = "over"
      BY <3>1, <3>3 DEF OverIsLater
    <3> QED BY <1>2, <3>1, <3>2, <3>3 DEF Live
  <2>2. CASE ~CheckerStep
    <3>1. chk' = chk
      BY <1>2, <2>2, CheckerLeftAlone
    <3>2. exec[f].pc # "free" /\ exec'[f].job = exec[f].job
      BY <1>2, <2>2, LiveMoves
    <3> QED BY <1>2, <3>1, <3>2 DEF OverIsLater
  <2> QED BY <2>1, <2>2
<1>3. \A f \in Futures : exec'[f].pc = "over" => exec'[f].job \in Jobs
  BY OverMoves DEF TypeInv, ExecShape, Live
<1> QED BY <1>1, <1>2, <1>3 DEF OverIsLater, Exists, IsDue

\* Every step keeps an execution in future_job_mapping until its callback.
LEMMA TrackedStep ==
    ASSUME TypeInv, OverIsLater, TrackedInv, [Next]_vars
    PROVE  TrackedInv'
<1>1. TypeOK /\ fjm \in [Jobs -> Futures \cup {NoFuture}]
  BY DEF TypeInv, TypeOK
<1>2. CASE UNCHANGED <<exec, fjm>>
  BY <1>2 DEF TrackedInv
<1>3. ASSUME NEW f \in Futures, exec[f].job \in Jobs, exec[f].pc # "free", Untrack(f) PROVE TrackedInv'
  <2>1. \A g \in Futures \ {f} : exec[g].pc # "free" => exec[g].job \in Jobs \ {exec[f].job}
    BY <1>3 DEF TrackedInv, TypeInv, ExecShape
  <2> QED BY <1>1, <1>3, <2>1, UntrackType DEF TrackedInv
<1>4. CASE CheckerStep
  <2>1. ASSUME NEW f \in Futures, chk.pc = "select", chk.job \in Jobs, exec[f].pc = "free",
               exec'[f].pc = "pending", exec'[f].job = chk.job,
               \A g \in Futures \ {f} : exec'[g] = exec[g],
               fjm' = [fjm EXCEPT ![chk.job] = f]
        PROVE  TrackedInv'
    <3>1. \A g \in Futures : exec[g].pc # "free" => exec[g].job \in Jobs \ {chk.job}
      BY <2>1 DEF OverIsLater, TypeInv, ExecShape
    <3> QED BY <1>1, <2>1, <3>1 DEF TrackedInv
  <2> QED BY <1>2, <1>3, <1>4, <2>1, CheckerMoves
<1>5. ASSUME NEW f \in Futures, ExecStep(f) PROVE TrackedInv'
  <2>1. CASE exec[f].pc = "over"
    BY <1>3, <1>5, <2>1, ExecMoves
  <2>2. CASE exec[f].pc # "over"
    <3>1. fjm' = fjm /\ \A g \in Futures : exec'[g].pc # "free" =>
                          exec[g].pc # "free" /\ exec'[g].job = exec[g].job
      BY <1>5, <2>2, ExecMoves
    <3> QED BY <3>1 DEF TrackedInv
  <2> QED BY <2>1, <2>2
<1>6. ASSUME NEW r \in Requests, RequestBegins(r) \/ RequestStep(r) PROVE TrackedInv'
  BY <1>2, <1>6, RequestTable
<1>7. CASE MainStep
  BY <1>2, <1>3, <1>7, MainMoves
<1>8. CASE Crash
  BY <1>8, FreeExecType DEF Crash, TrackedInv
<1>9. CASE Stop \/ (\E j \in Jobs : TimePasses(j)) \/ UNCHANGED vars
  BY <1>2, <1>9 DEF Stop, TimePasses, vars
<1> QED BY <1>4, <1>5, <1>6, <1>7, <1>8, <1>9 DEF Next

\* The executions of jobs that are not urgent, and the jobs that Busy counts.
Less == {f \in Futures : exec[f].pc # "free" /\ exec[f].priority > HIGH}
BusyJobs == {j \in Jobs : fjm[j] # NoFuture}

\* Busy counts every execution, as each is the one of another job.
LEMMA LessIsBusy ==
    ASSUME TypeInv, BusyMeansBusy, TrackedInv
    PROVE  /\ IsFiniteSet(BusyJobs) /\ IsFiniteSet(Less)
           /\ Cardinality(Less) <= Cardinality(BusyJobs)
<1>1. IsFiniteSet(BusyJobs)
  <2> DEFINE m == [j \in BusyJobs |-> fjm[j]]
  <2>1. \A j \in BusyJobs : fjm[j] \in Futures /\ exec[fjm[j]].job = j
    BY DEF BusyJobs, BusyMeansBusy, TypeInv, TypeOK
  <2>2. m \in Injection(BusyJobs, Futures)
    BY <2>1 DEF Injection, IsInjective
  <2> HIDE DEF m
  <2> QED BY <2>2, FuturesBound, FS_Injection
<1>2. IsFiniteSet(Less) /\ Cardinality(Less) <= Cardinality(BusyJobs)
  <2> DEFINE m == [f \in Less |-> exec[f].job]
  <2>1. \A f \in Less : exec[f].job \in BusyJobs /\ fjm[exec[f].job] = f
    BY DistinctValues DEF Less, BusyJobs, TrackedInv, TypeInv, ExecShape
  <2>2. m \in Injection(Less, BusyJobs)
    BY <2>1 DEF Injection, IsInjective
  <2> HIDE DEF m
  <2> QED BY <1>1, <2>2, FS_Injection
<1> QED BY <1>1, <1>2

\* Only the checker begins an execution, one at a time and with the priority of
\* the row it picked.
LEMMA LessMoves ==
    ASSUME TypeInv, [Next]_vars
    PROVE  \/ Less' \subseteq Less
           \/ /\ chk.pc = "select" /\ txn[Checker].loaded.priority > HIGH
              /\ \E f \in Futures : Less' \subseteq Less \cup {f}
<1>1. \A g \in Futures : exec[g].job \in Jobs /\ Untrack(g) =>
        exec'[g].pc = "free" /\ \A h \in Futures \ {g} : exec'[h] = exec[h]
  BY UntrackType DEF TypeInv
<1>2. CASE CheckerStep
  <2>1. CASE UNCHANGED exec
    BY <2>1 DEF Less
  <2>2. ASSUME NEW f \in Futures, exec[f].job \in Jobs, Untrack(f) PROVE Less' \subseteq Less
    BY <1>1, <2>2 DEF Less
  <2>3. ASSUME NEW f \in Futures, chk.pc = "select",
               exec'[f].priority = txn[Checker].loaded.priority,
               \A g \in Futures \ {f} : exec'[g] = exec[g]
        PROVE  \/ Less' \subseteq Less
               \/ /\ chk.pc = "select" /\ txn[Checker].loaded.priority > HIGH
                  /\ \E g \in Futures : Less' \subseteq Less \cup {g}
    BY <2>3 DEF Less
  <2> QED BY <1>2, <2>1, <2>2, <2>3, CheckerMoves
<1>3. ASSUME NEW f \in Futures, ExecStep(f) PROVE Less' \subseteq Less
  <2>1. CASE exec[f].pc = "over"
    BY <1>1, <1>3, <2>1, ExecMoves DEF Less
  <2>2. CASE exec[f].pc # "over"
    BY <1>3, <2>2, ExecMoves DEF Less
  <2> QED BY <2>1, <2>2
<1>4. ASSUME NEW r \in Requests, RequestBegins(r) \/ RequestStep(r) PROVE Less' \subseteq Less
  BY <1>4, RequestTable DEF Less
<1>5. CASE MainStep
  BY <1>1, <1>5, MainMoves DEF Less
<1>6. CASE Crash
  BY <1>6, FreeExecType DEF Crash, Less
<1>7. CASE Stop \/ (\E j \in Jobs : TimePasses(j)) \/ UNCHANGED vars
  BY <1>7 DEF Stop, TimePasses, vars, Less
<1> QED BY <1>2, <1>3, <1>4, <1>5, <1>6, <1>7 DEF Next

\* Nobody but the checker makes a worker busy.
LEMMA BusyShrinks ==
    ASSUME TypeInv, [Next]_vars, ~CheckerStep
    PROVE  BusyJobs' \subseteq BusyJobs
<1>1. \A g \in Futures : exec[g].job \in Jobs /\ Untrack(g) => BusyJobs' \subseteq BusyJobs
  BY UntrackType DEF TypeInv, BusyJobs
<1>2. UNCHANGED fjm => BusyJobs' \subseteq BusyJobs
  BY DEF BusyJobs
<1>3. ASSUME NEW f \in Futures, ExecStep(f) PROVE BusyJobs' \subseteq BusyJobs
  BY <1>1, <1>2, <1>3, ExecMoves
<1>4. ASSUME NEW r \in Requests, RequestBegins(r) \/ RequestStep(r) PROVE BusyJobs' \subseteq BusyJobs
  BY <1>2, <1>4, RequestTable
<1>5. CASE MainStep
  BY <1>1, <1>2, <1>5, MainMoves
<1>6. CASE Crash
  BY <1>6 DEF Crash, BusyJobs
<1>7. CASE Stop \/ (\E j \in Jobs : TimePasses(j)) \/ UNCHANGED vars
  BY <1>2, <1>7 DEF Stop, TimePasses, vars
<1> QED BY <1>3, <1>4, <1>5, <1>6, <1>7 DEF Next

\* Every step keeps RoomInv.
LEMMA RoomStep ==
    ASSUME TypeInv, BusyMeansBusy, TrackedInv, RoomInv, [Next]_vars
    PROVE  RoomInv'
<1>1. /\ IsFiniteSet(BusyJobs) /\ IsFiniteSet(Less)
      /\ Cardinality(BusyJobs) \in Nat /\ Cardinality(Less) \in Nat
      /\ Cardinality(Less) <= Cardinality(BusyJobs)
  BY LessIsBusy, FS_CardinalityType
<1>2. Busy = Cardinality(BusyJobs) /\ RegularWorkers \in Nat
  BY ConstantsAssumption DEF Busy, BusyJobs
<1>3. ASSUME chk'.pc = "select", txn'[Checker].loaded.priority > HIGH
      PROVE  Busy' < RegularWorkers
  <2>1. CASE CheckerStep
    <3>1. Busy < RegularWorkers /\ fjm' = fjm
      BY <1>3, <2>1, CheckerPicks
    <3> QED BY <3>1 DEF Busy
  <2>2. CASE ~CheckerStep
    <3>1. Busy < RegularWorkers
      BY <1>3, <2>2, CheckerLeftAlone DEF RoomInv
    <3>2. PICK B : B = BusyJobs'
      OBVIOUS
    <3>3. IsFiniteSet(B) /\ Cardinality(B) <= Cardinality(BusyJobs) /\ Cardinality(B) \in Nat
      BY <1>1, <2>2, <3>2, BusyShrinks, FS_Subset, FS_CardinalityType
    <3>4. Busy' = Cardinality(B)
      BY <3>2 DEF Busy, BusyJobs
    <3> QED BY <1>1, <1>2, <3>1, <3>3, <3>4
  <2> QED BY <2>1, <2>2
<1>4. RegularLeavesRoomForHigh'
  <2>1. PICK L : L = Less'
    OBVIOUS
  <2>2. CASE L \subseteq Less
    <3>1. Cardinality(L) <= Cardinality(Less) /\ Cardinality(L) \in Nat
      BY <1>1, <2>2, FS_Subset, FS_CardinalityType
    <3>2. Cardinality(Less) <= RegularWorkers
      BY DEF RoomInv, RegularLeavesRoomForHigh, Less
    <3> QED BY <1>1, <1>2, <2>1, <3>1, <3>2 DEF RegularLeavesRoomForHigh, Less
  <2>3. ASSUME chk.pc = "select", txn[Checker].loaded.priority > HIGH,
               NEW f \in Futures, L \subseteq Less \cup {f}
        PROVE  RegularLeavesRoomForHigh'
    <3>1. Cardinality(BusyJobs) < RegularWorkers
      BY <1>2, <2>3 DEF RoomInv
    <3>2. /\ IsFiniteSet(Less \cup {f}) /\ Cardinality(Less \cup {f}) <= Cardinality(Less) + 1
          /\ Cardinality(Less \cup {f}) \in Nat
      BY <1>1, FS_AddElement, FS_CardinalityType
    <3>3. Cardinality(L) <= Cardinality(Less \cup {f}) /\ Cardinality(L) \in Nat
      BY <2>3, <3>2, FS_Subset, FS_CardinalityType
    <3>4. Cardinality(L) <= RegularWorkers
      BY <1>1, <1>2, <3>1, <3>2, <3>3
    <3> QED BY <2>1, <3>4 DEF RegularLeavesRoomForHigh, Less
  <2> QED BY <2>1, <2>2, <2>3, LessMoves
<1> QED BY <1>3, <1>4 DEF RoomInv

\* As long as job ids are fresh, no function asks to be retried at once and no job
\* has a retry interval of 0, the
\* jobs below HIGH never take more than the regular workers, for any number of
\* jobs, workers and requests: the workers that check_jobs counts before it asks
\* for a job are all those that execute one until it hands the job over.
THEOREM RoomForHigh ==
    ASSUME FreshIdsOnly, NoRetryAtOnce
    PROVE  Spec => []RegularLeavesRoomForHigh
<1> DEFINE Inv == BusyMeansBusy /\ WritersInv /\ RunsInv /\ RetriesInv /\ DelaysInv
                  /\ OverIsLater /\ TrackedInv /\ RoomInv
<1>1. Init => DelaysInv /\ OverIsLater /\ TrackedInv
  <2> SUFFICES ASSUME Init PROVE DelaysInv /\ OverIsLater /\ TrackedInv
    OBVIOUS
  <2>1. /\ \A f \in Futures : exec[f].pc = "free" /\ exec[f].delay = "none"
        /\ \A a \in Actors : txn[a] = NoTxn
        /\ chk.pc = "off"
    BY DEF Init, FreeExec, IdleChecker
  <2> QED BY <2>1 DEF DelaysInv, OverIsLater, TrackedInv, Actors
<1>2. Init => RoomInv
  <2> SUFFICES ASSUME Init PROVE RoomInv
    OBVIOUS
  <2>1. chk.pc = "off" /\ \A f \in Futures : exec[f].pc = "free"
    BY FreeExecType DEF Init, IdleChecker
  <2>2. {f \in Futures : exec[f].pc # "free" /\ exec[f].priority > HIGH} = {}
    BY <2>1
  <2>3. 0 <= RegularWorkers
    BY ConstantsAssumption
  <2> QED BY <2>1, <2>2, <2>3, FS_EmptySet DEF RoomInv, RegularLeavesRoomForHigh
<1>3. Init => Inv
  BY <1>1, <1>2, RetriesInit, RunsInit, WritersInit DEF Init, BusyMeansBusy
<1>4. TypeInv /\ Inv /\ [Next]_vars => Inv'
  <2> SUFFICES ASSUME TypeInv, Inv, [Next]_vars PROVE Inv'
    OBVIOUS
  <2>1. BusyMeansBusy' /\ WritersInv'
    BY BusyStep, WritersStep
  <2>2. RunsInv'
    BY BirthStep, QueuedStep, AloneStep DEF RunsInv
  <2>3. DelaysInv' /\ OverIsLater' /\ TrackedInv' /\ RoomInv'
    BY DelaysStep, OverStep, TrackedStep, RoomStep DEF NoRetryAtOnce, RetriesInv
  <2>4. RetriesInv'
    BY RetriesStep
  <2> QED BY <2>1, <2>2, <2>3, <2>4
<1>5. Inv => RegularLeavesRoomForHigh
  BY DEF RoomInv
<1> QED BY <1>3, <1>4, <1>5, TypesHold, PTL DEF Spec

-----------------------------------------------------------------------------
(* OneLife.                                                                *)

\* What a commit leaves of a row when it changes it: the new row where there was
\* none, or else a mixture of the row that it finds and the row that it writes.
LEMMA FlushParts ==
    ASSUME NEW cur \in Row \cup {NoRow}, NEW t \in Txn,
           Flush(cur, t) # cur, Flush(cur, t) # NoRow
    PROVE  \/ cur = NoRow /\ t.loaded = NoRow /\ Flush(cur, t) = t.new
           \/ /\ cur \in Row /\ t.loaded \in Row
              /\ Flush(cur, t).state \in {cur.state, t.new.state}
              /\ \/ Flush(cur, t).saved = t.new.saved
                 \/ Flush(cur, t).saved = cur.saved /\ t.new.saved = t.loaded.saved
              /\ \/ Flush(cur, t).priority = t.new.priority /\ t.new.priority # t.loaded.priority
                 \/ Flush(cur, t).priority = cur.priority /\ t.new.priority = t.loaded.priority
              /\ Flush(cur, t).repeat \in {cur.repeat, t.new.repeat}
              /\ Flush(cur, t).retry = cur.retry \/ Flush(cur, t).retry = t.new.retry
<1>1. Applies(cur, t) /\ t.loaded \in Row \cup {NoRow}
  BY DEF Flush, Applies, Txn
<1>2. CASE cur = NoRow
  BY <1>1, <1>2 DEF Flush, Applies
<1>3. CASE cur # NoRow
  <2>1. Flush(cur, t) = WriteBack(cur, t) /\ cur \in Row /\ t.loaded \in Row
    BY <1>1, <1>3 DEF Flush, Applies
  <2> QED BY <2>1 DEF WriteBack
<1> QED BY <1>2, <1>3

\* Steps that move nothing but the server and the clock.
LEMMA RestMoves ==
    ASSUME Stop \/ (\E j \in Jobs : TimePasses(j)) \/ UNCHANGED vars
    PROVE  UNCHANGED <<jobs, used, txn, exec, fjm, chk, req>>
BY DEF Stop, TimePasses, vars

\* Without crashes, the server never comes up with jobs that were running.
LEMMA UpStep ==
    ASSUME RunsOnce, TypeInv, WritersInv, BackedInv, UpInv, [Next]_vars
    PROVE  UpInv' /\ ~Crash
<1> USE DEF TypeInv
<1>1. ~Crash
  BY DEF RunsOnce, Crash, TypeOK
<1> SUFFICES UpInv'
  BY <1>1
<1>2. main \in MainRecord
  BY DEF TypeOK, MainRecord
<1>3. CASE MainStep
  <2>1. RunningJobs' \subseteq RunningJobs
    BY <1>3, RunningShrinks
  <2>2. CASE Start
    BY <2>1, <2>2 DEF Start, UpInv
  <2>3. CASE MainUp
    BY <1>2, <2>3 DEF MainUp, UpInv, MainRecord
  <2>4. ~MainNext("requeue", "markQueued")
    BY DEF MainNext, UpInv
  <2>5. CASE MainJoined \/ MainNext("shutdown", "markCanceling") \/ MainDrop
    <3>1. MainJoined => main'.pc = "shutdown"
      BY DEF MainJoined
    <3>2. MainNext("shutdown", "markCanceling") => main'.pc = "markCanceling"
      BY <1>2 DEF MainNext, MainRecord
    <3>3. MainDrop => main'.pc \in {"markCanceled", "shutdown"}
      <4>1. \A pc : main' = [main EXCEPT !.pc = pc] => main'.pc = pc
        BY <1>2 DEF MainRecord
      <4> QED BY <4>1 DEF MainDrop
    <3> QED BY <2>5, <3>1, <3>2, <3>3 DEF UpInv
  <2>6. CASE MainMark
    <3>1. main.pc \in {"markCanceling", "markCanceled"}
          /\ (main' = main \/ main' = [main EXCEPT !.pc = Follows[@]])
      BY <2>6 DEF MainMark, MarkOf, UpInv
    <3> QED BY <1>2, <3>1 DEF Follows, UpInv, MainRecord
  <2>7. CASE MainDown
    <3>1. RunningJobs = {}
      BY <2>7 DEF MainDown, BackedInv, Answers
    <3>2. main'.pc = "down" /\ main'.todo = {}
      BY <1>2, <2>7 DEF MainDown, MainRecord
    <3> QED BY <2>1, <3>1, <3>2 DEF UpInv
  <2> QED BY <1>1, <1>3, <2>2, <2>3, <2>4, <2>5, <2>6, <2>7 DEF MainStep
<1>4. CASE ~MainStep
  <2>1. main' = main \/ Stop
    BY <1>1, <1>4, CheckerMoves, ExecMoves, RequestTable DEF Next, TimePasses, vars
  <2>2. main.pc \in {"down", "requeue"} => RunningJobs' \subseteq RunningJobs
    <3>1. main.pc \in {"down", "requeue"} => \A f \in Futures : ~ExecStep(f)
      BY ExecMoves DEF MainShape
    <3> QED BY <1>1, <1>4, <3>1, RunningShrinks DEF Next
  <2>3. Stop => main'.pc = "stopping"
    BY <1>2 DEF Stop, MainRecord
  <2> QED BY <1>1, <2>1, <2>2, <2>3 DEF UpInv
<1> QED BY <1>3, <1>4

\* How the stop of the worker goes through the jobs that it finds running.
LEMMA StopMoves ==
    ASSUME TypeInv, UpInv, ~Crash, [Next]_vars
    PROVE  /\ main'.todo \subseteq main.todo \cup RunningJobs
           /\ main'.pc \in StopPcs =>
                \/ main.pc \in StopPcs /\ main'.job = main.job
                \/ main'.job \in main.todo
           /\ main'.pc = "markCanceled" =>
                \/ main.pc = "markCanceled" /\ main'.job = main.job
                \/ /\ main.pc = "drop" /\ main'.job = main.job
                   /\ fjm[main.job] = NoFuture \/ Droppable(main.job)
<1>1. main \in MainRecord
  BY DEF TypeInv, TypeOK, MainRecord
<1>2. \A pc : main' = [main EXCEPT !.pc = pc] =>
        main'.pc = pc /\ main'.job = main.job /\ main'.todo = main.todo
  BY <1>1 DEF MainRecord
<1>3. CASE UNCHANGED main
  BY <1>3
<1>4. CASE MainStep
  <2>1. CASE Start
    BY <2>1 DEF Start, StopPcs
  <2>2. CASE MainUp
    BY <1>1, <2>2 DEF MainUp, StopPcs, MainRecord
  <2>3. ~MainNext("requeue", "markQueued")
    BY DEF MainNext, UpInv
  <2>4. CASE MainJoined
    BY <2>4 DEF MainJoined, StopPcs
  <2>5. CASE MainNext("shutdown", "markCanceling")
    BY <1>1, <2>5 DEF MainNext, StopPcs, MainRecord
  <2>6. CASE MainDrop
    BY <1>2, <2>6 DEF MainDrop, StopPcs
  <2>7. CASE MainMark /\ ~UNCHANGED main
    <3>1. main.pc \in {"markCanceling", "markCanceled"} /\ main' = [main EXCEPT !.pc = Follows[main.pc]]
      BY <2>7 DEF MainMark, MarkOf, UpInv
    <3>2. Follows["markCanceling"] = "drop" /\ Follows["markCanceled"] = "shutdown"
      BY DEF Follows
    <3> QED BY <1>2, <3>1, <3>2 DEF StopPcs
  <2>8. CASE MainDown
    BY <1>1, <2>8 DEF MainDown, StopPcs, MainRecord
  <2> QED BY <1>3, <1>4, <2>1, <2>2, <2>3, <2>4, <2>5, <2>6, <2>7, <2>8 DEF MainStep
<1>5. CASE Stop
  BY <1>2, <1>5 DEF Stop, StopPcs
<1>6. CASE ~MainStep /\ ~Stop
  BY <1>3, <1>6, CheckerMoves, ExecMoves, RequestTable DEF Next, TimePasses, vars
<1> QED BY <1>4, <1>5, <1>6

\* A row that changes is written by the commit of a thread that is at work on it.
LEMMA RowsChange ==
    ASSUME TypeInv, UpInv, ~Crash, [Next]_vars,
           NEW j \in Jobs, jobs'[j] # jobs[j], jobs'[j] # NoRow
    PROVE  \E a \in Actors :
             /\ txn[a] # NoTxn /\ txn[a] \in Txn /\ txn[a].job = j /\ txn'[a] = NoTxn
             /\ \A b \in Actors \ {a} : txn'[b] = txn[b]
             /\ jobs'[j] = Flush(jobs[j], txn[a])
             /\ \/ a = Checker /\ chk.pc \in {"select", "mark"} /\ chk.job = j /\ UNCHANGED req
                \/ a = Main /\ main.pc \in {"markCanceling", "markCanceled"} /\ main.job = j
                   /\ UNCHANGED req
                \/ /\ a \in Futures /\ ExecStep(a) /\ exec[a].job = j /\ exec[a].pc \in UpdatePcs
                   /\ exec'[a].pc = After[exec[a].pc] /\ exec'[a].job = j
                   /\ UNCHANGED <<chk, req, used>>
                   /\ \A g \in Futures \ {a} : exec'[g] = exec[g]
                \/ /\ a \in Requests /\ req[a].job = j /\ req[a].pc \in {"merge", "mark"}
                   /\ UNCHANGED <<exec, chk>>
                   /\ req'[a].pc = "done" /\ \A p \in Requests \ {a} : req'[p] = req[p]
<1> DEFINE Wrote(a) ==
             /\ txn[a] # NoTxn /\ txn[a] \in Txn /\ txn[a].job = j /\ txn'[a] = NoTxn
             /\ \A b \in Actors \ {a} : txn'[b] = txn[b]
             /\ jobs'[j] = Flush(jobs[j], txn[a])
<1>1. ASSUME NEW a \in Actors, Commits(a) PROVE Wrote(a)
  BY <1>1, CommitType DEF Commits, TypeInv
<1>2. CASE CheckerStep
  <2>1. Commits(Checker) /\ UNCHANGED req
    BY <1>2, CheckerTable, CheckerMoves DEF Quiet, Opens
  <2>2. chk.pc \in {"select", "mark"} /\ chk.job = txn[Checker].job
    BY <2>1 DEF Commits, TypeInv, CheckerShape
  <2> QED BY <1>1, <2>1, <2>2 DEF Actors
<1>3. ASSUME NEW f \in Futures, ExecStep(f)
      PROVE  /\ Wrote(f) /\ exec[f].job = j /\ exec[f].pc \in UpdatePcs
             /\ exec'[f].pc = After[exec[f].pc] /\ exec'[f].job = j
             /\ UNCHANGED <<chk, req, used>>
             /\ \A g \in Futures \ {f} : exec'[g] = exec[g]
  <2>1. Commits(f) /\ exec' = [exec EXCEPT ![f].pc = After[@]]
    BY <1>3, ExecTable DEF Quiet, Opens
  <2>2. Wrote(f)
    BY <1>1, <2>1 DEF Actors
  <2>3. exec[f].pc \in UpdatePcs /\ exec[f].job = txn[f].job /\ exec \in [Futures -> ExecRecord]
    BY <2>1 DEF Commits, TypeInv, ExecShape, TypeOK
  <2>4. exec'[f].pc = After[exec[f].pc] /\ exec'[f].job = exec[f].job
    BY <2>1, <2>3 DEF ExecRecord
  <2> QED BY <1>3, <2>2, <2>3, <2>4, ExecMoves
<1>4. ASSUME NEW r \in Requests, RequestBegins(r) \/ RequestStep(r)
      PROVE  /\ Wrote(r) /\ req[r].job = j /\ req[r].pc \in {"merge", "mark"}
             /\ UNCHANGED <<exec, chk>>
             /\ req'[r].pc = "done" /\ \A p \in Requests \ {r} : req'[p] = req[p]
  <2>1. Commits(r) /\ Goes(r, "done")
    BY <1>4, RequestTable DEF Quiet, Opens
  <2>2. Wrote(r)
    BY <1>1, <2>1 DEF Actors
  <2>3. req[r].pc \in {"merge", "mark"} /\ req[r].job = txn[r].job /\ req'[r].pc = "done"
    BY <2>1 DEF Commits, TypeInv, RequestShape, TypeOK, Goes
  <2> QED BY <1>4, <2>2, <2>3, RequestTable
<1>5. CASE MainStep
  <2>1. Commits(Main) /\ main.pc \in MarkPcs /\ UNCHANGED req
    BY <1>5, MainTable, MainMoves DEF Quiet, Opens
  <2>2. main.pc \in {"markCanceling", "markCanceled"} /\ main.job = txn[Main].job
    BY <2>1 DEF Commits, TypeInv, MainShape, MarkPcs, UpInv
  <2> QED BY <1>1, <2>1, <2>2 DEF Actors
<1>6. ~(Stop \/ (\E i \in Jobs : TimePasses(i)) \/ UNCHANGED vars)
  BY RestMoves
<1> QED BY <1>2, <1>3, <1>4, <1>5, <1>6 DEF Next, Actors

\* An execution begins with what the checker submits, and after markRunning its
\* function is called, whether or not there was a row to mark.
LEMMA EarlyMoves ==
    ASSUME TypeInv, UpInv, ~Crash, OnceInv, [Next]_vars, NEW f \in Futures, exec'[f].pc # "free"
    PROVE  \/ exec'[f].pc = "pending" /\ chk.pc = "select" /\ exec'[f].job = chk.job
           \/ /\ exec'[f].job = exec[f].job /\ exec[f].pc # "free"
              /\ \/ exec'[f].pc \in EarlyPcs <=> exec[f].pc \in EarlyPcs
                 \/ /\ exec[f].pc = "getJob" /\ exec'[f].pc = "over" /\ ~Exists(exec[f].job)
                    /\ jobs' = jobs
                 \/ exec[f].pc = "markRunning" /\ exec'[f].pc = "check" /\ ExecStep(f)
              /\ exec'[f].pc \in {"check", "func"} =>
                   \/ exec[f].pc \in {"check", "func"}
                   \/ /\ exec[f].pc = "markRunning" /\ ExecStep(f)
                      /\ (txn[f] # NoTxn /\ Commits(f)) \/ (~Exists(exec[f].job) /\ jobs' = jobs)
<1>1. \A g \in Futures : exec[g].job \in Jobs /\ Untrack(g) =>
        exec'[g].pc = "free" /\ \A h \in Futures \ {g} : exec'[h] = exec[h]
  BY UntrackType DEF TypeInv
<1>2. exec \in [Futures -> ExecRecord]
  BY DEF TypeInv, TypeOK
<1>3. CASE exec'[f] = exec[f]
  BY <1>3
<1>4. CASE CheckerStep
  BY <1>1, <1>3, <1>4, CheckerMoves
<1>5. CASE ExecStep(f)
  <2>1. exec[f].pc # "over" /\ exec'[f].job = exec[f].job /\ exec[f].pc # "free"
    BY <1>1, <1>5, ExecMoves
  <2>2. CASE ExecTake(f)
    BY <1>2, <2>1, <2>2 DEF ExecTake, EarlyPcs, ExecRecord
  <2>3. CASE ExecGetJob(f)
    <3>1. /\ exec[f].pc = "getJob" /\ jobs' = jobs
          /\ exec'[f].pc = IF Exists(exec[f].job) THEN "markRunning" ELSE "over"
      BY <1>2, <2>3 DEF ExecGetJob, ExecRecord
    <3> QED BY <2>1, <3>1 DEF EarlyPcs
  <2>4. CASE ExecCommit(f) \/ ExecSkipUpdate(f)
    <3>1. /\ exec[f].pc \in UpdatePcs /\ exec'[f].pc = After[exec[f].pc]
          /\ (txn[f] # NoTxn /\ Commits(f)) \/ (~Exists(exec[f].job) /\ jobs' = jobs)
      <4>1. exec[f].pc \in UpdatePcs /\ exec' = [exec EXCEPT ![f].pc = After[@]]
        BY <2>4 DEF ExecCommit, ExecSkipUpdate, TypeInv, ExecShape, UpdatePcs
      <4>2. exec'[f].pc = After[exec[f].pc]
        BY <1>2, <4>1 DEF ExecRecord
      <4>3. (txn[f] # NoTxn /\ Commits(f)) \/ (~Exists(exec[f].job) /\ jobs' = jobs)
        BY <2>4 DEF ExecCommit, ExecSkipUpdate, Commits
      <4> QED BY <4>1, <4>2, <4>3
    <3>2. exec[f].pc \notin {"progress", "saveCancellable"}
      BY DEF OnceInv
    <3> QED BY <1>5, <2>1, <3>1, <3>2 DEF EarlyPcs, UpdatePcs, After
  <2>5. CASE ExecLoad(f)
    BY <1>3, <2>5 DEF ExecLoad
  <2>6. CASE ExecCheck(f) \/ FuncPolls(f) \/ FuncReturns(f) \/ FuncActs(f)
    <3>1. exec[f].pc \in {"check", "func"}
      BY <2>6 DEF ExecCheck, FuncPolls, FuncReturns, FuncActs
    <3>2. exec'[f].pc \in {"check", "func", "finish", "progress", "saveCancellable"}
      BY <1>2, <2>6, <3>1 DEF ExecCheck, FuncPolls, FuncReturns, FuncActs, Ends, ExecRecord
    <3> QED BY <2>1, <3>1, <3>2 DEF EarlyPcs
  <2>7. CASE ExecReschedule(f)
    <3>1. exec[f].pc = "reschedule" /\ exec'[f].pc \in {"schedule", "over"}
      <4>1. \E row, time :
              \/ exec' = [exec EXCEPT ![f] = [@ EXCEPT !.pc = "schedule", !.delay = time, !.next = row]]
              \/ exec' = [exec EXCEPT ![f] = [@ EXCEPT !.pc = "over"]]
        BY <2>7 DEF ExecReschedule
      <4> QED BY <1>2, <2>7, <4>1 DEF ExecRecord, ExecReschedule
    <3> QED BY <2>1, <3>1 DEF EarlyPcs
  <2>8. CASE ExecSchedule(f)
    <3>1. exec[f].pc = "schedule" /\ exec'[f].pc \in {"merge", "over"}
      <4>1. \E pc \in {"over", "merge"} : exec' = [exec EXCEPT ![f].pc = pc]
        BY <2>8 DEF ExecSchedule
      <4> QED BY <1>2, <2>8, <4>1 DEF ExecRecord, ExecSchedule
    <3> QED BY <2>1, <3>1 DEF EarlyPcs
  <2>9. ~ExecCallback(f)
    BY <2>1 DEF ExecCallback
  <2> QED BY <1>5, <2>2, <2>3, <2>4, <2>5, <2>6, <2>7, <2>8, <2>9 DEF ExecStep
<1>6. ASSUME NEW g \in Futures \ {f}, ExecStep(g) PROVE exec'[f] = exec[f]
  BY <1>6, ExecMoves
<1>7. ASSUME NEW r \in Requests, RequestBegins(r) \/ RequestStep(r) PROVE exec'[f] = exec[f]
  BY <1>7, RequestTable
<1>8. CASE Stop \/ (\E j \in Jobs : TimePasses(j)) \/ UNCHANGED vars
  BY <1>3, <1>8, RestMoves
<1>9. CASE MainStep
  BY <1>1, <1>3, <1>9, MainMoves
<1> QED BY <1>3, <1>4, <1>5, <1>6, <1>7, <1>8, <1>9 DEF Next

\* Once a job is off the queue to run, nothing makes it wait again.
LEMMA WaitsMoves ==
    ASSUME FreshIdsOnly, TypeInv, WritersInv, RunsInv, UpInv, OnceInv, WritesInv, ~Crash,
           [Next]_vars, NEW j \in Jobs, Waits(j)'
    PROVE  Waits(j)
<1>1. \/ UNCHANGED <<used, req>>
      \/ \E r \in Requests : (RequestBegins(r) \/ RequestStep(r))
  BY CheckerMoves, ExecMoves, MainMoves, RestMoves DEF Next
<1>2. CASE j \notin used'
  <2>1. used \subseteq used'
    BY <1>1, RequestFresh DEF RunsInv
  <2> QED BY <1>2, <2>1 DEF Waits
<1>3. ASSUME NEW r \in Requests, Scheduling(r)', req'[r].job = j PROVE Waits(j)
  <2>1. CASE req'[r] = req[r]
    BY <1>3, <2>1 DEF Scheduling, Waits
  <2>2. CASE RequestBegins(r) \/ RequestStep(r)
    <3>1. CASE Scheduling(r)' => Scheduling(r) /\ req'[r].job = req[r].job
      BY <1>3, <3>1 DEF Waits
    <3>2. ASSUME NEW i \in Jobs \ used, req'[r].job = i PROVE Waits(j)
      BY <1>3, <3>2 DEF Waits
    <3> QED BY <2>2, <3>1, <3>2, RequestFresh DEF RunsInv
  <2> QED BY <1>1, <2>1, <2>2, RequestTable
<1>4. CASE jobs'[j] # NoRow /\ jobs'[j].state = "QUEUED" /\ jobs'[j].priority # LOW
  <2>1. CASE jobs'[j] = jobs[j]
    BY <1>4, <2>1 DEF Waits, Exists
  <2>2. CASE jobs'[j] # jobs[j]
    <3>1. PICK a \in Actors :
            /\ txn[a] # NoTxn /\ txn[a] \in Txn /\ txn[a].job = j /\ jobs'[j] = Flush(jobs[j], txn[a])
            /\ \/ a \in {Checker, Main}
               \/ a \in Futures /\ exec[a].job = j /\ exec[a].pc \in UpdatePcs
               \/ a \in Requests /\ req[a].job = j
      BY <1>4, <2>2, RowsChange
    <3> DEFINE cur == jobs[j]
               t == txn[a]
    <3>2. cur \in Row \cup {NoRow} /\ t \in Txn /\ Flush(cur, t) # cur /\ Flush(cur, t) # NoRow
      BY <1>4, <2>2, <3>1 DEF TypeInv, TypeOK
    <3>3. CASE a \in Requests /\ req[a].pc = "merge"
      BY <3>1, <3>3, DistinctValues DEF Waits, Scheduling
    <3>4. CASE a \in Futures /\ exec[a].pc = "merge"
      <4>1. t.new.priority = LOW /\ (t.loaded # NoRow /\ t.loaded.priority = LOW /\ cur # NoRow
                                       => cur.priority = LOW)
        BY <3>1, <3>4, DistinctValues DEF WritesInv, Exists
      <4>2. Flush(cur, t).priority # LOW
        BY <1>4, <3>1
      <4> HIDE DEF cur, t
      <4>3. /\ cur \in Row /\ t.loaded \in Row /\ Flush(cur, t).priority = cur.priority
            /\ t.new.priority = t.loaded.priority
        BY <3>2, <4>1, <4>2, FlushParts
      <4> QED BY <4>1, <4>2, <4>3, DistinctValues
    <3>5. CASE ~Merges(a)
      <4>1. t.loaded # NoRow /\ t.new.priority = t.loaded.priority
        BY <3>1, <3>5 DEF WritesInv
      <4>2. /\ cur # NoRow /\ Flush(cur, t).priority = cur.priority
            /\ Flush(cur, t).state = cur.state \/ (t.loaded.state # t.new.state
                                                     /\ Flush(cur, t).state = t.new.state)
        <5> HIDE DEF cur, t
        <5> QED BY <3>2, <4>1, FlushParts, FlushState, DistinctValues
      <4>3. ~Writes(a, "QUEUED")
        BY <3>1, <3>5 DEF WritersInv, Merges, UpInv
      <4>4. Exists(j) /\ jobs[j].state = "QUEUED" /\ jobs[j].priority # LOW
        BY <1>4, <3>1, <4>2, <4>3 DEF Writes, Exists
      <4> QED BY <4>4 DEF Waits
    <3> QED BY <3>1, <3>3, <3>4, <3>5 DEF Merges
  <2> QED BY <2>1, <2>2
<1>5. CASE chk'.pc = "select" /\ chk'.job = j
  BY <1>5, CheckerPicks, CheckerLeftAlone DEF Waits
<1>6. ASSUME NEW f \in Futures, exec'[f].pc \in EarlyPcs, exec'[f].job = j PROVE Waits(j)
  <2>1. exec'[f].pc # "free"
    BY <1>6 DEF EarlyPcs
  <2> QED BY <1>6, <2>1, EarlyMoves DEF Waits, EarlyPcs
<1> QED BY <1>2, <1>3, <1>4, <1>5, <1>6 DEF Waits, Exists

\* A job whose execution has begun its run does not wait for one.
LEMMA RunIsOn ==
    ASSUME TypeInv, RunsInv, OverIsLater, TrackedInv
    PROVE  \A f \in Futures :
             exec[f].pc \notin EarlyPcs \cup {"free"} /\ (Live(f) \/ ~Exists(exec[f].job))
               => ~Waits(exec[f].job)
<1> SUFFICES ASSUME NEW f \in Futures, exec[f].pc \notin EarlyPcs \cup {"free"},
                    Live(f) \/ ~Exists(exec[f].job), Waits(exec[f].job)
             PROVE  FALSE
  OBVIOUS
<1> DEFINE j == exec[f].job
<1>1. j \in Jobs
  BY DEF TypeInv, ExecShape
<1>2. ~Unborn(j)
  BY DEF Unborn
<1>3. j \in used /\ \A r \in Requests : Scheduling(r) => req[r].job # j
  BY <1>1, <1>2 DEF RunsInv, BirthInv
<1>4. ~(Exists(j) /\ jobs[j].state = "QUEUED" /\ jobs[j].priority # LOW)
  BY DEF RunsInv, QueuedIsIdle
<1>5. ~(chk.pc = "select" /\ chk.job = j)
  BY DEF OverIsLater
<1>6. \A g \in Futures : exec[g].pc \in EarlyPcs => exec[g].job # j
  BY DEF TrackedInv, EarlyPcs
<1> QED BY <1>3, <1>4, <1>5, <1>6 DEF Waits

\* The transactions that a step opens are the thread's own.
LEMMA TxnsOpen ==
    ASSUME TypeInv, UpInv, ~Crash, [Next]_vars, NEW a \in Actors, txn'[a] # NoTxn
    PROVE  \/ txn'[a] = txn[a]
           \/ /\ txn[a] = NoTxn /\ jobs' = jobs /\ \A b \in Actors \ {a} : txn'[b] = txn[b]
              /\ txn'[a].job \in Jobs /\ txn'[a].loaded = jobs[txn'[a].job]
              /\ \/ /\ a = Checker /\ txn'[a].loaded # NoRow
                    /\ txn'[a].new \in {Selected(txn'[a].loaded), Marked(txn'[a].loaded, "CANCELED")}
                 \/ /\ a = Main /\ UNCHANGED main /\ txn'[a].job = main.job
                    /\ main.pc \in {"markCanceling", "markCanceled"} /\ txn'[a].loaded # NoRow
                    /\ txn'[a].new = Marked(txn'[a].loaded, MarkOf[main.pc])
                 \/ /\ a \in Futures /\ UNCHANGED exec /\ txn'[a].job = exec[a].job
                    /\ \/ exec[a].pc = "markRunning" /\ txn'[a].loaded # NoRow
                          /\ txn'[a].new = Marked(txn'[a].loaded, "RUNNING")
                       \/ exec[a].pc \in {"progress", "saveCancellable"}
                       \/ exec[a].pc = "finish" /\ txn'[a].loaded # NoRow
                          /\ txn'[a].new = Marked(txn'[a].loaded, exec[a].outcome)
                       \/ exec[a].pc = "merge" /\ txn'[a].new = exec[a].next
                 \/ /\ a \in Requests /\ UNCHANGED req /\ txn'[a].job = req[a].job
                    /\ \/ req[a].pc = "merge" /\ txn'[a].new = req[a].next
                       \/ req[a].pc = "mark" /\ txn'[a].loaded # NoRow
                          /\ txn'[a].new = Marked(txn'[a].loaded, "CANCELING")
<1>1. \A b \in Actors : Commits(b) => txn'[b] = NoTxn /\ \A c \in Actors \ {b} : txn'[c] = txn[c]
  BY CommitType DEF Commits, TypeInv
<1>2. CASE CheckerStep
  <2>1. CASE Opens(Checker)
    <3>1. txn'[Checker].new \in {Selected(txn'[Checker].loaded), Marked(txn'[Checker].loaded, "CANCELED")}
          /\ txn'[Checker].loaded # NoRow
      <4>1. ~Quiet /\ ~Commits(Checker)
        BY <1>1, <2>1 DEF Quiet, Opens, Actors
      <4> QED BY <1>2, <4>1, CheckerTable, CheckerPicks DEF Exists
    <3> QED BY <2>1, <3>1 DEF Opens
  <2>2. CASE ~Opens(Checker)
    BY <1>1, <1>2, <2>2, CheckerTable DEF Quiet, Actors
  <2> QED BY <2>1, <2>2
<1>3. ASSUME NEW f \in Futures, ExecStep(f), txn'[a] # txn[a]
      PROVE  /\ a = f /\ Opens(f) /\ UNCHANGED exec /\ txn'[f].job = exec[f].job
             /\ \/ exec[f].pc = "markRunning" /\ txn'[f].loaded # NoRow
                   /\ txn'[f].new = Marked(txn'[f].loaded, "RUNNING")
                \/ exec[f].pc \in {"progress", "saveCancellable"}
                \/ exec[f].pc = "finish" /\ txn'[f].loaded # NoRow
                   /\ txn'[f].new = Marked(txn'[f].loaded, exec[f].outcome)
                \/ exec[f].pc = "merge" /\ txn'[f].new = exec[f].next
  <2>1. f \in Actors
    BY DEF Actors
  <2>2. ~Commits(f) /\ ~Quiet
    BY <1>1, <1>3, <2>1 DEF Quiet
  <2>3. Opens(f) => a = f
    BY <1>3 DEF Opens
  <2> QED BY <1>3, <2>2, <2>3, ExecTable
<1>4. ASSUME NEW r \in Requests, RequestBegins(r) \/ RequestStep(r), txn'[a] # txn[a]
      PROVE  /\ a = r /\ Opens(r) /\ UNCHANGED req /\ txn'[r].job = req[r].job
             /\ \/ req[r].pc = "merge" /\ txn'[r].new = req[r].next
                \/ req[r].pc = "mark" /\ txn'[r].loaded # NoRow
                   /\ txn'[r].new = Marked(txn'[r].loaded, "CANCELING")
  <2>1. r \in Actors
    BY DEF Actors
  <2>2. ~Commits(r) /\ ~Quiet /\ txn' # txn
    BY <1>1, <1>4, <2>1 DEF Quiet
  <2>3. Opens(r) => a = r
    BY <1>4 DEF Opens
  <2> QED BY <1>4, <2>2, <2>3, RequestTable
<1>5. ASSUME MainStep, txn'[a] # txn[a]
      PROVE  /\ a = Main /\ Opens(Main) /\ UNCHANGED main /\ txn'[Main].job = main.job
             /\ main.pc \in {"markCanceling", "markCanceled"} /\ txn'[Main].loaded # NoRow
             /\ txn'[Main].new = Marked(txn'[Main].loaded, MarkOf[main.pc])
  <2>1. Main \in Actors
    BY DEF Actors
  <2>2. ~Commits(Main) /\ ~Quiet
    BY <1>1, <1>5, <2>1 DEF Quiet
  <2>3. Opens(Main) => a = Main
    BY <1>5 DEF Opens
  <2> QED BY <1>5, <2>2, <2>3, MainTable DEF MarkPcs, UpInv
<1>6. CASE Stop \/ (\E j \in Jobs : TimePasses(j)) \/ UNCHANGED vars
  BY <1>6, RestMoves
<1>7. CASE txn'[a] = txn[a]
  BY <1>7
<1> QED BY <1>2, <1>3, <1>4, <1>5, <1>6, <1>7 DEF Next, Opens

\* The rows that are written from a row ask for another run only if it does.
LEMMA OnceKept ==
    ASSUME NEW row \in Row, Once(row)
    PROVE  /\ Once(Selected(row)) /\ \A s \in States : Once(Marked(row, s))
           /\ Selected(row).priority = row.priority /\ Selected(row).saved = row.saved
           /\ Selected(row).state = "SELECTED"
           /\ \A s \in States : /\ Marked(row, s).priority = row.priority
                                /\ Marked(row, s).state = s /\ Marked(row, s).saved.state = s
BY DEF Once, Selected, Marked, Row

\* What an execution does about its next run.
LEMMA OnceExec ==
    ASSUME RunsOnce, TypeInv, OnceInv, NEW f \in Futures, ExecStep(f)
    PROVE  /\ exec'[f].pc \notin {"progress", "saveCancellable"}
           /\ exec'[f].delay # "none" => exec'[f].lower = TRUE
           /\ exec'[f].pc \in {"schedule", "merge"} =>
                Once(exec'[f].next) /\ exec'[f].next.priority = LOW
<1>1. exec \in [Futures -> ExecRecord] /\ exec[f] \in ExecRecord
  BY DEF TypeInv, TypeOK
<1>2. /\ exec[f].pc \notin {"progress", "saveCancellable"}
      /\ exec[f].delay # "none" => exec[f].lower = TRUE
      /\ exec[f].pc \in {"schedule", "merge"} => Once(exec[f].next) /\ exec[f].next.priority = LOW
  BY DEF OnceInv
<1>3. CASE ExecTake(f)
  BY <1>1, <1>2, <1>3 DEF ExecTake, ExecRecord
<1>4. CASE ExecGetJob(f)
  <2>1. CASE exec' = [exec EXCEPT ![f] = [@ EXCEPT !.pc = "over"]]
    BY <1>1, <1>2, <2>1 DEF ExecRecord
  <2>2. ASSUME NEW c \in BOOLEAN,
               exec' = [exec EXCEPT ![f] = [@ EXCEPT !.pc = "markRunning", !.cancellable = c]]
        PROVE  /\ exec'[f].pc = "markRunning"
               /\ exec'[f].delay # "none" => exec'[f].lower = TRUE
    <3>1. exec'[f] = [exec[f] EXCEPT !.pc = "markRunning", !.cancellable = c]
      BY <1>1, <2>2
    <3>2. exec'[f].pc = "markRunning" /\ exec'[f].delay = exec[f].delay
      BY <1>1, <3>1 DEF ExecRecord
    <3>3. exec'[f].lower = exec[f].lower
      BY <1>1, <3>1 DEF ExecRecord
    <3> QED BY <1>2, <3>2, <3>3
  <2>3. Exists(exec[f].job) => jobs[exec[f].job].saved.cancellable \in BOOLEAN
    BY <1>4 DEF ExecGetJob, TypeInv, TypeOK, ExecShape, Exists, Row
  <2>4. \/ exec' = [exec EXCEPT ![f] = [@ EXCEPT !.pc = "over"]]
        \/ \E c \in BOOLEAN :
             exec' = [exec EXCEPT ![f] = [@ EXCEPT !.pc = "markRunning", !.cancellable = c]]
    BY <1>4, <2>3 DEF ExecGetJob
  <2> QED BY <2>1, <2>2, <2>4
<1>5. CASE ExecCommit(f) \/ ExecSkipUpdate(f)
  <2>1. exec[f].pc \in UpdatePcs /\ exec' = [exec EXCEPT ![f].pc = After[exec[f].pc]]
    BY <1>5 DEF ExecCommit, ExecSkipUpdate, TypeInv, ExecShape, UpdatePcs
  <2>2. After[exec[f].pc] \in {"check", "reschedule", "over"}
    BY <1>2, <2>1 DEF After, UpdatePcs
  <2> QED BY <1>1, <1>2, <2>1, <2>2 DEF ExecRecord
<1>6. CASE ExecLoad(f)
  BY <1>2, <1>6 DEF ExecLoad
<1>7. CASE ExecCheck(f) \/ FuncPolls(f) \/ FuncReturns(f)
  <2>1. (\E s \in FinishedStates : Ends(f, s)) \/ exec' = [exec EXCEPT ![f].pc = "func"]
    BY <1>7 DEF ExecCheck, FuncPolls, FuncReturns, FinishedStates
  <2> QED BY <1>1, <1>2, <2>1 DEF Ends, ExecRecord
<1>8. CASE FuncActs(f)
  <2>1. exec[f].pc = "func" /\ exec' = [exec EXCEPT ![f].delay = "later", ![f].lower = TRUE]
    BY <1>8 DEF FuncActs, RunsOnce
  <2> QED BY <1>1, <1>2, <2>1 DEF ExecRecord
<1>9. CASE ExecReschedule(f)
  <2> DEFINE j == exec[f].job
             p == IF exec[f].lower THEN LOW ELSE jobs[j].priority
             new == Rescheduled(jobs[j], exec[f].delay, p)
             time == RescheduleTime(jobs[j], exec[f].delay)
             goesOn == Exists(j) /\ Finished(jobs[j]) /\ MustReschedule(jobs[j], exec[f].delay)
  <2>1. exec' = [exec EXCEPT ![f] =
          IF goesOn THEN [@ EXCEPT !.pc = "schedule", !.delay = time, !.next = new]
                    ELSE [@ EXCEPT !.pc = "over"]]
    BY <1>9 DEF ExecReschedule
  <2>2. goesOn => Once(new) /\ new.priority = LOW /\ exec[f].lower = TRUE
    <3> SUFFICES ASSUME goesOn PROVE Once(new) /\ new.priority = LOW /\ exec[f].lower = TRUE
      OBVIOUS
    <3>1. j \in Jobs
      BY <1>9 DEF ExecReschedule, TypeInv, ExecShape
    <3>2. jobs[j].repeat = 0 /\ jobs[j].retry = "none"
      BY <3>1 DEF OnceInv, Once
    <3>3. exec[f].delay # "none"
      BY <3>2 DEF MustReschedule, Retries
    <3>4. p = LOW /\ exec[f].lower = TRUE
      BY <1>2, <3>3, Zenon
    <3> QED BY <3>2, <3>3, <3>4 DEF Rescheduled, Scheduled, Once
  <2> HIDE DEF new, goesOn, time
  <2> QED BY <1>1, <1>2, <2>1, <2>2 DEF ExecRecord
<1>10. CASE ExecSchedule(f)
  <2>1. exec[f].pc = "schedule" /\ \E pc \in {"over", "merge"} : exec' = [exec EXCEPT ![f].pc = pc]
    BY <1>10 DEF ExecSchedule
  <2> QED BY <1>1, <1>2, <2>1 DEF ExecRecord
<1>11. CASE ExecCallback(f)
  <2>1. exec' = [exec EXCEPT ![f] = FreeExec]
    BY <1>11 DEF ExecCallback, Untrack
  <2> QED BY <1>1, <2>1 DEF FreeExec
<1> QED BY <1>3, <1>4, <1>5, <1>6, <1>7, <1>8, <1>9, <1>10, <1>11 DEF ExecStep

\* The job that a request enqueues is to run once.
LEMMA OnceRequest ==
    ASSUME FreshIdsOnly, RunsOnce, TypeInv, BirthInv, OnceInv,
           NEW r \in Requests, RequestBegins(r) \/ RequestStep(r), Scheduling(r)'
    PROVE  Once(req'[r].next) /\ req'[r].next.saved.state = "QUEUED"
<1>1. req \in [Requests -> RequestRecord] /\ req[r] \in RequestRecord
  BY DEF TypeInv, TypeOK, RequestRecord
<1>2. Scheduling(r) => Once(req[r].next) /\ req[r].next.saved.state = "QUEUED"
  BY DEF OnceInv
<1>3. req'[r].pc \in {"schedule", "merge"}
  BY DEF Scheduling
<1>4. ASSUME NEW j \in Jobs, NEW k \in Kinds, RequestEnqueue(r, j, k) \/ RequestUpdate(r, j, k)
      PROVE  Once(req'[r].next) /\ req'[r].next.saved.state = "QUEUED"
  <2> DEFINE row == Scheduled(k.cancellable, k.priority, k.repeat, k.retry)
  <2>1. RequestEnqueue(r, j, k)
    BY <1>4 DEF RequestUpdate, FreshIdsOnly
  <2>2. k.repeat = 0 /\ k.retry = "none"
    BY DEF RunsOnce
  <2>3. Once(row) /\ row.saved.state = "QUEUED"
    BY <2>2 DEF Once, Scheduled
  <2>4. req' = [req EXCEPT ![r] = [pc |-> "schedule", job |-> j, time |-> k.time, next |-> row]]
    BY <2>1 DEF RequestEnqueue
  <2> HIDE DEF row
  <2>5. req'[r].next = row
    BY <1>1, <2>4
  <2> QED BY <2>3, <2>5
<1>5. ASSUME NEW j \in Jobs, NEW op \in ViewOps, RequestView(r, j, op) PROVE FALSE
  <2>1. req'[r].pc \in ViewOps
    BY <1>1, <1>5 DEF RequestView, NewRequest, ViewOps
  <2> QED BY <1>3, <2>1 DEF ViewOps
<1>6. CASE RequestSchedule(r)
  <2>1. req[r].pc = "schedule" /\ \E pc : Goes(r, pc)
    BY <1>6 DEF RequestSchedule
  <2>2. req'[r].next = req[r].next
    BY <1>1, <2>1 DEF Goes, RequestRecord
  <2> QED BY <1>2, <2>1, <2>2 DEF Scheduling
<1>7. CASE RequestLoad(r)
  <2>1. req' = req \/ Goes(r, "done")
    BY <1>7 DEF RequestLoad
  <2>2. req' = req
    BY <1>1, <1>3, <2>1 DEF Goes, RequestRecord
  <2> QED BY <1>2, <1>3, <2>2 DEF Scheduling
<1>8. CASE RequestCancel(r) \/ RequestDelete(r) \/ RequestCommit(r) \/ RequestClearAll(r)
  BY <1>1, <1>3, <1>8 DEF RequestCancel, RequestDelete, RequestCommit, RequestClearAll, Goes, RequestRecord
<1>9. ~RequestRestart(r) /\ ~RequestClearFirst(r)
  BY DEF BirthInv, RequestRestart, RequestClearFirst
<1> QED BY <1>4, <1>5, <1>6, <1>7, <1>8, <1>9 DEF RequestBegins, RequestStep

\* Threads that a step leaves alone keep their executions and requests.
LEMMA OthersStay ==
    ASSUME TypeInv, ~Crash, [Next]_vars
    PROVE  /\ \A f \in Futures : \/ ExecStep(f)
                                 \/ exec'[f] = exec[f]
                                 \/ /\ txn[f] = NoTxn /\ exec'[f].pc \in {"free", "pending"}
                                    /\ exec'[f].delay = "none"
           /\ \A r \in Requests : RequestBegins(r) \/ RequestStep(r) \/ req'[r] = req[r]
<1>1. FreeExec.delay = "none"
  BY DEF FreeExec
<1>2. \A g \in Futures : exec[g].job \in Jobs /\ Untrack(g) =>
        exec'[g].pc = "free" /\ exec'[g].delay = "none" /\ \A h \in Futures \ {g} : exec'[h] = exec[h]
  BY <1>1, UntrackType DEF TypeInv
<1>3. \A f \in Futures : exec[f].pc \in {"free", "pending"} => txn[f] = NoTxn
  BY DEF TypeInv, ExecShape, UpdatePcs
<1>4. CASE CheckerStep
  BY <1>2, <1>3, <1>4, CheckerMoves
<1>5. ASSUME NEW f \in Futures, ExecStep(f)
      PROVE  UNCHANGED req /\ \A g \in Futures : ExecStep(g) \/ exec'[g] = exec[g]
  BY <1>5, ExecMoves
<1>6. ASSUME NEW r \in Requests, RequestBegins(r) \/ RequestStep(r)
      PROVE  UNCHANGED exec /\ \A p \in Requests : RequestBegins(p) \/ RequestStep(p) \/ req'[p] = req[p]
  BY <1>6, RequestTable
<1>7. CASE MainStep
  BY <1>2, <1>3, <1>7, MainMoves
<1>8. CASE Stop \/ (\E j \in Jobs : TimePasses(j)) \/ UNCHANGED vars
  BY <1>8, RestMoves
<1> QED BY <1>4, <1>5, <1>6, <1>7, <1>8 DEF Next

\* Every step keeps OnceInv.
LEMMA OnceStep ==
    ASSUME FreshIdsOnly, RunsOnce, TypeInv, RunsInv, UpInv, OnceInv, ~Crash, [Next]_vars
    PROVE  OnceInv'
<1>1. ASSUME NEW j \in Jobs, jobs'[j] # NoRow PROVE Once(jobs'[j])
  <2>1. CASE jobs'[j] = jobs[j]
    BY <1>1, <2>1 DEF OnceInv, Exists
  <2>2. CASE jobs'[j] # jobs[j]
    <3>1. PICK a \in Actors : txn[a] # NoTxn /\ txn[a] \in Txn /\ jobs'[j] = Flush(jobs[j], txn[a])
      BY <1>1, <2>2, RowsChange
    <3> DEFINE cur == jobs[j]
               t == txn[a]
               row == jobs'[j]
    <3>2. /\ cur \in Row \cup {NoRow} /\ t \in Txn /\ row = Flush(cur, t) /\ row # cur /\ row # NoRow
          /\ Once(t.new) /\ (cur # NoRow => Once(cur))
      BY <1>1, <2>2, <3>1 DEF TypeInv, TypeOK, OnceInv, Exists
    <3> HIDE DEF cur, t, row
    <3>3. \/ row = t.new
          \/ /\ cur \in Row /\ row.repeat \in {cur.repeat, t.new.repeat}
             /\ row.retry = cur.retry \/ row.retry = t.new.retry
      BY <3>2, FlushParts
    <3>4. Once(row)
      BY <3>2, <3>3, DistinctValues DEF Once
    <3> QED BY <3>4 DEF row
  <2> QED BY <2>1, <2>2
<1>2. ASSUME NEW a \in Actors, txn'[a] # NoTxn PROVE Once(txn'[a].new)
  <2>1. CASE txn'[a] = txn[a]
    BY <1>2, <2>1 DEF OnceInv
  <2>2. CASE txn'[a] # txn[a]
    <3>1. /\ txn'[a].job \in Jobs /\ txn'[a].loaded = jobs[txn'[a].job]
          /\ \/ /\ txn'[a].loaded # NoRow
                /\ \/ txn'[a].new = Selected(txn'[a].loaded)
                   \/ \E s \in States : txn'[a].new = Marked(txn'[a].loaded, s)
             \/ a \in Futures /\ exec[a].pc \in {"progress", "saveCancellable"}
             \/ a \in Futures /\ exec[a].pc = "merge" /\ txn'[a].new = exec[a].next
             \/ a \in Requests /\ req[a].pc = "merge" /\ txn'[a].new = req[a].next
      <4>1. /\ "CANCELED" \in States /\ "RUNNING" \in States /\ "CANCELING" \in States
            /\ \A f \in Futures : exec[f].outcome \in States
            /\ main.pc \in {"markCanceling", "markCanceled"} => MarkOf[main.pc] \in States
        BY DEF States, FinishedStates, TypeInv, TypeOK, ExecRecord, MarkOf
      <4> QED BY <1>2, <2>2, <4>1, TxnsOpen
    <3>2. txn'[a].loaded # NoRow => txn'[a].loaded \in Row /\ Once(txn'[a].loaded)
      BY <3>1 DEF OnceInv, Exists, TypeInv, TypeOK
    <3> QED BY <3>1, <3>2, OnceKept DEF OnceInv, Scheduling
  <2> QED BY <2>1, <2>2
<1>3. ASSUME NEW r \in Requests, Scheduling(r)'
      PROVE  Once(req'[r].next) /\ req'[r].next.saved.state = "QUEUED"
  <2>1. CASE req'[r] = req[r]
    BY <1>3, <2>1 DEF OnceInv, Scheduling
  <2>2. CASE RequestBegins(r) \/ RequestStep(r)
    BY <1>3, <2>2, OnceRequest DEF RunsInv
  <2> QED BY <2>1, <2>2, OthersStay
<1>4. ASSUME NEW f \in Futures
      PROVE  /\ exec'[f].pc \notin {"progress", "saveCancellable"}
             /\ exec'[f].delay # "none" => exec'[f].lower = TRUE
             /\ exec'[f].pc \in {"schedule", "merge"} =>
                  Once(exec'[f].next) /\ exec'[f].next.priority = LOW
  <2>1. CASE exec'[f] = exec[f]
    BY <2>1 DEF OnceInv
  <2>2. CASE ExecStep(f)
    BY <2>2, OnceExec
  <2>3. CASE exec'[f].pc \in {"free", "pending"} /\ exec'[f].delay = "none"
    BY <2>3
  <2> QED BY <2>1, <2>2, <2>3, OthersStay
<1> QED BY <1>1, <1>2, <1>3, <1>4 DEF OnceInv, Exists

\* Every step keeps WritesInv.
LEMMA WritesStep ==
    ASSUME FreshIdsOnly, TypeInv, RunsInv, UpInv, OnceInv, WritesInv, ~Crash, [Next]_vars
    PROVE  WritesInv'
<1>1. ASSUME NEW f \in Futures, txn'[f] # NoTxn PROVE exec'[f] = exec[f]
  <2>1. CASE ExecStep(f)
    <3>1. Commits(f) => txn'[f] = NoTxn
      BY CommitType DEF Commits, TypeInv, Actors
    <3> QED BY <1>1, <2>1, <3>1, ExecTable DEF Quiet
  <2>2. CASE txn[f] = NoTxn /\ exec'[f] # exec[f] /\ ~ExecStep(f)
    <3>1. txn'[f] # txn[f] /\ f \in Actors
      BY <1>1, <2>2 DEF Actors
    <3>2. UNCHANGED exec
      BY <1>1, <3>1, TxnsOpen, DistinctValues
    <3> QED BY <3>2
  <2> QED BY <2>1, <2>2, OthersStay
<1>2. ASSUME NEW r \in Requests, txn'[r] # NoTxn PROVE req'[r] = req[r]
  <2>1. CASE RequestBegins(r) \/ RequestStep(r)
    <3>1. Commits(r) => txn'[r] = NoTxn
      BY CommitType DEF Commits, TypeInv, Actors
    <3> QED BY <1>2, <2>1, <3>1, RequestTable DEF Quiet
  <2> QED BY <2>1, OthersStay
<1>3. ASSUME NEW a \in Actors, txn'[a] # NoTxn
      PROVE  Merges(a)' \/ (txn'[a].loaded # NoRow /\ txn'[a].new.priority = txn'[a].loaded.priority)
  <2>1. Merges(a) => Merges(a)'
    BY <1>1, <1>2, <1>3 DEF Merges
  <2>2. CASE txn'[a] = txn[a]
    BY <1>3, <2>1, <2>2 DEF WritesInv
  <2>3. CASE txn'[a] # txn[a]
    <3>1. /\ txn'[a].job \in Jobs /\ txn'[a].loaded = jobs[txn'[a].job]
          /\ \/ /\ txn'[a].loaded # NoRow
                /\ \/ txn'[a].new = Selected(txn'[a].loaded)
                   \/ \E s \in States : txn'[a].new = Marked(txn'[a].loaded, s)
             \/ a \in Futures /\ exec[a].pc \in {"progress", "saveCancellable"}
             \/ Merges(a)
      <4>1. /\ "CANCELED" \in States /\ "RUNNING" \in States /\ "CANCELING" \in States
            /\ \A f \in Futures : exec[f].outcome \in States
            /\ main.pc \in {"markCanceling", "markCanceled"} => MarkOf[main.pc] \in States
        BY DEF States, FinishedStates, TypeInv, TypeOK, ExecRecord, MarkOf
      <4> QED BY <1>3, <2>3, <4>1, TxnsOpen DEF Merges
    <3>2. txn'[a].loaded # NoRow => txn'[a].loaded \in Row /\ Once(txn'[a].loaded)
      BY <3>1 DEF OnceInv, Exists, TypeInv, TypeOK
    <3> QED BY <2>1, <3>1, <3>2, OnceKept DEF OnceInv
  <2> QED BY <2>2, <2>3
<1>4. ASSUME NEW r \in Requests, txn'[r] # NoTxn
      PROVE  /\ req'[r].pc = "mark" => txn'[r].new = Marked(txn'[r].loaded, "CANCELING")
             /\ req'[r].pc = "merge" => txn'[r].new = req'[r].next
  <2>1. req'[r] = req[r] /\ r \in Actors
    BY <1>2, <1>4 DEF Actors
  <2>2. CASE txn'[r] = txn[r]
    BY <1>4, <2>1, <2>2 DEF WritesInv
  <2>3. CASE txn'[r] # txn[r]
    BY <1>4, <2>1, <2>3, TxnsOpen, DistinctValues
  <2> QED BY <2>2, <2>3
<1>5. ASSUME NEW f \in Futures, txn'[f] # NoTxn
      PROVE  /\ exec'[f].pc = "markRunning" => txn'[f].new = Marked(txn'[f].loaded, "RUNNING")
             /\ exec'[f].pc = "merge" =>
                  LET j == exec'[f].job IN
                  /\ txn'[f].new.priority = LOW
                  /\ txn'[f].loaded # NoRow /\ txn'[f].loaded.priority = LOW /\ jobs'[j] # NoRow
                       => jobs'[j].priority = LOW
  <2>1. exec'[f] = exec[f] /\ f \in Actors
    BY <1>1, <1>5 DEF Actors
  <2>2. CASE txn'[f] # txn[f]
    <3>1. /\ jobs' = jobs /\ txn'[f].job = exec[f].job /\ txn'[f].loaded = jobs[txn'[f].job]
          /\ exec[f].pc = "markRunning" => txn'[f].new = Marked(txn'[f].loaded, "RUNNING")
          /\ exec[f].pc = "merge" => txn'[f].new = exec[f].next
      BY <1>5, <2>1, <2>2, TxnsOpen, DistinctValues
    <3> QED BY <2>1, <3>1 DEF OnceInv
  <2>3. CASE txn'[f] = txn[f]
    <3> DEFINE j == exec[f].job
    <3>1. /\ exec[f].pc = "markRunning" => txn[f].new = Marked(txn[f].loaded, "RUNNING")
          /\ exec[f].pc = "merge" =>
               /\ txn[f].new.priority = LOW
               /\ txn[f].loaded # NoRow /\ txn[f].loaded.priority = LOW /\ jobs[j] # NoRow
                    => jobs[j].priority = LOW
      BY <1>5, <2>3 DEF WritesInv, Exists
    <3>2. ASSUME exec[f].pc = "merge", jobs'[j] # NoRow
          PROVE  jobs[j] # NoRow /\ jobs'[j].priority = jobs[j].priority
      <4>1. CASE jobs'[j] = jobs[j]
        BY <3>2, <4>1
      <4>2. CASE jobs'[j] # jobs[j]
        <5>1. j \in Jobs /\ Live(f)
          BY <3>2 DEF TypeInv, ExecShape, Live
        <5>2. PICK a \in Actors :
                /\ txn[a] # NoTxn /\ txn[a] \in Txn /\ txn'[a] = NoTxn
                /\ jobs'[j] = Flush(jobs[j], txn[a])
                /\ \/ a \in {Checker, Main}
                   \/ a \in Futures /\ exec[a].job = j /\ exec[a].pc \in UpdatePcs
                   \/ a \in Requests /\ req[a].job = j
          BY <3>2, <4>2, <5>1, RowsChange
        <5>3. a # f
          BY <1>5, <5>2
        <5>4. ~Merges(a)
          <6>1. a \in Requests => ~Scheduling(a) \/ req[a].job # j
            BY <3>2 DEF RunsInv, BirthInv, Unborn
          <6>2. a \in Futures => exec[a].pc # "merge" \/ exec[a].job # j
            BY <5>1, <5>3 DEF RunsInv, NoConcurrentRuns, Live
          <6> QED BY <5>2, <6>1, <6>2, DistinctValues DEF Merges, Scheduling
        <5> DEFINE cur == jobs[j]
                   t == txn[a]
        <5>5. /\ cur \in Row \cup {NoRow} /\ t \in Txn /\ Flush(cur, t) # cur /\ Flush(cur, t) # NoRow
              /\ t.loaded # NoRow /\ t.new.priority = t.loaded.priority
          BY <3>2, <4>2, <5>1, <5>2, <5>4 DEF TypeInv, TypeOK, WritesInv
        <5> HIDE DEF cur, t
        <5>6. cur # NoRow /\ Flush(cur, t).priority = cur.priority
          BY <5>5, FlushParts, DistinctValues
        <5> QED BY <5>2, <5>6 DEF cur, t
      <4> QED BY <4>1, <4>2
    <3> QED BY <2>1, <2>3, <3>1, <3>2
  <2> QED BY <2>2, <2>3
<1>6. ASSUME txn'[Main] # NoTxn, main'.pc = "markCanceling"
      PROVE  txn'[Main].new = Marked(txn'[Main].loaded, "CANCELING")
  <2>1. Main \in Actors
    BY DEF Actors
  <2>2. CASE txn'[Main] = txn[Main]
    <3>1. main.pc \in MarkPcs /\ txn[Main] # NoTxn
      BY <1>6, <2>2 DEF TypeInv, MainShape
    <3>2. ~MainStep
      <4>1. ~Commits(Main) /\ ~Opens(Main)
        BY <2>1, <2>2, <3>1, CommitType DEF Commits, Opens, TypeInv
      <4> QED BY <3>1, <4>1, MainTable
    <3>3. ~Stop
      BY <3>1 DEF Stop, MarkPcs
    <3>4. main' = main
      BY <3>2, <3>3, CheckerMoves, ExecMoves, RequestTable DEF Next, TimePasses, vars
    <3> QED BY <1>6, <2>2, <3>1, <3>4 DEF WritesInv
  <2>3. CASE txn'[Main] # txn[Main]
    BY <1>6, <2>1, <2>3, TxnsOpen, DistinctValues DEF MarkOf
  <2> QED BY <2>2, <2>3
<1> QED BY <1>3, <1>4, <1>5, <1>6 DEF WritesInv, Exists

\* Where the checker takes the jobs from that it marks as canceled.
LEMMA ChecksMoves ==
    ASSUME TypeInv, ~Crash, [Next]_vars
    PROVE  /\ \A j \in chk'.todo : j \in chk.todo \/ (Exists(j) /\ jobs[j].state = "CANCELING")
           /\ chk'.pc = "mark" =>
                \/ chk.pc = "mark" /\ chk'.job = chk.job
                \/ /\ chk.pc = "cancel" /\ chk'.job \in chk.todo
                   /\ fjm[chk'.job] = NoFuture \/ Droppable(chk'.job)
<1>1. chk \in [pc : CheckerPcs, job : Jobs \cup {NoJob}, todo : SUBSET Jobs]
  BY DEF TypeInv, TypeOK
<1>2. CASE CheckerLoad \/ CheckerNone \/ CheckerLoopEnds \/ CheckerWakes
  BY <1>1, <1>2 DEF CheckerLoad, CheckerNone, CheckerLoopEnds, CheckerWakes
<1>3. CASE CheckerStart
  BY <1>1, <1>3 DEF CheckerStart, IdleChecker
<1>4. CASE CheckerScan
  BY <1>1, <1>4 DEF CheckerScan
<1>5. ASSUME NEW j \in Jobs, CheckerCancel(j)
      PROVE  /\ chk'.todo \subseteq chk.todo
             /\ chk'.pc = "mark" => /\ chk.pc = "cancel" /\ chk'.job \in chk.todo
                                    /\ fjm[chk'.job] = NoFuture \/ Droppable(chk'.job)
  BY <1>1, <1>5 DEF CheckerCancel
<1>6. CASE CheckerMark
  BY <1>1, <1>6 DEF CheckerMark
<1>7. CASE CheckerStep
  BY <1>2, <1>3, <1>4, <1>5, <1>6, <1>7 DEF CheckerStep
<1>8. CASE MainStep
  <2>1. chk' = chk \/ chk' = IdleChecker
    BY <1>8 DEF MainStep, Start, MainNext, MainUp, MainJoined, MainMark, MainDrop, MainDown
  <2> QED BY <2>1 DEF IdleChecker
<1>9. CASE ~CheckerStep /\ ~MainStep
  <2>1. chk' = chk
    BY <1>9, RestMoves, ExecMoves, RequestTable DEF Next
  <2> QED BY <2>1
<1> QED BY <1>7, <1>8, <1>9

\* A request marks a job that was past the queue when it looked.
LEMMA MarksMoves ==
    ASSUME TypeInv, ~Crash, [Next]_vars, NEW r \in Requests, req'[r].pc = "mark"
    PROVE  \/ req[r].pc = "mark" /\ req'[r].job = req[r].job
           \/ Exists(req'[r].job) /\ jobs[req'[r].job].saved.state # "QUEUED"
<1>1. req \in [Requests -> RequestRecord] /\ req[r] \in RequestRecord
  BY DEF TypeInv, TypeOK, RequestRecord
<1>2. CASE RequestBegins(r)
  <2>1. ASSUME NEW j \in Jobs, NEW k \in Kinds, RequestEnqueue(r, j, k) \/ RequestUpdate(r, j, k)
        PROVE  req'[r].pc = "schedule"
    <3>1. \E row, time :
            req' = [req EXCEPT ![r] = [pc |-> "schedule", job |-> j, time |-> time, next |-> row]]
      BY <2>1 DEF RequestEnqueue, RequestUpdate
    <3> QED BY <1>1, <3>1
  <2>2. ASSUME NEW j \in Jobs, NEW op \in ViewOps, RequestView(r, j, op) PROVE req'[r].pc \in ViewOps
    BY <1>1, <2>2 DEF RequestView, NewRequest, ViewOps
  <2>3. RequestClearAll(r) => req'[r].pc = "done"
    BY <1>1 DEF RequestClearAll, Goes, RequestRecord
  <2> QED BY <1>2, <2>1, <2>2, <2>3 DEF RequestBegins, ViewOps
<1>3. CASE RequestCancel(r)
  BY <1>1, <1>3 DEF RequestCancel, Goes, RequestRecord
<1>4. CASE RequestLoad(r)
  BY <1>1, <1>4 DEF RequestLoad, Goes, RequestRecord
<1>5. CASE \/ RequestDelete(r) \/ RequestClearFirst(r) \/ RequestSchedule(r) \/ RequestCommit(r)
  BY <1>1, <1>5 DEF RequestDelete, RequestClearFirst, RequestSchedule, RequestCommit, Goes, RequestRecord
<1>6. CASE RequestRestart(r)
  <2>1. req'[r].pc \in {"clearFirst", "done"}
    BY <1>1, <1>6 DEF RequestRestart
  <2> QED BY <2>1
<1>7. CASE RequestStep(r)
  BY <1>3, <1>4, <1>5, <1>6, <1>7 DEF RequestStep
<1> QED BY <1>2, <1>7, OthersStay

\* Every step keeps CalmInv: a job that waits has not been asked to end.
LEMMA CalmStep ==
    ASSUME FreshIdsOnly, TypeInv, WritersInv, RunsInv, OverIsLater, TrackedInv,
           UpInv, OnceInv, WritesInv, CalmInv, ~Crash, [Next]_vars,
           TypeInv', RunsInv', OverIsLater', TrackedInv'
    PROVE  CalmInv'
<1> SUFFICES ASSUME NEW j \in Jobs, Waits(j)'
             PROVE  /\ jobs'[j] # NoRow => /\ jobs'[j].state \in {"QUEUED", "SELECTED"}
                                           /\ jobs'[j].saved.state = "QUEUED"
                    /\ \A r \in Requests : req'[r].pc = "mark" => req'[r].job # j
                    /\ j \notin chk'.todo /\ (chk'.pc = "mark" => chk'.job # j)
                    /\ j \notin main'.todo /\ (main'.pc \in StopPcs => main'.job # j)
                    /\ \A f \in Futures :
                         exec'[f].pc \notin EarlyPcs \cup {"free"} => exec'[f].job # j
                    /\ chk'.pc = "select" /\ chk'.job = j
                         => txn'[Checker].loaded.saved.state = "QUEUED"
  BY DEF CalmInv, Exists
<1>1. /\ Exists(j) => jobs[j].state \in {"QUEUED", "SELECTED"} /\ jobs[j].saved.state = "QUEUED"
      /\ \A r \in Requests : req[r].pc = "mark" => req[r].job # j
      /\ j \notin chk.todo /\ (chk.pc = "mark" => chk.job # j)
      /\ j \notin main.todo /\ (main.pc \in StopPcs => main.job # j)
      /\ \A f \in Futures : exec[f].pc \notin EarlyPcs \cup {"free"} => exec[f].job # j
      /\ chk.pc = "select" /\ chk.job = j => txn[Checker].loaded.saved.state = "QUEUED"
  BY WaitsMoves DEF CalmInv
<1>2. \A f \in Futures :
        exec'[f].pc \notin EarlyPcs \cup {"free"} /\ (Live(f)' \/ jobs'[exec'[f].job] = NoRow)
          => exec'[f].job # j
  <2>1. (\A f \in Futures :
           exec[f].pc \notin EarlyPcs \cup {"free"} /\ (Live(f) \/ ~Exists(exec[f].job))
             => ~Waits(exec[f].job))'
    BY RunIsOn, PTL
  <2> QED BY <2>1 DEF Exists
<1>3. \A f \in Futures : exec'[f].pc \notin EarlyPcs \cup {"free"} => exec'[f].job # j
  <2> SUFFICES ASSUME NEW f \in Futures, exec'[f].pc \notin EarlyPcs \cup {"free"}, exec'[f].job = j
               PROVE  FALSE
    OBVIOUS
  <2>1. ~(Live(f)') /\ jobs'[j] # NoRow
    BY <1>2
  <2>2. exec'[f].pc = "over"
    BY <2>1 DEF Live
  <2> QED BY <1>1, <2>1, <2>2, EarlyMoves DEF Exists, EarlyPcs
<1>4. ASSUME jobs'[j] # NoRow
      PROVE  jobs'[j].state \in {"QUEUED", "SELECTED"} /\ jobs'[j].saved.state = "QUEUED"
  <2>1. CASE jobs'[j] = jobs[j]
    BY <1>1, <1>4, <2>1 DEF Exists
  <2>2. CASE jobs'[j] # jobs[j]
    <3>1. PICK a \in Actors :
            /\ txn[a] # NoTxn /\ txn[a] \in Txn /\ txn[a].job = j /\ jobs'[j] = Flush(jobs[j], txn[a])
            /\ \/ a = Checker /\ chk.pc \in {"select", "mark"} /\ chk.job = j
               \/ a = Main /\ main.pc \in {"markCanceling", "markCanceled"} /\ main.job = j
               \/ /\ a \in Futures /\ ExecStep(a) /\ exec[a].job = j /\ exec[a].pc \in UpdatePcs
                  /\ exec'[a].pc = After[exec[a].pc] /\ exec'[a].job = j
               \/ a \in Requests /\ req[a].job = j /\ req[a].pc \in {"merge", "mark"}
      BY <1>4, <2>2, RowsChange
    <3> DEFINE cur == jobs[j]
               t == txn[a]
               row == jobs'[j]
    <3>2. /\ cur \in Row \cup {NoRow} /\ t \in Txn /\ row = Flush(cur, t) /\ row # cur /\ row # NoRow
          /\ cur # NoRow => cur.state \in {"QUEUED", "SELECTED"} /\ cur.saved.state = "QUEUED"
      BY <1>1, <1>4, <2>2, <3>1 DEF TypeInv, TypeOK, Exists
    <3>3. t.new.state \in {"QUEUED", "SELECTED"} /\ t.new.saved.state = "QUEUED"
      <4>1. CASE a = Checker /\ chk.job = j /\ chk.pc \in {"select", "mark"}
        <5>1. chk.pc = "select"
          BY <1>1, <4>1
        <5>2. t.new = Selected(t.loaded) /\ t.loaded # NoRow /\ t.loaded.saved.state = "QUEUED"
          BY <1>1, <3>1, <4>1, <5>1 DEF TypeInv, CheckerShape
        <5>3. t.loaded \in Row
          BY <3>2, <5>2 DEF Txn
        <5> QED BY <5>2, <5>3 DEF Selected, Row
      <4>2. CASE a \in Futures /\ exec[a].job = j /\ exec[a].pc \in UpdatePcs
                 /\ exec'[a].pc = After[exec[a].pc] /\ exec'[a].job = j
        <5>1. exec[a].pc = "markRunning"
          BY <1>1, <4>2 DEF EarlyPcs, UpdatePcs
        <5>2. exec'[a].pc = "check"
          BY <4>2, <5>1 DEF After
        <5> QED BY <1>2, <4>2, <5>2 DEF Live, EarlyPcs
      <4>3. CASE a \in Requests /\ req[a].job = j /\ req[a].pc \in {"merge", "mark"}
        <5>1. req[a].pc = "merge" /\ Scheduling(a)
          BY <1>1, <4>3 DEF Scheduling
        <5>2. t.new = req[a].next
          BY <3>1, <4>3, <5>1 DEF WritesInv
        <5> QED BY <4>3, <5>1, <5>2 DEF OnceInv, WritersInv
      <4>4. ~(main.pc \in {"markCanceling", "markCanceled"} /\ main.job = j)
        BY <1>1 DEF StopPcs
      <4> QED BY <3>1, <4>1, <4>2, <4>3, <4>4
    <3> HIDE DEF cur, t, row
    <3>4. \/ row = t.new
          \/ /\ cur \in Row /\ row.state \in {cur.state, t.new.state}
             /\ row.saved = t.new.saved \/ row.saved = cur.saved
      BY <3>2, FlushParts
    <3>5. row.state \in {"QUEUED", "SELECTED"} /\ row.saved.state = "QUEUED"
      BY <3>2, <3>3, <3>4, DistinctValues
    <3> QED BY <3>5 DEF row
  <2> QED BY <2>1, <2>2
<1>5. \A r \in Requests : req'[r].pc = "mark" => req'[r].job # j
  BY <1>1, MarksMoves
<1>6. j \notin chk'.todo /\ (chk'.pc = "mark" => chk'.job # j)
  BY <1>1, ChecksMoves
<1>7. chk'.pc = "select" /\ chk'.job = j => txn'[Checker].loaded.saved.state = "QUEUED"
  BY <1>1, CheckerPicks, CheckerLeftAlone
<1>8. j \notin main'.todo /\ (main'.pc \in StopPcs => main'.job # j)
  <2>1. j \notin RunningJobs
    BY <1>1 DEF RunningJobs
  <2> QED BY <1>1, <2>1, StopMoves
<1> QED BY <1>3, <1>4, <1>5, <1>6, <1>7, <1>8

\* All that holds of jobs that run once.
OnceThrough ==
    /\ WritersInv /\ BackedInv /\ RunsInv /\ DelaysInv /\ OverIsLater /\ TrackedInv
    /\ UpInv /\ OnceInv /\ WritesInv /\ CalmInv

LEMMA OnceThroughAlways ==
    ASSUME FreshIdsOnly, RunsOnce
    PROVE  Spec => [](TypeInv /\ OnceThrough)
<1>1. Init => OnceThrough
  <2> SUFFICES ASSUME Init PROVE OnceThrough
    OBVIOUS
  <2>1. /\ \A f \in Futures : exec[f].pc = "free" /\ exec[f].delay = "none"
        /\ \A a \in Actors : txn[a] = NoTxn
        /\ \A j \in Jobs : ~Exists(j)
        /\ \A r \in Requests : req[r].pc = "new"
        /\ chk.pc = "off" /\ chk.todo = {}
        /\ main.pc = "down" /\ main.todo = {}
    BY DEF Init, FreeExec, IdleChecker, NewRequest, Exists
  <2>2. Futures \subseteq Actors /\ Requests \subseteq Actors /\ Checker \in Actors
    BY DEF Actors
  <2>3. WritersInv /\ RunsInv
    BY WritersInit, RunsInit
  <2>4. DelaysInv /\ OverIsLater /\ TrackedInv
    BY <2>1 DEF DelaysInv, OverIsLater, TrackedInv, Actors
  <2>5. UpInv /\ OnceInv /\ WritesInv /\ BackedInv
    <3>1. RunningJobs = {}
      BY <2>1 DEF RunningJobs
    <3> QED BY <2>1, <2>2, <3>1 DEF UpInv, OnceInv, WritesInv, BackedInv, Scheduling, Actors
  <2>6. CalmInv
    BY <2>1 DEF CalmInv, StopPcs
  <2> QED BY <2>3, <2>4, <2>5, <2>6 DEF OnceThrough
<1>2. TypeInv /\ OnceThrough /\ [Next]_vars => OnceThrough'
  <2> SUFFICES ASSUME TypeInv, OnceThrough, [Next]_vars PROVE OnceThrough'
    OBVIOUS
  <2> USE DEF OnceThrough
  <2>1. TypeInv' /\ WritersInv' /\ BackedInv' /\ UpInv' /\ ~Crash
    BY TypeStep, WritersStep, BackedStep, UpStep
  <2>2. RunsInv'
    BY BirthStep, QueuedStep, AloneStep DEF RunsInv
  <2>3. DelaysInv' /\ OverIsLater' /\ TrackedInv'
    <3>1. "retryNow" \notin Body /\ \A j \in Jobs : Exists(j) => jobs[j].retry # "now"
      BY DEF RunsOnce, OnceInv, Once
    <3> QED BY <3>1, DelaysStep, OverStep, TrackedStep
  <2>4. OnceInv' /\ WritesInv'
    BY <2>1, OnceStep, WritesStep
  <2>5. CalmInv'
    BY <2>1, <2>2, <2>3, CalmStep
  <2> QED BY <2>1, <2>2, <2>3, <2>4, <2>5
<1> QED BY <1>1, <1>2, TypesHold, PTL DEF Spec

\* A job that is in a run was in it before, or waited for it.
LEMMA RunMoves ==
    ASSUME TypeInv, UpInv, OnceInv, ~Crash, [Next]_vars, NEW j \in Jobs, InRun(j)'
    PROVE  Waits(j) \/ InRun(j)
<1>1. PICK f \in Futures : exec'[f].pc \notin EarlyPcs \cup {"free"} /\ exec'[f].job = j
  BY DEF InRun
<1>2. exec[f].job = j /\ exec[f].pc # "free"
  BY <1>1, EarlyMoves DEF EarlyPcs
<1>3. CASE exec[f].pc \in EarlyPcs
  BY <1>2, <1>3 DEF Waits
<1>4. CASE exec[f].pc \notin EarlyPcs
  BY <1>2, <1>4 DEF InRun
<1> QED BY <1>3, <1>4

\* OneLife: for jobs that run once the function is called once at most, whatever is
\* enqueued, canceled and deleted meanwhile, and however often the server stops and
\* starts (enqueue_job, get_next_queued_job, requeue_stalled_jobs, shutdown).
THEOREM RunsOnlyOnce ==
    ASSUME FreshIdsOnly, RunsOnce
    PROVE  Spec => OneLife
<1>1. OnceThrough => \A j \in Jobs : ~(Waits(j) /\ InRun(j))
  BY DEF OnceThrough, CalmInv, InRun
<1>2. /\ TypeInv /\ OnceThrough /\ [Next]_vars
      => [\A j \in Jobs : /\ Waits(j)' => Waits(j)
                          /\ InRun(j)' => Waits(j) \/ InRun(j)]_vars
  <2> SUFFICES ASSUME TypeInv, OnceThrough, [Next]_vars, NEW j \in Jobs
               PROVE  /\ Waits(j)' => Waits(j)
                      /\ InRun(j)' => Waits(j) \/ InRun(j)
    OBVIOUS
  <2>1. ~Crash
    BY UpStep DEF OnceThrough
  <2> QED BY <2>1, WaitsMoves, RunMoves DEF OnceThrough
<1> QED BY <1>1, <1>2, OnceThroughAlways, PTL DEF Spec, OneLife
=============================================================================
