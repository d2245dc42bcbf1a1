--------------------------- MODULE SyncClientProofs ---------------------------
(***************************************************************************)
(* For any number of users, hooks and attempts: the state of SyncClient    *)
(* has its type, and the attempts at a user are bounded.                   *)
(***************************************************************************)
EXTENDS SyncClient, TLAPS

Places == HookPlaces \cup JobPlaces

\* A row that backs off or is reset is a row.
LEMMA RowBacksOff ==
    ASSUME NEW r \in Row
    PROVE  /\ BackOff(r) \in Row /\ BackOff(r).attempts = r.attempts + 1
           /\ Reset(r, "due") \in Row /\ Reset(r, "due").attempts = 0
           /\ Reset(r, "later") \in Row /\ Reset(r, "later").attempts = 0
<1>1. BackOff(r) \in Row /\ BackOff(r).attempts = r.attempts + 1
  <2>1. r.status \in Statuses /\ r.attempts \in Nat /\ r.session \in {"none", "open"}
      BY DEF Row
  <2> DEFINE q == [r EXCEPT !.attempts = @ + 1]
  <2>2. q \in Row /\ q.attempts = r.attempts + 1
      BY <2>1 DEF Row
  <2>3. BackOff(r) = [q EXCEPT !.time = "later"]
      BY DEF Row, BackOff
  <2> HIDE DEF q
  <2> QED
      BY <2>2, <2>3 DEF Row
<1>2. Reset(r, "due") \in Row /\ Reset(r, "due").attempts = 0
    BY DEF Row, Reset
<1>3. Reset(r, "later") \in Row /\ Reset(r, "later").attempts = 0
    BY DEF Row, Reset
<1> QED
    BY <1>1, <1>2, <1>3

\* A row with another status and session is a row with the same attempts.
LEMMA RowIsMarked ==
    ASSUME NEW r \in Row, NEW s \in Statuses, NEW x \in {"none", "open"}
    PROVE  Marked(r, s, x) \in Row /\ Marked(r, s, x).attempts = r.attempts
<1> DEFINE q == [r EXCEPT !.status = s]
<1>1. q \in Row /\ q.attempts = r.attempts
    BY DEF Row
<1>2. Marked(r, s, x) = [q EXCEPT !.session = x]
    BY DEF Row, Marked
<1> HIDE DEF q
<1> QED
    BY <1>1, <1>2 DEF Row

\* Every answer to a request is saved as a row, with at most one attempt more.
LEMMA OutcomeRow ==
    ASSUME NEW r \in Row, NEW o \in Outcomes(r)
    PROVE  o \in Row /\ o.attempts <= r.attempts + 1
<1> DEFINE B == BackOff(r)
           D == Reset(r, "due")
           L == Reset(r, "later")
<1>1. /\ B \in Row /\ B.attempts = r.attempts + 1 /\ r.attempts \in Nat
      /\ D \in Row /\ D.attempts = 0 /\ L \in Row /\ L.attempts = 0 /\ r.session \in {"none", "open"}
    BY RowBacksOff DEF Row
<1>2. \/ o = [B EXCEPT !.session = "none"] \/ o = B
      \/ \E s \in {r.session, "open"} : o = Marked(D, "READY", s)
      \/ o = [L EXCEPT !.status = "QUEUED"] \/ o = [r EXCEPT !.status = "INELIGIBLE"]
      \/ o = [B EXCEPT !.status = "PENDING"] \/ o = [r EXCEPT !.status = "PENDING"]
    BY DEF Outcomes
<1> HIDE DEF B, D, L
<1>3. CASE o = [B EXCEPT !.session = "none"]
    BY <1>1, <1>3 DEF Row, Statuses
<1>4. CASE o = B
    BY <1>1, <1>4
<1>7. CASE o = [B EXCEPT !.status = "PENDING"]
    BY <1>1, <1>7 DEF Row, Statuses
<1>8. CASE \E s \in {r.session, "open"} : o = Marked(D, "READY", s)
  <2>1. PICK s \in {"none", "open"} : o = Marked(D, "READY", s)
      BY <1>1, <1>8
  <2> QED
      BY <1>1, <2>1, RowIsMarked DEF Statuses
<1>5. CASE o = [L EXCEPT !.status = "QUEUED"]
    BY <1>1, <1>5 DEF Row, Statuses
<1>6. CASE o = [r EXCEPT !.status = "INELIGIBLE"] \/ o = [r EXCEPT !.status = "PENDING"]
    BY <1>1, <1>6 DEF Row, Statuses
<1> QED
    BY <1>2, <1>3, <1>4, <1>5, <1>6, <1>7, <1>8

\* So is what was set of a row when an answer cannot be read, with no attempt more.
LEMMA HalfReadRow ==
    ASSUME NEW r \in Row, NEW o \in HalfRead(r)
    PROVE  o \in Row /\ o.attempts <= r.attempts + 1
<1> DEFINE D == Reset(r, "due")
<1>1. D \in Row /\ D.attempts = 0 /\ r.attempts \in Nat /\ r.session \in {"none", "open"}
    BY RowBacksOff DEF Row
<1>2. o = r \/ o = Marked(D, "READY", r.session) \/ o = [r EXCEPT !.status = "QUEUED"]
    BY DEF HalfRead
<1> HIDE DEF D
<1>3. CASE o = r
    BY <1>1, <1>3
<1>4. CASE o = Marked(D, "READY", r.session)
    BY <1>1, <1>4, RowIsMarked DEF Statuses
<1>5. CASE o = [r EXCEPT !.status = "QUEUED"]
    BY <1>1, <1>5 DEF Row, Statuses
<1> QED
    BY <1>2, <1>3, <1>4, <1>5

\* Every result of a sync is saved as a row, with at most one attempt more.
LEMMA ResultRow ==
    ASSUME NEW r \in Row, NEW o \in Results(r)
    PROVE  o \in Row /\ o.attempts <= r.attempts + 1
<1> DEFINE B == BackOff(r)
           L == Reset(r, "later")
<1>1. /\ B \in Row /\ B.attempts = r.attempts + 1 /\ r.attempts \in Nat
      /\ L \in Row /\ L.attempts = 0
    BY RowBacksOff DEF Row
<1>2. \/ o = [L EXCEPT !.status = "PENDING"]
      \/ o = Marked(B, "PENDING", "none")
      \/ o = Marked(r, "READY", "none")
    BY DEF Results
<1> HIDE DEF B, L
<1>3. CASE o = [L EXCEPT !.status = "PENDING"]
    BY <1>1, <1>3 DEF Row, Statuses
<1>4. CASE o = Marked(B, "PENDING", "none")
    BY <1>1, <1>4, RowIsMarked DEF Statuses
<1>5. CASE o = Marked(r, "READY", "none")
    BY <1>1, <1>5, RowIsMarked DEF Statuses
<1> QED
    BY <1>2, <1>3, <1>4, <1>5

\* Time leaves a row a row, and its attempts alone.
LEMMA OlderRow ==
    ASSUME NEW r \in Row
    PROVE  Older(r) \in Row /\ Older(r).attempts = r.attempts
BY DEF Older, Row

\* What the hooks of a transfer make of a row is a row with the same attempts.
LEMMA TransferRow ==
    ASSUME NEW r \in Row, NEW t \in {"due", "later"}
    PROVE  /\ [r EXCEPT !.status = "SYNCING", !.session = "open", !.time = t] \in Row
           /\ [r EXCEPT !.status = "SYNCING", !.session = "open", !.time = t].attempts = r.attempts
           /\ [r EXCEPT !.status = "PENDING", !.time = t] \in Row
           /\ [r EXCEPT !.status = "PENDING", !.time = t].attempts = r.attempts
<1> DEFINE p == [r EXCEPT !.status = "PENDING"]
           m == Marked(r, "SYNCING", "open")
<1>1. p \in Row /\ m \in Row /\ p.attempts = r.attempts /\ m.attempts = r.attempts
    BY RowIsMarked DEF Row, Statuses
<1>2. /\ [r EXCEPT !.status = "SYNCING", !.session = "open", !.time = t] = [m EXCEPT !.time = t]
      /\ [r EXCEPT !.status = "PENDING", !.time = t] = [p EXCEPT !.time = t]
    BY DEF Marked
<1> HIDE DEF p, m
<1>3. ASSUME NEW q \in Row
      PROVE  [q EXCEPT !.time = t] \in Row /\ [q EXCEPT !.time = t].attempts = q.attempts
    BY DEF Row
<1> QED
    BY <1>1, <1>2, <1>3

\* What is loaded is a row: the one of the table, or a new one without attempts.
LEMMA LoadedRow ==
    ASSUME TypeOK, NEW u \in Users
    PROVE  /\ Loaded(u) \in Row
           /\ Exists(u) => Loaded(u) = queue[u]
           /\ ~Exists(u) => Loaded(u).attempts = 0
BY DEF TypeOK, Loaded, Exists, NewRow, Row, Statuses

\* What is no row and no thread keeps its type.
CountersTyped ==
    /\ job' \in JobStates /\ again' \in BOOLEAN
    /\ crashes' \in 0 .. MaxCrashes /\ raised' \in 0 .. MaxRaised

\* So does the table, and no row vanishes.
RestTyped ==
    /\ queue' \in [Users -> Row \cup {NoRow}]
    /\ \A u \in Users : Exists(u) => queue'[u] # NoRow
    /\ CountersTyped

\* A row that is saved is in the table, where the others stay.
LEMMA RowSaved ==
    ASSUME TypeOK, CountersTyped, NEW u \in Users, NEW r \in Row,
           queue' = [queue EXCEPT ![u] = r]
    PROVE  RestTyped /\ queue'[u] # NoRow
BY NoRowAssumption DEF TypeOK, RestTyped, Exists

PlacesOf(a) == IF a = Job THEN JobPlaces ELSE HookPlaces

\* The type after a step that moves one thread.
LEMMA ThreadMoves ==
    ASSUME TypeOK, RestTyped, NEW a \in Actors, NEW p \in PlacesOf(a),
           NEW d \in SUBSET Users, NEW u \in Users \cup {NoUser}, NEW r \in Row \cup {NoRow},
           r # NoRow <=> p \in {"reset", "save", "syncing"},
           p \in {"load", "reset", "save", "syncing"} => u \in Users,
           p \in {"reset", "save", "syncing"} => queue'[u] # NoRow,
           act' = [act EXCEPT ![a] = At(p, d, u, r)]
    PROVE  TypeOK'
<1> DEFINE t == At(p, d, u, r)
<1>1. t \in Thread(PlacesOf(a)) /\ t \in Thread(Places)
    BY DEF Thread, Places, PlacesOf, At
<1>2. t.obj = r /\ t.pc = p /\ t.of = u
    BY DEF At
<1> HIDE DEF t
<1>3. act \in [Actors -> Thread(Places)]
    BY DEF TypeOK, Places
<1>4. act' \in [Actors -> Thread(Places)]
    BY <1>1, <1>3 DEF t
<1>5. \A b \in Actors : act'[b] = IF b = a THEN t ELSE act[b]
    BY <1>3 DEF t
<1>6. Job \in Actors /\ Hooks \subseteq Actors /\ Job \notin Hooks
    BY ConstantsAssumption DEF Actors
<1>7. act'[Job] \in Thread(JobPlaces) /\ \A h \in Hooks : act'[h] \in Thread(HookPlaces)
    BY <1>1, <1>5, <1>6 DEF TypeOK, PlacesOf
<1>8. \A b \in Actors : /\ act'[b].obj # NoRow <=> act'[b].pc \in {"reset", "save", "syncing"}
                        /\ act'[b].pc \in {"load", "reset", "save", "syncing"} => act'[b].of \in Users
    BY <1>2, <1>5 DEF TypeOK
<1>9. \A b \in Actors : act'[b].pc \in {"reset", "save", "syncing"} => Exists(act[b].of)' 
    BY <1>2, <1>5 DEF TypeOK, RestTyped, CountersTyped, Exists
<1> QED
    BY <1>4, <1>7, <1>8, <1>9 DEF TypeOK, Places, RestTyped, CountersTyped

\* A thread, field by field.
LEMMA ThreadFields ==
    ASSUME TypeOK, NEW a \in Actors
    PROVE  /\ act[a].pc \in PlacesOf(a)
           /\ act[a].todo \in SUBSET Users /\ act[a].of \in Users \cup {NoUser}
           /\ act[a].obj \in Row \cup {NoRow}
           /\ act[a].obj # NoRow <=> act[a].pc \in {"reset", "save", "syncing"}
           /\ act[a].pc \in {"load", "reset", "save", "syncing"} => act[a].of \in Users
           /\ act[a].pc \in {"reset", "save", "syncing"} => Exists(act[a].of)
<1>1. act[a] \in Thread(PlacesOf(a))
    BY ConstantsAssumption DEF TypeOK, Actors, PlacesOf
<1> QED
    BY <1>1 DEF TypeOK, Thread

\* request_sync keeps the type, whoever calls it.
LEMMA RequestTyped ==
    ASSUME TypeOK, NEW a \in Actors, RequestLoads(a) \/ RequestSaves(a) \/ RequestRaises(a)
    PROVE  TypeOK'
<1> DEFINE u == act[a].of
<1>1. After(a) \in PlacesOf(a) /\ After(a) \notin {"load", "reset", "save", "syncing"}
      /\ "save" \in PlacesOf(a) /\ (a = Job => "end" \in PlacesOf(a)) /\ "idle" \in PlacesOf(a)
    BY DEF After, JobPlaces, HookPlaces, PlacesOf
<1>2. CASE RequestLoads(a)
  <2>1. u \in Users
      BY <1>2, ThreadFields DEF RequestLoads
  <2>2. Loaded(u) \in Row /\ Loaded(u) # NoRow
      BY <2>1, LoadedRow, NoRowAssumption
  <2>0. CountersTyped /\ queue' = [queue EXCEPT ![u] = Loaded(u)]
      BY <1>2 DEF RequestLoads, TypeOK, CountersTyped
  <2>3. RestTyped /\ queue'[u] # NoRow
      BY <2>0, <2>1, <2>2, RowSaved
  <2>4. CASE MayRequest(Loaded(u))
    <3>1. act' = [act EXCEPT ![a] = At("save", act[a].todo, u, Loaded(u))]
        BY <1>2, <2>4 DEF RequestLoads
    <3>2. act[a].todo \in SUBSET Users /\ Loaded(u) \in Row \cup {NoRow}
        BY <2>2, ThreadFields
    <3> HIDE DEF u
    <3> QED
        BY <1>1, <2>1, <2>2, <2>3, <3>1, <3>2, ThreadMoves
  <2>5. CASE ~MayRequest(Loaded(u))
    <3>1. act' = [act EXCEPT ![a] = At(After(a), act[a].todo, u, NoRow)]
        BY <1>2, <2>5 DEF RequestLoads
    <3> QED
        BY <1>1, <2>1, <2>3, <3>1, ThreadMoves, ThreadFields
  <2> QED
      BY <2>4, <2>5
<1>3. CASE RequestSaves(a)
  <2>1. u \in Users /\ act[a].obj \in Row
      BY <1>3, ThreadFields DEF RequestSaves
  <2>0. CountersTyped
      BY <1>3 DEF RequestSaves, TypeOK, CountersTyped
  <2>2. RestTyped
      BY <1>3, <2>0, <2>1, OutcomeRow, RowSaved DEF RequestSaves
  <2>3. act' = [act EXCEPT ![a] = At(After(a), act[a].todo, u, NoRow)]
      BY <1>3 DEF RequestSaves
  <2> QED
      BY <1>1, <2>1, <2>2, <2>3, ThreadMoves, ThreadFields
<1>4. CASE RequestRaises(a)
  <2>1. u \in Users /\ act[a].obj \in Row
      BY <1>4, ThreadFields DEF RequestRaises
  <2>0. CountersTyped
      BY <1>4, ConstantsAssumption DEF RequestRaises, TypeOK, CountersTyped
  <2>2. RestTyped
      BY <1>4, <2>0, <2>1, HalfReadRow, RowSaved DEF RequestRaises
  <2>3. PICK p \in {"end", "idle"} : /\ p = "end" => a = Job
                                    /\ act' = [act EXCEPT ![a] = At(p, {}, NoUser, NoRow)]
      BY <1>4 DEF RequestRaises, Idle
  <2> QED
      BY <1>1, <2>2, <2>3, ThreadMoves
<1> QED
    BY <1>2, <1>3, <1>4

\* Each step of a hook keeps the type.
LEMMA HookTyped ==
    ASSUME TypeOK, NEW h \in Hooks, HookBegins(h) \/ HookStep(h)
    PROVE  TypeOK'
<1>1. h \in Actors /\ HookPlaces = PlacesOf(h)
    BY ConstantsAssumption DEF Actors, PlacesOf
<1>2. act[h].todo \in SUBSET Users /\ act[h].of \in Users \cup {NoUser}
    BY <1>1, ThreadFields
<1>3. {"idle", "check", "reset", "load", "save", "look", "enqueue"} \subseteq PlacesOf(h)
    BY <1>1 DEF HookPlaces
<1>4. CASE HookBegins(h)
  <2>1. RestTyped
      BY <1>4, ConstantsAssumption DEF HookBegins, TypeOK, RestTyped, CountersTyped, Exists
  <2>2. act' = [act EXCEPT ![h] = At("check", Users, NoUser, NoRow)]
      BY <1>4 DEF HookBegins
  <2> QED
      BY <1>1, <1>3, <2>1, <2>2, ThreadMoves
<1>5. CASE HookChecks(h)
  <2>1. PICK u \in act[h].todo :
            /\ act' = [act EXCEPT ![h] =
                 IF Exists(u) /\ IsActive(queue[u]) THEN At("check", act[h].todo \ {u}, u, NoRow)
                 ELSE At("reset", act[h].todo \ {u}, u,
                         [Reset(Loaded(u), "due") EXCEPT !.status = "PENDING"])]
            /\ queue' = [queue EXCEPT ![u] = Loaded(u)]
      BY <1>5 DEF HookChecks
  <2>2. u \in Users /\ Loaded(u) \in Row
      BY <1>2, <2>1, LoadedRow
  <2>0. CountersTyped
      BY <1>5 DEF HookChecks, TypeOK, CountersTyped
  <2>3. RestTyped /\ queue'[u] # NoRow
      BY <2>0, <2>1, <2>2, RowSaved
  <2> DEFINE r == [Reset(Loaded(u), "due") EXCEPT !.status = "PENDING"]
  <2>4. r \in Row /\ r # NoRow
    <3>1. Reset(Loaded(u), "due") \in Row
        BY <2>2, RowBacksOff
    <3> QED
        BY <3>1, NoRowAssumption DEF Row, Statuses
  <2> HIDE DEF r
  <2>5. CASE Exists(u) /\ IsActive(queue[u])
    <3>1. act' = [act EXCEPT ![h] = At("check", act[h].todo \ {u}, u, NoRow)]
        BY <2>1, <2>5
    <3> QED
        BY <1>1, <1>2, <1>3, <2>2, <2>3, <3>1, ThreadMoves
  <2>6. CASE ~(Exists(u) /\ IsActive(queue[u]))
    <3>1. act' = [act EXCEPT ![h] = At("reset", act[h].todo \ {u}, u, r)]
        BY <2>1, <2>6 DEF r
    <3> QED
        BY <1>1, <1>2, <1>3, <2>2, <2>3, <2>4, <3>1, ThreadMoves
  <2> QED
      BY <2>5, <2>6
<1>6. CASE HookResets(h)
  <2>1. act[h].of \in Users /\ act[h].obj \in Row
      BY <1>1, <1>6, ThreadFields DEF HookResets
  <2>0. CountersTyped /\ queue' = [queue EXCEPT ![act[h].of] = act[h].obj]
      BY <1>6 DEF HookResets, TypeOK, CountersTyped
  <2>2. RestTyped
      BY <2>0, <2>1, RowSaved
  <2>3. act' = [act EXCEPT ![h] = At("load", act[h].todo, act[h].of, NoRow)]
      BY <1>6 DEF HookResets
  <2> QED
      BY <1>1, <1>2, <1>3, <2>1, <2>2, <2>3, ThreadMoves
<1>7. CASE RequestLoads(h) \/ RequestSaves(h) \/ RequestRaises(h)
    BY <1>1, <1>7, RequestTyped
<1>8. CASE HookReads(h) \/ HookLooks(h) \/ HookEnqueues(h)
  <2>1. RestTyped
      BY <1>8 DEF HookReads, HookLooks, HookEnqueues, TypeOK, RestTyped, CountersTyped, Exists, JobStates
  <2>2. PICK p \in {"idle", "look", "enqueue"}, u \in {act[h].of, NoUser} :
            act' = [act EXCEPT ![h] = At(p, {}, u, NoRow)]
      BY <1>8 DEF HookReads, HookLooks, HookEnqueues, Idle
  <2> QED
      BY <1>1, <1>2, <1>3, <2>1, <2>2, ThreadMoves
<1> QED
    BY <1>4, <1>5, <1>6, <1>7, <1>8 DEF HookStep

\* Each step of the task keeps the type.
LEMMA JobTyped ==
    ASSUME TypeOK, JobStep
    PROVE  TypeOK'
<1>1. Job \in Actors /\ JobPlaces = PlacesOf(Job)
    BY DEF Actors, PlacesOf
<1>2. /\ act[Job].todo \in SUBSET Users /\ act[Job].of \in Users \cup {NoUser}
      /\ act[Job].obj \in Row \cup {NoRow} /\ act[Job].pc \in JobPlaces
    BY <1>1, ThreadFields
<1>3. {"idle", "selected", "start", "loop", "syncs", "syncing", "requests", "load", "next",
       "end", "reschedule"} \subseteq PlacesOf(Job)
    BY <1>1 DEF JobPlaces
<1>4. \A statuses : DueIn(statuses) \in SUBSET Users
    BY DEF DueIn, Eligible
<1>5. CASE JobStarts
  <2>1. RestTyped
      BY <1>5 DEF JobStarts, TypeOK, RestTyped, CountersTyped, Exists, JobStates
  <2>2. act' = [act EXCEPT ![Job] = At("start", {}, NoUser, NoRow)]
      BY <1>5 DEF JobStarts
  <2> QED
      BY <1>1, <1>3, <2>1, <2>2, ThreadMoves
<1>6. CASE JobResets \/ JobNext
  <2>1. act[Job].obj = NoRow
      BY <1>1, <1>6, ThreadFields DEF JobResets, JobNext
  <2>2. ASSUME NEW u \in Users, Exists(u)
        PROVE  [queue[u] EXCEPT !.status = "PENDING", !.time = "due"] \in Row
    <3>1. queue[u] \in Row
        BY <2>2 DEF TypeOK, Exists
    <3> DEFINE q == [queue[u] EXCEPT !.status = "PENDING"]
    <3>2. q \in Row
        BY <3>1 DEF Row, Statuses
    <3>3. [queue[u] EXCEPT !.status = "PENDING", !.time = "due"] = [q EXCEPT !.time = "due"]
        BY <3>1 DEF Row
    <3> HIDE DEF q
    <3> QED
        BY <3>2, <3>3 DEF Row
  <2>3. /\ ResetSyncing \in [Users -> Row \cup {NoRow}]
        /\ \A u \in Users : Exists(u) => ResetSyncing[u] # NoRow
      BY <2>2, NoRowAssumption DEF ResetSyncing, TypeOK, Exists
  <2>4. RestTyped
      BY <1>6, <2>3 DEF JobResets, JobNext, TypeOK, RestTyped, CountersTyped, Exists
  <2>5. PICK p \in {"loop", "end"} :
            act' = [act EXCEPT ![Job] = At(p, act[Job].todo, act[Job].of, NoRow)]
      BY <1>6, <2>1 DEF JobResets, JobNext, Goto
  <2> QED
      BY <1>1, <1>2, <1>3, <2>4, <2>5, ThreadMoves
<1>7. CASE JobLoops \/ JobTurns
  <2>1. RestTyped
      BY <1>7 DEF JobLoops, JobTurns, TypeOK, RestTyped, CountersTyped, Exists
  <2>2. PICK p \in {"next", "syncs", "requests"}, d \in SUBSET Users :
            act' = [act EXCEPT ![Job] = At(p, d, act[Job].of, NoRow)]
    <3>1. CASE JobLoops /\ DueIn(Statuses) = {}
        BY <3>1 DEF JobLoops
    <3>2. CASE JobLoops /\ DueIn(Statuses) # {}
        BY <3>2, <1>4 DEF JobLoops
    <3>3. CASE JobTurns
        BY <3>3, <1>4 DEF JobTurns
    <3> QED
        BY <1>7, <3>1, <3>2, <3>3
  <2> QED
      BY <1>1, <1>2, <1>3, <2>1, <2>2, ThreadMoves
<1>8. CASE SyncBegins
  <2>1. PICK u \in act[Job].todo :
            /\ queue' = [queue EXCEPT ![u] = [Loaded(u) EXCEPT !.status = "SYNCING"]]
            /\ act' = [act EXCEPT ![Job] = At("syncing", act[Job].todo \ {u}, u,
                                             [Loaded(u) EXCEPT !.status = "SYNCING"])]
      BY <1>8 DEF SyncBegins
  <2> DEFINE r == [Loaded(u) EXCEPT !.status = "SYNCING"]
  <2>2. u \in Users /\ Loaded(u) \in Row
      BY <1>2, <2>1, LoadedRow
  <2>3. r \in Row /\ r # NoRow
      BY <2>2, NoRowAssumption DEF Row, Statuses
  <2> HIDE DEF r
  <2>6. queue' = [queue EXCEPT ![u] = r]
      BY <2>1 DEF r
  <2>0. CountersTyped
      BY <1>8 DEF SyncBegins, TypeOK, CountersTyped
  <2>4. RestTyped /\ queue'[u] # NoRow
      BY <2>0, <2>2, <2>3, <2>6, RowSaved
  <2>5. act' = [act EXCEPT ![Job] = At("syncing", act[Job].todo \ {u}, u, r)]
      BY <2>1 DEF r
  <2> QED
      BY <1>1, <1>2, <1>3, <2>2, <2>3, <2>4, <2>5, ThreadMoves
<1>9. CASE SyncEnds
  <2>1. act[Job].obj \in Row
      BY <1>1, <1>9, ThreadFields DEF SyncEnds
  <2>0. CountersTyped /\ act[Job].of \in Users
      BY <1>1, <1>9, ThreadFields DEF SyncEnds, TypeOK, CountersTyped
  <2>2. RestTyped
      BY <1>9, <2>0, <2>1, ResultRow, RowSaved DEF SyncEnds
  <2>3. act' = [act EXCEPT ![Job] = At("syncs", act[Job].todo, act[Job].of, NoRow)]
      BY <1>9 DEF SyncEnds
  <2> QED
      BY <1>1, <1>2, <1>3, <2>2, <2>3, ThreadMoves
<1>10. CASE JobRequests
  <2>1. RestTyped /\ act[Job].obj = NoRow
      BY <1>1, <1>10, ThreadFields DEF JobRequests, TypeOK, RestTyped, CountersTyped, Exists
  <2>2. ASSUME NEW u \in act[Job].todo,
               act' = [act EXCEPT ![Job] = At("load", act[Job].todo \ {u}, u, NoRow)]
        PROVE  TypeOK'
      BY <1>1, <1>2, <1>3, <2>1, <2>2, ThreadMoves
  <2>3. CASE act' = [act EXCEPT ![Job] = At("loop", act[Job].todo, act[Job].of, NoRow)]
      BY <1>1, <1>2, <1>3, <2>1, <2>3, ThreadMoves
  <2> QED
      BY <1>10, <2>1, <2>2, <2>3 DEF JobRequests, Goto
<1>11. CASE RequestLoads(Job) \/ RequestSaves(Job) \/ RequestRaises(Job)
    BY <1>1, <1>11, RequestTyped
<1>12. CASE JobReschedules
  <2>1. RestTyped
      BY <1>12 DEF JobReschedules, TypeOK, RestTyped, CountersTyped, Exists, JobStates
  <2>2. act' = [act EXCEPT ![Job] = At("idle", {}, NoUser, NoRow)]
      BY <1>12 DEF JobReschedules, Idle
  <2> QED
      BY <1>1, <1>3, <2>1, <2>2, ThreadMoves
<1>13. CASE JobSelected \/ JobEnds
  <2>1. RestTyped
      BY <1>13 DEF JobSelected, JobEnds, TypeOK, RestTyped, CountersTyped, Exists, JobStates
  <2>2. PICK p \in {"selected", "reschedule"} :
            act' = [act EXCEPT ![Job] = At(p, act[Job].todo, act[Job].of, act[Job].obj)]
      BY <1>13 DEF JobSelected, JobEnds, Goto
  <2>3. act[Job].obj = NoRow
      BY <1>1, <1>13, ThreadFields DEF JobSelected, JobEnds
  <2> QED
      BY <1>1, <1>2, <1>3, <2>1, <2>2, <2>3, ThreadMoves
<1> QED
    BY <1>5, <1>6, <1>7, <1>8, <1>9, <1>10, <1>11, <1>12, <1>13 DEF JobStep

\* So do the hooks of the transfer, a crash and the time.
LEMMA OthersTyped ==
    ASSUME TypeOK, SyncTransfers \/ Crash \/ TimePasses
    PROVE  TypeOK'
<1>1. Job \in Actors /\ Hooks \subseteq Actors
    BY DEF Actors
<1>2. CASE SyncTransfers
  <2> DEFINE u == act[Job].of
  <2>1. u \in Users /\ queue[u] \in Row
      BY <1>1, <1>2, ThreadFields DEF SyncTransfers, TypeOK, Exists
  <2>3. ASSUME NEW t \in {"due", "later"}
        PROVE  /\ [queue[u] EXCEPT !.status = "SYNCING", !.session = "open", !.time = t] \in Row
               /\ [queue[u] EXCEPT !.status = "PENDING", !.time = t] \in Row
      BY <2>1, TransferRow
  <2>4. PICK r \in Row : queue' = [queue EXCEPT ![u] = r]
      BY <1>2, <2>3 DEF SyncTransfers
  <2> QED
      BY <1>2, <2>1, <2>4, NoRowAssumption DEF SyncTransfers, TypeOK, Exists
<1>3. CASE Crash
  <2>1. Idle \in Thread(JobPlaces) /\ Idle \in Thread(HookPlaces) /\ Idle \in Thread(Places)
        /\ Idle.obj = NoRow /\ Idle.pc = "idle"
      BY DEF Idle, At, Thread, JobPlaces, HookPlaces, Places
  <2>2. act' = [a \in Actors |-> Idle] /\ crashes' \in 0 .. MaxCrashes
      BY <1>3, ConstantsAssumption DEF Crash, TypeOK
  <2>3. /\ act' \in [Actors -> Thread(Places)] /\ act'[Job] \in Thread(JobPlaces)
        /\ \A h \in Hooks : act'[h] \in Thread(HookPlaces)
        /\ \A a \in Actors : act'[a].obj = NoRow /\ act'[a].pc = "idle"
      BY <1>1, <2>1, <2>2
  <2> QED
      BY <1>3, <2>2, <2>3 DEF Crash, TypeOK, Places, JobStates
<1>4. CASE TimePasses
  <2>1. ASSUME NEW u \in Users, RowAges(u)
        PROVE  TypeOK'
    <3>1. queue[u] \in Row /\ CountersTyped
        BY <2>1 DEF RowAges, TypeOK, CountersTyped, Exists
    <3>2. Older(queue[u]) \in Row
        BY <3>1, OlderRow
    <3>3. RestTyped
        BY <2>1, <3>1, <3>2, RowSaved DEF RowAges
    <3> QED
        BY <2>1, <3>3 DEF RowAges, TypeOK, RestTyped, CountersTyped, Exists
  <2>2. ASSUME NEW a \in Actors, CopyAges(a)
        PROVE  TypeOK'
    <3> DEFINE r == Older(act[a].obj)
               t == act[a]
    <3>1. t \in Thread(Places) /\ t.obj \in Row
        BY <2>2, ThreadFields DEF CopyAges, TypeOK, Places
    <3>2. r \in Row /\ r # NoRow
        BY <3>1, OlderRow, NoRowAssumption
    <3>3. act' = [act EXCEPT ![a] = At(t.pc, t.todo, t.of, r)]
        BY <2>2 DEF CopyAges
    <3> HIDE DEF r
    <3>4. RestTyped
        BY <2>2 DEF CopyAges, TypeOK, RestTyped, CountersTyped, Exists
    <3>5. /\ t.pc \in PlacesOf(a) /\ t.todo \in SUBSET Users /\ t.of \in Users \cup {NoUser}
          /\ t.pc \in {"reset", "save", "syncing"} /\ t.of \in Users /\ queue'[t.of] # NoRow
        BY <2>2, ThreadFields DEF CopyAges, Exists
    <3> HIDE DEF t
    <3> QED
        BY <3>2, <3>3, <3>4, <3>5, ThreadMoves
  <2> QED
      BY <1>4, <2>1, <2>2 DEF TimePasses
<1> QED
    BY <1>2, <1>3, <1>4

\* The shape of the table and the threads, for any number of users and hooks.
THEOREM TypeCorrect == Spec => []TypeOK
<1>1. Init => TypeOK
  <2> SUFFICES ASSUME Init
               PROVE  TypeOK
      OBVIOUS
  <2>1. /\ Idle \in Thread(JobPlaces) /\ Idle \in Thread(HookPlaces) /\ Idle \in Thread(Places)
        /\ Idle.obj = NoRow /\ Idle.pc = "idle"
      BY DEF Idle, At, Thread, JobPlaces, HookPlaces, Places
  <2>2. Job \in Actors /\ Hooks \subseteq Actors
      BY DEF Actors
  <2>3. /\ act \in [Actors -> Thread(Places)] /\ act[Job] \in Thread(JobPlaces)
        /\ \A h \in Hooks : act[h] \in Thread(HookPlaces)
        /\ \A a \in Actors : act[a].obj = NoRow /\ act[a].pc = "idle"
      BY <2>1, <2>2 DEF Init
  <2>4. /\ queue \in [Users -> Row \cup {NoRow}]
        /\ job \in JobStates /\ again \in BOOLEAN
      BY Zenon DEF Init, JobStates
  <2>5. crashes \in 0 .. MaxCrashes /\ raised \in 0 .. MaxRaised
      BY ConstantsAssumption DEF Init
  <2> QED
      BY <2>3, <2>4, <2>5 DEF TypeOK, Places
<1>2. TypeOK /\ [Next]_vars => TypeOK'
  <2> SUFFICES ASSUME TypeOK, [Next]_vars
               PROVE  TypeOK'
      OBVIOUS
  <2>1. CASE \E h \in Hooks : HookBegins(h) \/ HookStep(h)
      BY <2>1, HookTyped
  <2>2. CASE JobStep
      BY <2>2, JobTyped
  <2>3. CASE SyncTransfers \/ Crash \/ TimePasses
      BY <2>3, OthersTyped
  <2>4. CASE UNCHANGED vars
      BY <2>4 DEF vars, TypeOK, Exists
  <2> QED
      BY <2>1, <2>2, <2>3, <2>4 DEF Next
<1> QED
    BY <1>1, <1>2, PTL DEF Spec

-----------------------------------------------------------------------------
(* The attempts.                                                            *)

\* A row is never far beyond the maximum, and what a thread holds in memory may be
\* overtaken by another's save: a request starts from at most MAX_ATTEMPTS; a row
\* that is on the list of syncs may have been saved by requests since, with one
\* attempt more; and its sync, which comes once, adds another.
AttemptsInv ==
    /\ AttemptsBounded
    /\ \A a \in Actors : /\ act[a].pc = "save" => act[a].obj.attempts <= MaxAttempts
                         /\ act[a].pc = "reset" => act[a].obj.attempts = 0
    /\ act[Job].pc = "syncing" => /\ act[Job].obj.attempts <= MaxAttempts + 1
                                  /\ act[Job].of \notin act[Job].todo
    /\ act[Job].pc \in {"syncs", "syncing"} =>
           \A u \in act[Job].todo : Exists(u) /\ queue[u].attempts <= MaxAttempts + 1

\* The table after a step: bounded, and no row leaves the stricter bound.
AttemptsKept ==
    /\ \A u \in Users : queue'[u] # NoRow => queue'[u].attempts <= MaxAttempts + 2
    /\ \A u \in Users : Exists(u) /\ queue[u].attempts <= MaxAttempts + 1
          => queue'[u] # NoRow /\ queue'[u].attempts <= MaxAttempts + 1

\* A save within the stricter bound keeps it.
LEMMA SaveKeeps ==
    ASSUME TypeOK, AttemptsInv, NEW u \in Users, NEW r \in Row, r.attempts <= MaxAttempts + 1,
           queue' = [queue EXCEPT ![u] = r]
    PROVE  AttemptsKept
<1>1. r.attempts \in Nat /\ MaxAttempts \in Nat /\ r # NoRow
    BY ConstantsAssumption, NoRowAssumption DEF Row
<1>2. \A v \in Users : queue'[v] = IF v = u THEN r ELSE queue[v]
    BY DEF TypeOK
<1> QED
    BY <1>1, <1>2 DEF AttemptsInv, AttemptsBounded, AttemptsKept, Exists

\* So does a load, which at most creates a row without attempts.
LEMMA LoadKeeps ==
    ASSUME TypeOK, AttemptsInv, NEW u \in Users, queue' = [queue EXCEPT ![u] = Loaded(u)]
    PROVE  AttemptsKept
<1>1. CASE Exists(u)
  <2>1. queue' = queue
      BY <1>1, LoadedRow DEF TypeOK
  <2> QED
      BY <2>1 DEF AttemptsInv, AttemptsBounded, AttemptsKept, Exists
<1>2. CASE ~Exists(u)
  <2>1. Loaded(u) \in Row /\ Loaded(u).attempts <= MaxAttempts + 1
      BY <1>2, LoadedRow, ConstantsAssumption
  <2> QED
      BY <2>1, SaveKeeps
<1> QED
    BY <1>1, <1>2

\* And a step that changes no attempts.
LEMMA SameKeeps ==
    ASSUME TypeOK, AttemptsInv,
           \A u \in Users : /\ Exists(u) <=> queue'[u] # NoRow
                            /\ Exists(u) => queue'[u].attempts = queue[u].attempts
    PROVE  AttemptsKept
BY DEF AttemptsInv, AttemptsBounded, AttemptsKept, Exists

\* The invariant after a step that moves one thread.
LEMMA MoveKeeps ==
    ASSUME TypeOK, AttemptsInv, AttemptsKept, NEW a \in Actors, NEW p, NEW d, NEW u, NEW r,
           act' = [act EXCEPT ![a] = At(p, d, u, r)], d \subseteq Users,
           p = "save" => r.attempts <= MaxAttempts,
           p = "reset" => r.attempts = 0,
           a # Job \/ p \notin {"syncs", "syncing"}
    PROVE  AttemptsInv'
<1> DEFINE t == At(p, d, u, r)
<1>1. t.pc = p /\ t.todo = d /\ t.of = u /\ t.obj = r
    BY DEF At
<1> HIDE DEF t
<1>2. \A b \in Actors : act'[b] = IF b = a THEN t ELSE act[b]
    BY DEF t, TypeOK
<1>3. Job \in Actors /\ act[Job].todo \subseteq Users
    BY ThreadFields DEF Actors
<1>4. AttemptsBounded'
    BY DEF AttemptsKept, AttemptsBounded, Exists
<1>5. \A b \in Actors : /\ act'[b].pc = "save" => act'[b].obj.attempts <= MaxAttempts
                        /\ act'[b].pc = "reset" => act'[b].obj.attempts = 0
    BY <1>1, <1>2 DEF AttemptsInv
<1>6. /\ act'[Job].pc = "syncing" => /\ act'[Job].obj.attempts <= MaxAttempts + 1
                                     /\ act'[Job].of \notin act'[Job].todo
      /\ act'[Job].pc \in {"syncs", "syncing"} =>
           \A v \in act'[Job].todo : queue'[v] # NoRow /\ queue'[v].attempts <= MaxAttempts + 1
    BY <1>1, <1>2, <1>3 DEF AttemptsInv, AttemptsKept
<1> QED
    BY <1>4, <1>5, <1>6 DEF AttemptsInv, Exists

\* The invariant after a step of the task on its list of syncs.
LEMMA SyncKeeps ==
    ASSUME TypeOK, AttemptsInv, NEW p \in {"syncs", "syncing"}, NEW d, NEW u, NEW r,
           act' = [act EXCEPT ![Job] = At(p, d, u, r)],
           AttemptsBounded',
           p = "syncing" => r.attempts <= MaxAttempts + 1 /\ u \notin d,
           \A v \in d : queue'[v] # NoRow /\ queue'[v].attempts <= MaxAttempts + 1
    PROVE  AttemptsInv'
<1> DEFINE t == At(p, d, u, r)
<1>1. t.pc = p /\ t.todo = d /\ t.of = u /\ t.obj = r
    BY DEF At
<1> HIDE DEF t
<1>2. Job \in Actors /\ \A b \in Actors : act'[b] = IF b = Job THEN t ELSE act[b]
    BY DEF t, TypeOK, Actors
<1> QED
    BY <1>1, <1>2 DEF AttemptsInv, Exists

\* request_sync keeps the bounds, whoever calls it.
LEMMA RequestBounded ==
    ASSUME TypeOK, AttemptsInv, NEW a \in Actors, RequestLoads(a) \/ RequestSaves(a) \/ RequestRaises(a)
    PROVE  AttemptsInv'
<1> DEFINE u == act[a].of
<1>1. After(a) \notin {"reset", "save", "syncs", "syncing"} /\ act[a].todo \subseteq Users
    BY ThreadFields DEF After
<1>2. CASE RequestLoads(a)
  <2>1. u \in Users /\ queue' = [queue EXCEPT ![u] = Loaded(u)]
      BY <1>2, ThreadFields DEF RequestLoads
  <2>2. AttemptsKept
      BY <2>1, LoadKeeps
  <2>3. CASE MayRequest(Loaded(u))
    <3>1. act' = [act EXCEPT ![a] = At("save", act[a].todo, u, Loaded(u))]
        BY <1>2, <2>3 DEF RequestLoads
    <3>2. Loaded(u).attempts <= MaxAttempts
        BY <2>1, <2>3, LoadedRow, ConstantsAssumption DEF MayRequest, Exhausted, Row
    <3> DEFINE L == Loaded(u)
               d == act[a].todo
    <3>3. act' = [act EXCEPT ![a] = At("save", d, u, L)] /\ d \subseteq Users /\ L.attempts <= MaxAttempts
        BY <1>1, <3>1, <3>2
    <3> HIDE DEF L, d, u
    <3> QED
        BY <2>2, <3>3, MoveKeeps
  <2>4. CASE ~MayRequest(Loaded(u))
    <3>1. act' = [act EXCEPT ![a] = At(After(a), act[a].todo, u, NoRow)]
        BY <1>2, <2>4 DEF RequestLoads
    <3> QED
        BY <1>1, <2>2, <3>1, MoveKeeps
  <2> QED
      BY <2>3, <2>4
<1>3. CASE RequestSaves(a)
  <2>1. u \in Users /\ act[a].obj \in Row /\ act[a].obj.attempts <= MaxAttempts
      BY <1>3, ThreadFields DEF RequestSaves, AttemptsInv
  <2>2. PICK o \in Outcomes(act[a].obj) : queue' = [queue EXCEPT ![u] = o]
      BY <1>3 DEF RequestSaves
  <2>3. o \in Row /\ o.attempts <= act[a].obj.attempts + 1
      BY <2>1, OutcomeRow
  <2>4. o.attempts <= MaxAttempts + 1
      BY <2>1, <2>3, ConstantsAssumption DEF Row
  <2>5. AttemptsKept
      BY <2>1, <2>2, <2>3, <2>4, SaveKeeps
  <2>6. act' = [act EXCEPT ![a] = At(After(a), act[a].todo, u, NoRow)]
      BY <1>3 DEF RequestSaves
  <2> QED
      BY <1>1, <2>5, <2>6, MoveKeeps
<1>4. CASE RequestRaises(a)
  <2>1. u \in Users /\ act[a].obj \in Row /\ act[a].obj.attempts <= MaxAttempts
      BY <1>4, ThreadFields DEF RequestRaises, AttemptsInv
  <2>2. PICK o \in HalfRead(act[a].obj) : queue' = [queue EXCEPT ![u] = o]
      BY <1>4 DEF RequestRaises
  <2>3. o \in Row /\ o.attempts <= act[a].obj.attempts + 1
      BY <2>1, HalfReadRow
  <2>4. o.attempts <= MaxAttempts + 1
      BY <2>1, <2>3, ConstantsAssumption DEF Row
  <2>5. AttemptsKept
      BY <2>1, <2>2, <2>3, <2>4, SaveKeeps
  <2>6. PICK p \in {"end", "idle"} : act' = [act EXCEPT ![a] = At(p, {}, NoUser, NoRow)]
      BY <1>4 DEF RequestRaises, Idle
  <2> QED
      BY <2>5, <2>6, MoveKeeps
<1> QED
    BY <1>2, <1>3, <1>4

\* Each step of a hook keeps the bounds.
LEMMA HookBounded ==
    ASSUME TypeOK, AttemptsInv, NEW h \in Hooks, HookBegins(h) \/ HookStep(h)
    PROVE  AttemptsInv'
<1>1. h \in Actors /\ h # Job /\ act[h].todo \subseteq Users
    BY ConstantsAssumption, ThreadFields DEF Actors
<1>2. CASE HookBegins(h) \/ HookReads(h) \/ HookLooks(h) \/ HookEnqueues(h)
  <2>1. queue' = queue
      BY <1>2 DEF HookBegins, HookReads, HookLooks, HookEnqueues
  <2>2. AttemptsKept
      BY <2>1, SameKeeps DEF Exists
  <2>3. PICK p \in {"idle", "check", "look", "enqueue"}, d \in {Users, {}}, u \in {act[h].of, NoUser} :
            act' = [act EXCEPT ![h] = At(p, d, u, NoRow)]
      BY <1>2 DEF HookBegins, HookReads, HookLooks, HookEnqueues, Idle
  <2> QED
      BY <1>1, <2>2, <2>3, MoveKeeps
<1>3. CASE HookChecks(h)
  <2>1. PICK u \in act[h].todo :
            /\ act' = [act EXCEPT ![h] =
                 IF Exists(u) /\ IsActive(queue[u]) THEN At("check", act[h].todo \ {u}, u, NoRow)
                 ELSE At("reset", act[h].todo \ {u}, u,
                         [Reset(Loaded(u), "due") EXCEPT !.status = "PENDING"])]
            /\ queue' = [queue EXCEPT ![u] = Loaded(u)]
      BY <1>3 DEF HookChecks
  <2>2. u \in Users /\ AttemptsKept
      BY <1>1, <2>1, LoadKeeps
  <2> DEFINE r == [Reset(Loaded(u), "due") EXCEPT !.status = "PENDING"]
  <2>3. r.attempts = 0
    <3>1. Reset(Loaded(u), "due") \in Row /\ Reset(Loaded(u), "due").attempts = 0
        BY <2>2, LoadedRow, RowBacksOff
    <3> QED
        BY <3>1 DEF Row
  <2> HIDE DEF r
  <2>4. CASE Exists(u) /\ IsActive(queue[u])
    <3>1. act' = [act EXCEPT ![h] = At("check", act[h].todo \ {u}, u, NoRow)]
        BY <2>1, <2>4
    <3>2. act[h].todo \ {u} \subseteq Users
        BY <1>1
    <3> QED
        BY <1>1, <2>2, <3>1, <3>2, MoveKeeps
  <2>5. CASE ~(Exists(u) /\ IsActive(queue[u]))
    <3>1. act' = [act EXCEPT ![h] = At("reset", act[h].todo \ {u}, u, r)]
        BY <2>1, <2>5 DEF r
    <3>2. act[h].todo \ {u} \subseteq Users
        BY <1>1
    <3> QED
        BY <1>1, <2>2, <2>3, <3>1, <3>2, MoveKeeps
  <2> QED
      BY <2>4, <2>5
<1>4. CASE HookResets(h)
  <2>1. /\ act[h].of \in Users /\ act[h].obj \in Row /\ act[h].obj.attempts = 0
        /\ queue' = [queue EXCEPT ![act[h].of] = act[h].obj]
        /\ act' = [act EXCEPT ![h] = At("load", act[h].todo, act[h].of, NoRow)]
      BY <1>1, <1>4, ThreadFields DEF HookResets, AttemptsInv
  <2>2. AttemptsKept
    <3>1. act[h].obj.attempts <= MaxAttempts + 1
        BY <2>1, ConstantsAssumption
    <3> QED
        BY <2>1, <3>1, SaveKeeps
  <2> QED
      BY <1>1, <2>1, <2>2, MoveKeeps
<1>5. CASE RequestLoads(h) \/ RequestSaves(h) \/ RequestRaises(h)
    BY <1>1, <1>5, RequestBounded
<1> QED
    BY <1>2, <1>3, <1>4, <1>5 DEF HookStep

\* Each step of the task keeps the bounds.
LEMMA JobBounded ==
    ASSUME TypeOK, AttemptsInv, JobStep
    PROVE  AttemptsInv'
<1>1. Job \in Actors /\ act[Job].todo \subseteq Users /\ act[Job].of \in Users \cup {NoUser}
    BY ThreadFields DEF Actors
<1>2. \A statuses : DueIn(statuses) \subseteq Users
    BY DEF DueIn, Eligible
<1>3. CASE \/ JobSelected \/ JobStarts \/ JobNext \/ JobEnds \/ JobReschedules
           \/ JobTurns \/ JobRequests \/ (JobLoops /\ DueIn(Statuses) = {})
  <2>1. queue' = queue
      BY <1>3 DEF JobSelected, JobStarts, JobNext, JobEnds, JobReschedules, JobTurns,
                  JobRequests, JobLoops
  <2>2. AttemptsKept
      BY <2>1, SameKeeps DEF Exists
  <2>3. PICK p \in {"idle", "selected", "start", "end", "next", "requests", "load", "loop",
                    "reschedule"},
             d \in SUBSET Users, u \in Users \cup {NoUser}, r \in {act[Job].obj, NoRow} :
            act' = [act EXCEPT ![Job] = At(p, d, u, r)]
    <3>1. CASE JobSelected \/ JobStarts \/ JobNext \/ JobEnds \/ JobReschedules
        BY <1>1, <3>1 DEF JobSelected, JobStarts, JobNext, JobEnds, JobReschedules, Goto, Idle
    <3>2. CASE JobTurns \/ (JobLoops /\ DueIn(Statuses) = {})
        BY <1>1, <1>2, <3>2 DEF JobTurns, JobLoops
    <3>3. CASE JobRequests
      <4>1. CASE act[Job].todo = {} /\ Goto(Job, "loop")
          BY <1>1, <4>1 DEF Goto
      <4>2. CASE \E u \in act[Job].todo :
                   act' = [act EXCEPT ![Job] = At("load", act[Job].todo \ {u}, u, NoRow)]
        <5>1. PICK u \in act[Job].todo :
                   act' = [act EXCEPT ![Job] = At("load", act[Job].todo \ {u}, u, NoRow)]
            BY <4>2
        <5>2. u \in Users /\ act[Job].todo \ {u} \in SUBSET Users
            BY <1>1
        <5> QED
            BY <5>1, <5>2
      <4> QED
          BY <3>3, <4>1, <4>2 DEF JobRequests
    <3> QED
        BY <1>3, <3>1, <3>2, <3>3
  <2> QED
      BY <1>1, <2>2, <2>3, MoveKeeps
<1>4. CASE JobResets
  <2>1. AttemptsKept
    <3>1. \A u \in Users : /\ Exists(u) <=> queue'[u] # NoRow
                           /\ Exists(u) => queue'[u].attempts = queue[u].attempts
      <4>1. SUFFICES ASSUME NEW u \in Users
                     PROVE  /\ Exists(u) <=> queue'[u] # NoRow
                            /\ Exists(u) => queue'[u].attempts = queue[u].attempts
          OBVIOUS
      <4>2. queue'[u] = IF Exists(u) /\ queue[u].status = "SYNCING"
                        THEN [queue[u] EXCEPT !.status = "PENDING", !.time = "due"] ELSE queue[u]
          BY <1>4 DEF JobResets, ResetSyncing
      <4>3. ASSUME Exists(u)
            PROVE  /\ [queue[u] EXCEPT !.status = "PENDING", !.time = "due"].attempts = queue[u].attempts
                   /\ [queue[u] EXCEPT !.status = "PENDING", !.time = "due"] \in Row
        <5> DEFINE q == [queue[u] EXCEPT !.status = "PENDING"]
        <5>1. q \in Row /\ q.attempts = queue[u].attempts
            BY <4>3 DEF TypeOK, Exists, Row, Statuses
        <5>2. [queue[u] EXCEPT !.status = "PENDING", !.time = "due"] = [q EXCEPT !.time = "due"]
            OBVIOUS
        <5> HIDE DEF q
        <5> QED
            BY <5>1, <5>2 DEF Row
      <4> QED
          BY <4>2, <4>3, NoRowAssumption DEF Exists
    <3> QED
        BY <3>1, SameKeeps
  <2>2. PICK d, u, r : d \in SUBSET Users /\ act' = [act EXCEPT ![Job] = At("loop", d, u, r)]
      BY <1>1, <1>4 DEF JobResets, Goto
  <2> QED
      BY <1>1, <2>1, <2>2, MoveKeeps
<1>5. CASE JobLoops /\ DueIn(Statuses) # {}
  <2>1. /\ queue' = queue
        /\ act' = [act EXCEPT ![Job] = At("syncs", DueIn({"READY"}), act[Job].of, NoRow)]
      BY <1>5 DEF JobLoops
  <2>2. \A v \in DueIn({"READY"}) : queue'[v] # NoRow /\ queue'[v].attempts <= MaxAttempts + 1
      BY <2>1, ConstantsAssumption DEF DueIn, Eligible, Exhausted, Exists, TypeOK, Row
  <2>3. AttemptsBounded'
      BY <2>1 DEF AttemptsInv, AttemptsBounded, Exists
  <2> HIDE DEF AttemptsBounded
  <2> QED
      BY <2>1, <2>2, <2>3, SyncKeeps
<1>6. CASE SyncBegins
  <2> DEFINE R(u) == [Loaded(u) EXCEPT !.status = "SYNCING"]
  <2>1. PICK u \in act[Job].todo :
            /\ queue' = [queue EXCEPT ![u] = R(u)]
            /\ act' = [act EXCEPT ![Job] = At("syncing", act[Job].todo \ {u}, u, R(u))]
      BY <1>6 DEF SyncBegins
  <2>2. \A v \in act[Job].todo : Exists(v) /\ queue[v].attempts <= MaxAttempts + 1
      BY <1>6 DEF SyncBegins, AttemptsInv
  <2>3. u \in Users /\ R(u) \in Row /\ R(u).attempts <= MaxAttempts + 1
    <3>1. u \in Users /\ Loaded(u) \in Row /\ Loaded(u).attempts <= MaxAttempts + 1
        BY <1>1, <2>1, <2>2, LoadedRow
    <3> QED
        BY <3>1 DEF Row, Statuses
  <2> HIDE DEF R
  <2>4. AttemptsKept
      BY <2>1, <2>3, SaveKeeps
  <2>5. AttemptsBounded'
      BY <2>4 DEF AttemptsKept, AttemptsBounded, Exists
  <2>6. \A v \in act[Job].todo \ {u} : queue'[v] # NoRow /\ queue'[v].attempts <= MaxAttempts + 1
      BY <1>1, <2>2, <2>4 DEF AttemptsKept
  <2> QED
      BY <2>1, <2>3, <2>5, <2>6, SyncKeeps
<1>7. CASE SyncEnds
  <2> DEFINE u == act[Job].of
  <2>1. /\ u \in Users /\ act[Job].obj \in Row /\ act[Job].obj.attempts <= MaxAttempts + 1
        /\ u \notin act[Job].todo
        /\ \A v \in act[Job].todo : Exists(v) /\ queue[v].attempts <= MaxAttempts + 1
      BY <1>1, <1>7, ThreadFields DEF SyncEnds, AttemptsInv
  <2>2. PICK o \in Results(act[Job].obj) : queue' = [queue EXCEPT ![u] = o]
      BY <1>7 DEF SyncEnds
  <2>3. o \in Row /\ o.attempts <= act[Job].obj.attempts + 1
      BY <2>1, ResultRow
  <2>4. o.attempts <= MaxAttempts + 2
      BY <2>1, <2>3, ConstantsAssumption DEF Row
  <2>5. \A v \in Users : queue'[v] = IF v = u THEN o ELSE queue[v]
      BY <2>2 DEF TypeOK
  <2>6. AttemptsBounded'
      BY <2>4, <2>5 DEF AttemptsInv, AttemptsBounded, Exists
  <2>7. \A v \in act[Job].todo : queue'[v] # NoRow /\ queue'[v].attempts <= MaxAttempts + 1
      BY <1>1, <2>1, <2>5 DEF Exists
  <2>8. act' = [act EXCEPT ![Job] = At("syncs", act[Job].todo, u, NoRow)]
      BY <1>7 DEF SyncEnds
  <2> QED
      BY <2>6, <2>7, <2>8, SyncKeeps
<1>8. CASE RequestLoads(Job) \/ RequestSaves(Job) \/ RequestRaises(Job)
    BY <1>1, <1>8, RequestBounded
<1> QED
    BY <1>3, <1>4, <1>5, <1>6, <1>7, <1>8 DEF JobStep

\* So do the hooks of the transfer, a crash and the time.
LEMMA OthersBounded ==
    ASSUME TypeOK, AttemptsInv, SyncTransfers \/ Crash \/ TimePasses
    PROVE  AttemptsInv'
<1>1. Job \in Actors
    BY DEF Actors
<1>2. ASSUME AttemptsKept, UNCHANGED act
      PROVE  AttemptsInv'
  <2>1. act[Job].todo \subseteq Users
      BY <1>1, ThreadFields
  <2> QED
      BY <1>2, <2>1 DEF AttemptsInv, AttemptsKept, AttemptsBounded, Exists
<1>3. CASE SyncTransfers
  <2> DEFINE u == act[Job].of
  <2>1. u \in Users /\ queue[u] \in Row
      BY <1>1, <1>3, ThreadFields DEF SyncTransfers, TypeOK, Exists
  <2>2. ASSUME NEW t \in {"due", "later"}
        PROVE  /\ [queue[u] EXCEPT !.status = "SYNCING", !.session = "open", !.time = t].attempts
                      = queue[u].attempts
               /\ [queue[u] EXCEPT !.status = "SYNCING", !.session = "open", !.time = t] # NoRow
               /\ [queue[u] EXCEPT !.status = "PENDING", !.time = t].attempts = queue[u].attempts
               /\ [queue[u] EXCEPT !.status = "PENDING", !.time = t] # NoRow
      BY <2>1, <2>2, TransferRow, NoRowAssumption
  <2>3. PICK r : queue' = [queue EXCEPT ![u] = r] /\ r.attempts = queue[u].attempts /\ r # NoRow
      BY <1>3, <2>2 DEF SyncTransfers
  <2>4. \A v \in Users : /\ Exists(v) <=> queue'[v] # NoRow
                         /\ Exists(v) => queue'[v].attempts = queue[v].attempts
      BY <2>1, <2>3, NoRowAssumption DEF TypeOK, Exists
  <2> QED
      BY <1>2, <1>3, <2>4, SameKeeps DEF SyncTransfers
<1>4. CASE Crash
  <2>1. \A a \in Actors : act'[a].pc = "idle"
      BY <1>4 DEF Crash, Idle, At
  <2> QED
      BY <1>1, <1>4, <2>1 DEF Crash, AttemptsInv, AttemptsBounded, Exists
<1>5. CASE TimePasses
  <2>1. ASSUME NEW u \in Users, RowAges(u)
        PROVE  AttemptsInv'
    <3>1. queue[u] \in Row
        BY <2>1 DEF RowAges, TypeOK, Exists
    <3>2. Older(queue[u]) # NoRow /\ Older(queue[u]).attempts = queue[u].attempts
        BY <3>1, OlderRow, NoRowAssumption
    <3>3. \A v \in Users : /\ Exists(v) <=> queue'[v] # NoRow
                           /\ Exists(v) => queue'[v].attempts = queue[v].attempts
        BY <2>1, <3>2 DEF RowAges, TypeOK, Exists
    <3> QED
        BY <1>2, <2>1, <3>3, SameKeeps DEF RowAges
  <2>2. ASSUME NEW a \in Actors, CopyAges(a)
        PROVE  AttemptsInv'
    <3> DEFINE t == At(act[a].pc, act[a].todo, act[a].of, Older(act[a].obj))
    <3>1. act[a].obj \in Row
        BY <2>2, ThreadFields DEF CopyAges
    <3>2. /\ t.pc = act[a].pc /\ t.todo = act[a].todo /\ t.of = act[a].of
          /\ t.obj.attempts = act[a].obj.attempts
        BY <3>1, OlderRow DEF At
    <3> HIDE DEF t
    <3>3. \A b \in Actors : act'[b] = IF b = a THEN t ELSE act[b]
        BY <2>2 DEF CopyAges, TypeOK, t
    <3> QED
        BY <1>1, <2>2, <3>2, <3>3 DEF CopyAges, AttemptsInv, AttemptsBounded, Exists
  <2> QED
      BY <1>5, <2>1, <2>2 DEF TimePasses
<1> QED
    BY <1>3, <1>4, <1>5

\* Whatever the hooks and the task overwrite of each other's, the attempts at a user
\* end at two beyond the maximum.
THEOREM AttemptsCorrect == Spec => []AttemptsBounded
<1>1. Init => AttemptsInv
  <2> SUFFICES ASSUME Init
               PROVE  AttemptsInv
      OBVIOUS
  <2>1. Job \in Actors /\ \A a \in Actors : act[a].pc = "idle"
      BY DEF Init, Idle, At, Actors
  <2>2. \A u \in Users : ~Exists(u)
      BY DEF Init, Exists
  <2> QED
      BY <2>1, <2>2 DEF AttemptsInv, AttemptsBounded
<1>2. TypeOK /\ AttemptsInv /\ [Next]_vars => AttemptsInv'
  <2> SUFFICES ASSUME TypeOK, AttemptsInv, [Next]_vars
               PROVE  AttemptsInv'
      OBVIOUS
  <2>1. CASE \E h \in Hooks : HookBegins(h) \/ HookStep(h)
      BY <2>1, HookBounded
  <2>2. CASE JobStep
      BY <2>2, JobBounded
  <2>3. CASE SyncTransfers \/ Crash \/ TimePasses
      BY <2>3, OthersBounded
  <2>4. CASE UNCHANGED vars
      BY <2>4 DEF vars, AttemptsInv, AttemptsBounded, Exists
  <2> QED
      BY <2>1, <2>2, <2>3, <2>4 DEF Next
<1>3. AttemptsInv => AttemptsBounded
    BY DEF AttemptsInv
<1> QED
    BY <1>1, <1>2, <1>3, TypeCorrect, PTL DEF Spec

=============================================================================
