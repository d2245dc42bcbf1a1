------------------------------ MODULE SyncServer ------------------------------
(***************************************************************************)
(* The queue in which a server of core/public/api.py lets the devices with *)
(* a subset of its users (SoUDs) wait for their turn to sync.  A device    *)
(* posts to /syncqueue and is told to sync at once (READY) or when to ask  *)
(* again (QUEUED); a device that was told READY pulls and then pushes, and *)
(* the hooks of core/device/kolibri_plugin.py mark its row around each of  *)
(* the two transfers.                                                      *)
(*                                                                         *)
(* The rows live in a database of their own, and the transactions that     *)
(* check_queue opens are transactions of the default database: every query *)
(* is on its own.  The devices are modelled from core/device/soud.py by    *)
(* what the server sees of them.  Times are integers: a row says how long  *)
(* it is until its rendezvous.                                             *)
(***************************************************************************)
EXTENDS Integers, FiniteSets

CONSTANTS
    Devices,        \* a device stands for one user on one instance
    Posts,          \* bound: requests that are served at the same time
    NoRow, NoDevice,
    NoSync,         \* last_sync is not set
    MaxSyncs,       \* MAX_CONCURRENT_SYNCS
    Handshake,      \* HANDSHAKING_TIME
    Interval,       \* SYNC_INTERVAL
    StaleTime,      \* STALE_QUEUE_TIME
    Spread,         \* bound: how far apart the last syncs of the devices are
    MaxStops        \* bound: how often a device breaks off or misses an answer

HalfLife == Interval \div 2

ASSUME ConstantsAssumption ==
    /\ MaxSyncs \in Nat \ {0} /\ Handshake \in Nat \ {0}
    /\ Interval \in Nat /\ Handshake <= Interval - Handshake
    /\ StaleTime \in Nat /\ HalfLife < StaleTime
    /\ Spread \in Nat /\ MaxStops \in Nat
    /\ NoSync \notin Int /\ NoDevice \notin Devices
    /\ IsFiniteSet(Devices) /\ IsFiniteSet(Posts) /\ Posts # {}

VARIABLES
    row,    \* the SyncQueue table of the server
    post,   \* the requests: the device, and its row as the request has it in memory
    dev,    \* the devices: what they are doing, and when they will ask
    stops   \* how often a device has broken off or missed an answer

vars == <<row, post, dev, stops>>

Statuses == {"PENDING", "QUEUED", "READY", "SYNCING", "STALE"}

\* wait is updated + keep_alive - now; beyond the last limit it does not matter.
Oldest == -(StaleTime + 1)
Row == [status : Statuses, keep : Handshake .. Interval,
        wait : Oldest .. Interval, last : (0 .. Spread) \cup {NoSync}]

ASSUME NoRowAssumption == NoRow \notin Row

FreePost == [pc |-> "free", of |-> NoDevice, obj |-> NoRow]

Exists(d) == row[d] # NoRow
Rows(statuses) == {d \in Devices : Exists(d) /\ row[d].status \in statuses}

SetNextAttempt(r, seconds) == [r EXCEPT !.keep = seconds, !.wait = seconds]

-----------------------------------------------------------------------------
(* The score of annotate_score is the time since the last sync less the     *)
(* time until the rendezvous: the smaller the sum below, the higher.  A row *)
(* that has not synced has no score.                                        *)

Scored(d) == row[d].last # NoSync
Score(d) == -(row[d].last + row[d].wait)
Above(d, e) == Scored(d) /\ (Scored(e) => Score(d) > Score(e))

\* find_next_id_in_queue: a queued row above which there is none.
NextInQueue ==
    {d \in Rows({"QUEUED"}) : \A e \in Rows({"QUEUED"}) : ~Above(e, d)}

\* Fault: a slot that was promised does not count yet.
TakenSlots == Rows({"SYNCING"})

\* The rows that hold a slot.
Taken == Rows({"READY", "SYNCING"})

\* Fault: only queued rows grow old.
CleanStaleQueued ==
    [d \in Devices |->
        IF ~Exists(d) \/ row[d].wait >= -HalfLife \/ row[d].status # "QUEUED" THEN row[d]
        ELSE IF row[d].wait < -StaleTime THEN NoRow
        ELSE [row[d] EXCEPT !.status = "STALE"]]

\* Fault: a row is stale as soon as it is late.
CleanStaleEarly ==
    [d \in Devices |->
        IF ~Exists(d) \/ row[d].wait >= 0 THEN row[d]
        ELSE IF row[d].wait < -StaleTime THEN NoRow
        ELSE [row[d] EXCEPT !.status = "STALE"]]

\* clean_stale: whatever its status, a row that missed its rendezvous by half
\* the interval becomes STALE, and goes once it has missed it by StaleTime.
CleanStale ==
    [d \in Devices |->
        IF ~Exists(d) \/ row[d].wait >= -HalfLife THEN row[d]
        ELSE IF row[d].wait < -StaleTime THEN NoRow
        ELSE [row[d] EXCEPT !.status = "STALE"]]

\* Fault: the first in the queue is told to come back at once.
KeepAliveUncut(position) ==
    IF Handshake * position > Interval - Handshake THEN Interval - Handshake
    ELSE Handshake * position

\* When a device that has to wait behind so many others shall ask again.
KeepAlive(position) ==
    IF Handshake * position > Interval - Handshake THEN Interval - Handshake
    ELSE IF position = 0 THEN Handshake
    ELSE Handshake * position

-----------------------------------------------------------------------------
(* A request: create_or_update, then check_queue.                           *)

Transferring == {"pulling", "between", "pushing"}

\* The device asks when its own rendezvous is due.  One that has been syncing
\* for longer than half the interval may ask as well: to its discovery hook
\* (request_sync_hook) the row looks inactive.
Asks(d) ==
    \/ dev[d].phase = "idle" /\ dev[d].wait <= 0
    \/ dev[d].phase \in Transferring /\ dev[d].wait < -HalfLife

\* get_or_create, and what is done to the row in memory.  The first time, the
\* last sync is looked up in the transfer sessions.
PostArrives(p, d) ==
    /\ post[p].pc = "free" /\ Asks(d)
    /\ LET new == [status |-> "QUEUED", keep |-> Handshake, wait |-> Handshake,
                   last |-> NoSync]
       IN \E l \in 0 .. Spread :
            LET loaded == IF Exists(d) THEN row[d] ELSE new
                asked  == [SetNextAttempt(loaded, Handshake) EXCEPT
                             !.status = "QUEUED", !.last = IF @ = NoSync THEN l ELSE @]
            IN /\ post' = [post EXCEPT ![p] = [pc |-> "save", of |-> d, obj |-> asked]]
               /\ row' = [row EXCEPT ![d] = loaded]
    /\ dev' = [dev EXCEPT ![d].phase = IF @ = "idle" THEN "asking" ELSE @]
    /\ UNCHANGED stops

\* save() writes every column, and inserts the row if it has gone.
PostSaves(p) ==
    /\ post[p].pc = "save"
    /\ row' = [row EXCEPT ![post[p].of] = post[p].obj]
    /\ post' = [post EXCEPT ![p].pc = "clean"]
    /\ UNCHANGED <<dev, stops>>

PostCleans(p) ==
    /\ post[p].pc = "clean"
    /\ row' = CleanStale
    /\ post' = [post EXCEPT ![p].pc = "count"]
    /\ UNCHANGED <<dev, stops>>

PostCounts(p) ==
    /\ post[p].pc = "count"
    /\ post' = [post EXCEPT ![p].pc = IF Cardinality(Taken) < MaxSyncs THEN "next" ELSE "place"]
    /\ UNCHANGED <<row, dev, stops>>

PostPicks(p) ==
    /\ post[p].pc = "next"
    /\ \/ NextInQueue = {} /\ post' = [post EXCEPT ![p].pc = "place"]
       \/ \E d \in NextInQueue :
            post' = [post EXCEPT ![p].pc = IF d = post[p].of THEN "claim" ELSE "place"]
    /\ UNCHANGED <<row, dev, stops>>

\* The answer reaches the device, unless that has given up on it or left.
Answered(d, phase, wait) ==
    dev' = [dev EXCEPT ![d] = IF @.phase = "asking" THEN [phase |-> phase, wait |-> wait]
                              ELSE @]

PostClaims(p) ==
    LET d == post[p].of IN
    /\ post[p].pc = "claim"
    /\ row' = [row EXCEPT ![d] =
                 [SetNextAttempt(post[p].obj, Handshake) EXCEPT !.status = "READY"]]
    /\ Answered(d, "granted", 0)
    /\ post' = [post EXCEPT ![p] = FreePost]
    /\ UNCHANGED stops

\* The row is looked up again among the active ones, for its score and then its
\* position (two reads, here at one time); when it is not there, the comparison
\* with its missing score raises and the request fails.
PostPlaces(p) ==
    LET d == post[p].of
        active == Rows({"QUEUED", "READY", "SYNCING"})
        keep == KeepAlive(Cardinality({e \in active : Scored(e) /\ Score(e) > Score(d)}))
    IN
    /\ post[p].pc = "place"
    /\ \/ /\ d \in active /\ Scored(d)
          /\ post' = [post EXCEPT ![p] = [pc |-> "keep", of |-> d,
                                          obj |-> SetNextAttempt(post[p].obj, keep)]]
          /\ UNCHANGED dev
       \/ /\ ~(d \in active /\ Scored(d))
          /\ post' = [post EXCEPT ![p] = FreePost]
          /\ Answered(d, "idle", Interval)
    /\ UNCHANGED <<row, stops>>

\* The keep-alive is saved, and answered.
PostKeeps(p) ==
    LET d == post[p].of IN
    /\ post[p].pc = "keep"
    /\ row' = [row EXCEPT ![d] = post[p].obj]
    /\ Answered(d, "idle", post[p].obj.keep)
    /\ post' = [post EXCEPT ![p] = FreePost]
    /\ UNCHANGED stops

PostStep(p) ==
    \/ PostSaves(p) \/ PostCleans(p) \/ PostCounts(p)
    \/ PostPicks(p) \/ PostClaims(p) \/ PostPlaces(p) \/ PostKeeps(p)

-----------------------------------------------------------------------------
(* The devices.                                                             *)

\* pre_transfer, at the start of the pull and of the push: update_or_create.
TransferBegins(d) ==
    /\ dev[d].phase \in {"granted", "between"}
    /\ dev' = [dev EXCEPT ![d] = [phase |-> IF @.phase = "granted" THEN "pulling" ELSE "pushing",
                                  wait |-> 0]]
    /\ row' = [row EXCEPT ![d] =
         IF Exists(d) THEN [@ EXCEPT !.status = "SYNCING", !.wait = row[d].keep]
         ELSE [status |-> "SYNCING", keep |-> Handshake, wait |-> Handshake, last |-> NoSync]]
    /\ UNCHANGED <<post, stops>>

\* post_transfer, at the end of each.  No device has synced later than this one.
TransferEnds(d) ==
    /\ dev[d].phase \in {"pulling", "pushing"}
    /\ dev' = [dev EXCEPT ![d] = IF @.phase = "pulling" THEN [@ EXCEPT !.phase = "between"]
                                 ELSE [phase |-> "idle", wait |-> Interval]]
    /\ row' = [row EXCEPT ![d] =
         IF Exists(d) THEN [@ EXCEPT !.status = "PENDING", !.wait = row[d].keep, !.last = Spread]
         ELSE [status |-> "PENDING", keep |-> Handshake, wait |-> Handshake, last |-> Spread]]
    /\ UNCHANGED <<post, stops>>

\* The sync fails or the answer is lost; the device backs off.
DeviceStops(d) ==
    /\ dev[d].phase \in {"asking", "granted"} \cup Transferring /\ stops < MaxStops
    /\ dev' = [dev EXCEPT ![d] = [phase |-> "idle", wait |-> Interval]]
    /\ stops' = stops + 1
    /\ UNCHANGED <<row, post>>

\* The device leaves the network for good.
DeviceLeaves(d) ==
    /\ dev[d].phase # "gone"
    /\ dev' = [dev EXCEPT ![d] = [phase |-> "gone", wait |-> 0]]
    /\ UNCHANGED <<row, post, stops>>

\* A unit of time is some seconds: the queries of a request all fall into one.
Tick ==
    LET Older(r) == [r EXCEPT !.wait = IF @ > Oldest THEN @ - 1 ELSE @] IN
    /\ \A p \in Posts : post[p].pc = "free"
    /\ row' = [d \in Devices |-> IF Exists(d) THEN Older(row[d]) ELSE NoRow]
    /\ dev' = [d \in Devices |-> IF dev[d].phase = "gone" THEN dev[d] ELSE Older(dev[d])]
    /\ UNCHANGED <<post, stops>>

Init ==
    /\ row = [d \in Devices |-> NoRow]
    /\ post = [p \in Posts |-> FreePost]
    /\ dev = [d \in Devices |-> [phase |-> "idle", wait |-> 0]]
    /\ stops = 0

Next ==
    \/ \E p \in Posts, d \in Devices : PostArrives(p, d)
    \/ \E p \in Posts : PostStep(p)
    \/ \E d \in Devices : TransferBegins(d) \/ TransferEnds(d) \/ DeviceStops(d) \/ DeviceLeaves(d)
    \/ Tick

Spec == Init /\ [][Next]_vars

(* Fairness.  Requests are served, time passes, and a device that is there   *)
(* asks when its rendezvous has come; a sync may take for ever.              *)
FairSpec ==
    /\ Spec /\ WF_vars(Tick)
    /\ \A p \in Posts : WF_vars(PostStep(p))
    /\ \A d \in Devices :
         WF_vars(dev[d].phase = "idle" /\ \E p \in Posts : PostArrives(p, d))

-----------------------------------------------------------------------------
(* Properties.                                                              *)

\* Every row, every request and every device has the shape the code gives it;
\* no row is to wait less than HANDSHAKING_TIME or more than SYNC_INTERVAL.
TypeOK ==
    /\ row \in [Devices -> Row \cup {NoRow}]
    /\ post \in [Posts -> [pc : {"free", "save", "clean", "count", "next", "claim", "place",
                                 "keep"},
                           of : Devices \cup {NoDevice}, obj : Row \cup {NoRow}]]
    /\ dev \in [Devices -> [phase : {"idle", "asking", "granted", "gone"} \cup Transferring,
                            wait : Oldest .. Interval]]
    /\ stops \in 0 .. MaxStops

\* check_queue promises no more slots than MAX_CONCURRENT_SYNCS, and one more for
\* each further request that is served at the same time: the slots that requests
\* give away on an older count do not add up from one round to the next.
ReadyBounded == Cardinality(Rows({"READY"})) <= MaxSyncs + Cardinality(Posts) - 1

\* The bound that the constant is named for.
SlotsNeverExceed == Cardinality(Rows({"READY"})) <= MaxSyncs

\* No more devices than MAX_CONCURRENT_SYNCS transfer data at a time.
TransfersBounded ==
    Cardinality({d \in Devices : dev[d].phase \in {"pulling", "pushing"}}) <= MaxSyncs

\* A device that was told to sync finds its slot kept for the handshake: the row
\* that the server has for it is READY until it is late.
PromiseIsKept ==
    \A d \in Devices : dev[d].phase = "granted" /\ dev[d].wait >= -HalfLife
        => Exists(d) /\ row[d].status = "READY"

\* The slots of devices that left are taken back: the last device that is there,
\* as long as it keeps asking, is let in.
SurvivorSyncs ==
    \A d \in Devices :
        LET waits == /\ dev[d].phase \in {"idle", "asking"}
                     /\ \A e \in Devices \ {d} : dev[e].phase = "gone"
        IN [](waits => <>(dev[d].phase \in {"granted", "gone"}))
=============================================================================
