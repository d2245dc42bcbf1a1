--------------------------- MODULE SyncServerProofs ---------------------------
(***************************************************************************)
(* For any number of devices, slots and requests, and any of the times:    *)
(* the state of SyncServer has its type and a device that was told to sync *)
(* finds its slot; and requests that are served at the same time promise  *)
(* one slot too many each, but for the first, and no more.                 *)
(***************************************************************************)
EXTENDS SyncServer, FiniteSetTheorems, TLAPS

PostPcs == {"free", "save", "clean", "count", "next", "claim", "place", "keep"}
Phases == {"idle", "asking", "granted", "gone"} \cup Transferring
PostRecord == [pc : PostPcs, of : Devices \cup {NoDevice}, obj : Row \cup {NoRow}]
DeviceRecord == [phase : Phases, wait : Oldest .. Interval]

InFlight(p, d) == post[p].pc # "free" /\ post[p].of = d

\* A request that is served has a device, and that device's row as QUEUED.
TypeInv ==
    /\ TypeOK
    /\ \A p \in Posts : post[p].pc # "free" =>
         /\ post[p].of \in Devices
         /\ post[p].obj \in Row
         /\ post[p].obj.status = "QUEUED"

-----------------------------------------------------------------------------
(* The operators.                                                          *)

\* The order of the times.
LEMMA TimesOrdered ==
    /\ HalfLife \in Nat /\ StaleTime \in Nat /\ Interval \in Nat
    /\ Handshake \in Nat /\ 1 <= Handshake /\ Handshake < Interval
    /\ Handshake <= Interval - Handshake
    /\ Oldest \in Int /\ Oldest < -HalfLife /\ Oldest < 0
<1>1. HalfLife \in Nat
    BY ConstantsAssumption DEF HalfLife
<1> HIDE DEF HalfLife
<1> QED
    BY <1>1, ConstantsAssumption DEF Oldest

\* The next attempt of a row is set without touching the rest of it.
LEMMA NextAttempt ==
    ASSUME NEW r \in Row, NEW s \in Handshake .. Interval
    PROVE  /\ SetNextAttempt(r, s) \in Row
           /\ SetNextAttempt(r, s).status = r.status
           /\ SetNextAttempt(r, s).wait = s
<1> DEFINE q == [r EXCEPT !.keep = s]
<1>1. q \in Row /\ q.status = r.status
    BY DEF Row
<1>2. SetNextAttempt(r, s) = [q EXCEPT !.wait = s]
    BY DEF SetNextAttempt
<1>3. s \in Oldest .. Interval
    BY TimesOrdered
<1> HIDE DEF q
<1> QED
    BY <1>1, <1>2, <1>3 DEF Row

\* The keep-alive is in its range, whatever the position.
LEMMA KeepAliveRange ==
    ASSUME NEW n \in Nat
    PROVE  KeepAlive(n) \in Handshake .. Interval
<1> DEFINE k == Handshake * n
<1>1. k \in Nat /\ (n # 0 => k >= Handshake)
    BY TimesOrdered
<1>2. KeepAlive(n) = IF k > Interval - Handshake THEN Interval - Handshake
                     ELSE IF n = 0 THEN Handshake ELSE k
    BY DEF KeepAlive
<1> HIDE DEF k
<1> QED
    BY <1>1, <1>2, TimesOrdered

\* clean_stale keeps a row, marks it or deletes it, and lets it be when it is
\* not late by half the interval.
LEMMA Cleaned ==
    ASSUME TypeOK, NEW d \in Devices
    PROVE  /\ CleanStale[d] \in Row \cup {NoRow}
           /\ CleanStale[d] # NoRow =>
                /\ Exists(d)
                /\ CleanStale[d].status = row[d].status \/ CleanStale[d].status = "STALE"
           /\ Exists(d) /\ row[d].wait >= -HalfLife => CleanStale[d] = row[d]
<1>1. CleanStale[d] = IF ~Exists(d) \/ row[d].wait >= -HalfLife THEN row[d]
                      ELSE IF row[d].wait < -StaleTime THEN NoRow
                      ELSE [row[d] EXCEPT !.status = "STALE"]
    BY DEF CleanStale
<1>2. row[d] \in Row \cup {NoRow} /\ (Exists(d) => row[d] \in Row)
    BY DEF TypeOK, Exists
<1>3. ASSUME Exists(d)
      PROVE  /\ [row[d] EXCEPT !.status = "STALE"] \in Row
             /\ [row[d] EXCEPT !.status = "STALE"].status = "STALE"
    BY <1>2, <1>3 DEF Row, Statuses
<1> HIDE DEF CleanStale
<1>4. CASE ~Exists(d)
    BY <1>1, <1>2, <1>4 DEF Exists
<1>5. CASE Exists(d)
    BY <1>1, <1>2, <1>3, <1>5
<1> QED
    BY <1>4, <1>5

-----------------------------------------------------------------------------
(* Types.                                                                  *)

\* It is enough to look at the parts that change.
LEMMA TypeFrame ==
    ASSUME TypeInv,
           row' \in [Devices -> Row \cup {NoRow}],
           dev' \in [Devices -> DeviceRecord],
           stops' \in 0 .. MaxStops,
           \/ post' = post
           \/ \E p \in Posts, r \in PostRecord :
                /\ post' = [post EXCEPT ![p] = r]
                /\ r.pc # "free" => r.of \in Devices /\ r.obj \in Row /\ r.obj.status = "QUEUED"
    PROVE  TypeInv'
<1>1. CASE post' = post
    BY <1>1 DEF TypeInv, TypeOK, DeviceRecord, Phases
<1>2. ASSUME NEW p \in Posts, NEW r \in PostRecord, post' = [post EXCEPT ![p] = r],
             r.pc # "free" => r.of \in Devices /\ r.obj \in Row /\ r.obj.status = "QUEUED"
      PROVE  TypeInv'
  <2>1. post \in [Posts -> PostRecord]
      BY DEF TypeInv, TypeOK, PostRecord, PostPcs
  <2>2. post' \in [Posts -> PostRecord]
      BY <1>2, <2>1
  <2>3. TypeOK'
      BY <2>2 DEF TypeOK, DeviceRecord, Phases, PostRecord, PostPcs
  <2>4. \A q \in Posts : post'[q] = IF q = p THEN r ELSE post[q]
      BY <1>2, <2>1
  <2> QED
      BY <1>2, <2>3, <2>4 DEF TypeInv
<1> QED
    BY <1>1, <1>2

\* A request changes its own row, and its device if that waits for the answer.
LEMMA PostMoves ==
    ASSUME TypeInv, NEW p \in Posts, PostStep(p)
    PROVE  TypeInv'
<1> DEFINE d == post[p].of
<1>0. /\ row \in [Devices -> Row \cup {NoRow}] /\ dev \in [Devices -> DeviceRecord]
      /\ stops \in 0 .. MaxStops /\ post[p] \in PostRecord
    BY DEF TypeInv, TypeOK, DeviceRecord, Phases, PostRecord, PostPcs
<1>1. post[p].pc # "free"
    BY DEF PostStep, PostSaves, PostCleans, PostCounts, PostPicks, PostClaims, PostPlaces,
           PostKeeps
<1>2. d \in Devices /\ post[p].obj \in Row /\ post[p].obj.status = "QUEUED"
    BY <1>1 DEF TypeInv
<1>3. FreePost \in PostRecord /\ FreePost.pc = "free"
    BY DEF FreePost, PostRecord, PostPcs
<1>4. \A c \in PostPcs : LET r == [post[p] EXCEPT !.pc = c] IN
        r \in PostRecord /\ r.of = d /\ r.obj = post[p].obj
    BY <1>0 DEF PostRecord
<1>5. ASSUME NEW ph \in Phases, NEW w \in Oldest .. Interval, Answered(d, ph, w)
      PROVE  dev' \in [Devices -> DeviceRecord]
    BY <1>0, <1>2, <1>5 DEF Answered, DeviceRecord
<1> HIDE DEF d
<1>6. CASE PostSaves(p)
  <2>1. row' \in [Devices -> Row \cup {NoRow}] /\ UNCHANGED <<dev, stops>>
      BY <1>0, <1>2, <1>6 DEF PostSaves, d
  <2>2. post' = [post EXCEPT ![p] = [post[p] EXCEPT !.pc = "clean"]]
      BY <1>6 DEF PostSaves
  <2> QED
      BY <1>0, <1>2, <1>4, <2>1, <2>2, TypeFrame DEF PostPcs
<1>7. CASE PostCleans(p)
  <2>1. row' = CleanStale /\ UNCHANGED <<dev, stops>>
      BY <1>7 DEF PostCleans
  <2>2. CleanStale \in [Devices -> Row \cup {NoRow}]
    <3>1. CleanStale = [e \in Devices |-> CleanStale[e]]
        BY DEF CleanStale
    <3>2. \A e \in Devices : CleanStale[e] \in Row \cup {NoRow}
        BY Cleaned DEF TypeInv
    <3> HIDE DEF CleanStale
    <3> QED
        BY <3>1, <3>2
  <2>3. post' = [post EXCEPT ![p] = [post[p] EXCEPT !.pc = "count"]]
      BY <1>7 DEF PostCleans
  <2> QED
      BY <1>0, <1>2, <1>4, <2>1, <2>2, <2>3, TypeFrame DEF PostPcs
<1>8. CASE PostCounts(p) \/ PostPicks(p)
  <2>1. UNCHANGED <<row, dev, stops>>
      BY <1>8 DEF PostCounts, PostPicks
  <2>2. PICK c \in PostPcs : post' = [post EXCEPT ![p].pc = c]
      BY <1>8 DEF PostCounts, PostPicks, PostPcs
  <2>3. post' = [post EXCEPT ![p] = [post[p] EXCEPT !.pc = c]]
      BY <2>2
  <2> QED
      BY <1>0, <1>2, <1>4, <2>1, <2>3, TypeFrame
<1>9. CASE PostClaims(p)
  <2> DEFINE s == SetNextAttempt(post[p].obj, Handshake)
  <2>1. s \in Row
      BY <1>2, NextAttempt, TimesOrdered
  <2> HIDE DEF s
  <2>2. row' = [row EXCEPT ![d] = [s EXCEPT !.status = "READY"]]
      BY <1>9 DEF PostClaims, s, d
  <2>3. [s EXCEPT !.status = "READY"] \in Row
      BY <2>1 DEF Row, Statuses
  <2>4. row' \in [Devices -> Row \cup {NoRow}]
      BY <1>0, <1>2, <2>2, <2>3
  <2>5. dev' \in [Devices -> DeviceRecord]
    <3>1. Answered(d, "granted", 0)
        BY <1>9 DEF PostClaims, d
    <3>2. 0 \in Oldest .. Interval /\ "granted" \in Phases
        BY TimesOrdered DEF Phases
    <3> QED
        BY <1>5, <3>1, <3>2
  <2>6. post' = [post EXCEPT ![p] = FreePost] /\ UNCHANGED stops
      BY <1>9 DEF PostClaims
  <2> QED
      BY <1>0, <1>3, <2>4, <2>5, <2>6, TypeFrame
<1>10. CASE PostPlaces(p)
  <2> DEFINE r(k) == [pc |-> "keep", of |-> d, obj |-> SetNextAttempt(post[p].obj, k)]
  <2>1. PICK k \in Handshake .. Interval :
            \/ post' = [post EXCEPT ![p] = r(k)] /\ UNCHANGED dev
            \/ post' = [post EXCEPT ![p] = FreePost] /\ Answered(d, "idle", Interval)
    <3> DEFINE active == Rows({"QUEUED", "READY", "SYNCING"})
               above == {e \in active : Scored(e) /\ Score(e) > Score(d)}
    <3>1. Cardinality(above) \in Nat
        BY ConstantsAssumption, FS_Subset, FS_CardinalityType DEF Rows
    <3>2. KeepAlive(Cardinality(above)) \in Handshake .. Interval
        BY <3>1, KeepAliveRange
    <3>3. \/ post' = [post EXCEPT ![p] = r(KeepAlive(Cardinality(above)))] /\ UNCHANGED dev
          \/ post' = [post EXCEPT ![p] = FreePost] /\ Answered(d, "idle", Interval)
        BY <1>10 DEF PostPlaces, d
    <3> HIDE DEF above, r
    <3> QED
        BY <3>2, <3>3
  <2>2. UNCHANGED <<row, stops>>
      BY <1>10 DEF PostPlaces
  <2>3. CASE post' = [post EXCEPT ![p] = r(k)] /\ UNCHANGED dev
    <3>1. SetNextAttempt(post[p].obj, k) \in Row /\ SetNextAttempt(post[p].obj, k).status = "QUEUED"
        BY <1>2, NextAttempt
    <3>2. r(k) \in PostRecord /\ r(k).of = d /\ r(k).obj = SetNextAttempt(post[p].obj, k)
        BY <1>2, <3>1 DEF PostRecord, PostPcs
    <3> HIDE DEF r
    <3> QED
        BY <1>0, <1>2, <2>2, <2>3, <3>1, <3>2, TypeFrame
  <2>4. CASE post' = [post EXCEPT ![p] = FreePost] /\ Answered(d, "idle", Interval)
    <3>1. dev' \in [Devices -> DeviceRecord]
        BY <1>5, <2>4, TimesOrdered DEF Phases
    <3> QED
        BY <1>0, <1>3, <2>2, <2>4, <3>1, TypeFrame
  <2> HIDE DEF r
  <2> QED
      BY <2>1, <2>3, <2>4
<1>11. CASE PostKeeps(p)
  <2>1. row' \in [Devices -> Row \cup {NoRow}]
      BY <1>0, <1>2, <1>11 DEF PostKeeps, d
  <2>2. post[p].obj.keep \in Oldest .. Interval
      BY <1>2, TimesOrdered DEF Row
  <2>3. dev' \in [Devices -> DeviceRecord]
    <3>1. Answered(d, "idle", post[p].obj.keep)
        BY <1>11 DEF PostKeeps, d
    <3> QED
        BY <1>5, <2>2, <3>1 DEF Phases
  <2>4. post' = [post EXCEPT ![p] = FreePost] /\ UNCHANGED stops
      BY <1>11 DEF PostKeeps
  <2> QED
      BY <1>0, <1>3, <2>1, <2>3, <2>4, TypeFrame
<1> QED
    BY <1>6, <1>7, <1>8, <1>9, <1>10, <1>11 DEF PostStep

\* The steps of the devices and the arrival of a request.
LEMMA DevicesMove ==
    ASSUME TypeInv, NEW d \in Devices,
           \/ \E p \in Posts : PostArrives(p, d)
           \/ TransferBegins(d) \/ TransferEnds(d) \/ DeviceStops(d) \/ DeviceLeaves(d)
    PROVE  TypeInv'
<1>0. /\ row \in [Devices -> Row \cup {NoRow}] /\ dev \in [Devices -> DeviceRecord]
      /\ stops \in 0 .. MaxStops /\ (Exists(d) => row[d] \in Row)
      /\ \A p \in Posts : post[p] \in PostRecord
    BY DEF TypeInv, TypeOK, DeviceRecord, Phases, PostRecord, PostPcs, Exists
<1>1. /\ Handshake \in Handshake .. Interval /\ Handshake \in Oldest .. Interval
      /\ 0 \in Oldest .. Interval /\ Interval \in Oldest .. Interval
      /\ Spread \in 0 .. Spread
    BY TimesOrdered, ConstantsAssumption
<1>2. \A s \in Statuses, l \in (0 .. Spread) \cup {NoSync} :
        [status |-> s, keep |-> Handshake, wait |-> Handshake, last |-> l] \in Row
    BY <1>1 DEF Row
<1>3. \A ph \in Phases, w \in Oldest .. Interval : [phase |-> ph, wait |-> w] \in DeviceRecord
    BY DEF DeviceRecord
<1>4. \A ph \in Phases : [dev[d] EXCEPT !.phase = ph] \in DeviceRecord
    BY <1>0 DEF DeviceRecord
<1>5. ASSUME NEW p \in Posts, PostArrives(p, d) PROVE TypeInv'
  <2> DEFINE new == [status |-> "QUEUED", keep |-> Handshake, wait |-> Handshake, last |-> NoSync]
             loaded == IF Exists(d) THEN row[d] ELSE new
             s == SetNextAttempt(loaded, Handshake)
  <2>1. loaded \in Row
      BY <1>0, <1>2 DEF Statuses
  <2>2. s \in Row
      BY <1>1, <2>1, NextAttempt
  <2>3. PICK l \in 0 .. Spread :
            /\ post' = [post EXCEPT ![p] =
                 [pc |-> "save", of |-> d,
                  obj |-> [s EXCEPT !.status = "QUEUED", !.last = IF @ = NoSync THEN l ELSE @]]]
            /\ row' = [row EXCEPT ![d] = loaded]
      BY <1>5 DEF PostArrives
  <2>4. /\ dev' = [dev EXCEPT ![d].phase = IF @ = "idle" THEN "asking" ELSE @]
        /\ UNCHANGED stops
      BY <1>5 DEF PostArrives
  <2> HIDE DEF loaded, s
  <2> DEFINE q == [s EXCEPT !.status = "QUEUED"]
             m == IF s.last = NoSync THEN l ELSE s.last
             o == [s EXCEPT !.status = "QUEUED", !.last = IF @ = NoSync THEN l ELSE @]
  <2>5. q \in Row /\ q.status = "QUEUED" /\ m \in (0 .. Spread) \cup {NoSync} /\ q.last = s.last
      BY <2>2 DEF Row, Statuses
  <2>6. o = [q EXCEPT !.last = m]
      BY <2>2 DEF Row
  <2> HIDE DEF q, m, o
  <2>7. o \in Row /\ o.status = "QUEUED"
      BY <2>5, <2>6 DEF Row
  <2>8. row' \in [Devices -> Row \cup {NoRow}]
      BY <1>0, <2>1, <2>3
  <2>9. dev' \in [Devices -> DeviceRecord]
      BY <1>0, <2>4 DEF DeviceRecord, Phases
  <2>10. [pc |-> "save", of |-> d, obj |-> o] \in PostRecord
      BY <2>7 DEF PostRecord, PostPcs
  <2>11. post' = [post EXCEPT ![p] = [pc |-> "save", of |-> d, obj |-> o]]
      BY <2>3 DEF o
  <2>12. LET r == [pc |-> "save", of |-> d, obj |-> o] IN r.of = d /\ r.obj = o
      OBVIOUS
  <2> QED
      BY <1>0, <2>4, <2>7, <2>8, <2>9, <2>10, <2>11, <2>12, TypeFrame
<1>6. CASE TransferBegins(d)
  <2> DEFINE q == [row[d] EXCEPT !.status = "SYNCING"]
             r == [row[d] EXCEPT !.status = "SYNCING", !.wait = row[d].keep]
             n == [status |-> "SYNCING", keep |-> Handshake, wait |-> Handshake, last |-> NoSync]
  <2>1. n \in Row
      BY <1>2 DEF Statuses
  <2>2. ASSUME Exists(d) PROVE r \in Row
    <3>1. q \in Row /\ row[d].keep \in Oldest .. Interval
        BY <1>0, <2>2, TimesOrdered DEF Row, Statuses
    <3>2. r = [q EXCEPT !.wait = row[d].keep]
        OBVIOUS
    <3> HIDE DEF q, r
    <3> QED
        BY <3>1, <3>2 DEF Row
  <2>3. row' = [row EXCEPT ![d] = IF Exists(d) THEN r ELSE n]
      BY <1>6 DEF TransferBegins
  <2> HIDE DEF q, r, n
  <2>4. row' \in [Devices -> Row \cup {NoRow}]
      BY <1>0, <2>1, <2>2, <2>3
  <2>5. dev' \in [Devices -> DeviceRecord]
      BY <1>0, <1>1, <1>3, <1>6 DEF TransferBegins, Phases, Transferring
  <2> QED
      BY <1>0, <1>6, <2>4, <2>5, TypeFrame DEF TransferBegins
<1>7. CASE TransferEnds(d)
  <2> DEFINE q == [row[d] EXCEPT !.status = "PENDING"]
             w == [q EXCEPT !.wait = row[d].keep]
             r == [row[d] EXCEPT !.status = "PENDING", !.wait = row[d].keep, !.last = Spread]
             n == [status |-> "PENDING", keep |-> Handshake, wait |-> Handshake, last |-> Spread]
  <2>1. n \in Row
      BY <1>1, <1>2 DEF Statuses
  <2>2. ASSUME Exists(d) PROVE r \in Row
    <3>1. q \in Row /\ row[d].keep \in Oldest .. Interval
        BY <1>0, <2>2, TimesOrdered DEF Row, Statuses
    <3>2. r = [w EXCEPT !.last = Spread]
        OBVIOUS
    <3> HIDE DEF q, r
    <3>3. w \in Row
        BY <3>1 DEF Row
    <3> HIDE DEF w
    <3> QED
        BY <1>1, <3>2, <3>3 DEF Row
  <2>3. row' = [row EXCEPT ![d] = IF Exists(d) THEN r ELSE n]
      BY <1>7 DEF TransferEnds
  <2> HIDE DEF q, w, r, n
  <2>4. row' \in [Devices -> Row \cup {NoRow}]
      BY <1>0, <2>1, <2>2, <2>3
  <2>5. dev' \in [Devices -> DeviceRecord]
      BY <1>0, <1>1, <1>3, <1>4, <1>7 DEF TransferEnds, Phases, Transferring
  <2> QED
      BY <1>0, <1>7, <2>4, <2>5, TypeFrame DEF TransferEnds
<1>8. CASE DeviceStops(d) \/ DeviceLeaves(d)
  <2>1. dev' \in [Devices -> DeviceRecord]
      BY <1>0, <1>1, <1>3, <1>8 DEF DeviceStops, DeviceLeaves, Phases
  <2>2. stops' \in 0 .. MaxStops
      BY <1>0, <1>8, ConstantsAssumption DEF DeviceStops, DeviceLeaves
  <2> QED
      BY <1>0, <1>8, <2>1, <2>2, TypeFrame DEF DeviceStops, DeviceLeaves
<1> QED
    BY <1>5, <1>6, <1>7, <1>8

\* The row or the device as it is one unit of time later.
LEMMA Aged ==
    ASSUME TypeInv, Tick, NEW d \in Devices
    PROVE  /\ row'[d] \in Row \cup {NoRow} /\ dev'[d] \in DeviceRecord
           /\ dev'[d].phase = dev[d].phase
           /\ dev'[d].wait <= dev[d].wait /\ dev'[d].wait >= dev[d].wait - 1
           /\ dev'[d].phase # "gone" /\ dev[d].wait > Oldest => dev'[d].wait = dev[d].wait - 1
           /\ row'[d] # NoRow <=> Exists(d)
           /\ Exists(d) => row'[d].status = row[d].status /\ row'[d].wait >= row[d].wait - 1
<1> DEFINE Older(r) == [r EXCEPT !.wait = IF @ > Oldest THEN @ - 1 ELSE @]
<1>0. /\ row[d] \in Row \cup {NoRow} /\ (Exists(d) => row[d] \in Row) /\ dev[d] \in DeviceRecord
    BY DEF TypeInv, TypeOK, Exists, DeviceRecord, Phases
<1>1. /\ row'[d] = IF Exists(d) THEN Older(row[d]) ELSE NoRow
      /\ dev'[d] = IF dev[d].phase = "gone" THEN dev[d] ELSE Older(dev[d])
    BY DEF Tick
<1>2. ASSUME NEW w \in Oldest .. Interval
      PROVE  LET v == IF w > Oldest THEN w - 1 ELSE w IN
               v \in Oldest .. Interval /\ v <= w /\ v >= w - 1 /\ (w > Oldest => v = w - 1)
    BY TimesOrdered
<1>3. ASSUME Exists(d)
      PROVE  /\ Older(row[d]) \in Row /\ Older(row[d]).status = row[d].status
             /\ Older(row[d]).wait >= row[d].wait - 1
  <2>1. row[d].wait \in Oldest .. Interval
      BY <1>0, <1>3 DEF Row
  <2>2. Older(row[d]).wait = IF row[d].wait > Oldest THEN row[d].wait - 1 ELSE row[d].wait
      BY <1>0, <1>3 DEF Row
  <2>3. Older(row[d]).wait \in Oldest .. Interval /\ Older(row[d]).wait >= row[d].wait - 1
      BY <1>2, <2>1, <2>2
  <2>4. Older(row[d]) = [row[d] EXCEPT !.wait = Older(row[d]).wait]
      BY <1>0, <1>3 DEF Row
  <2> QED
      BY <1>0, <1>3, <2>3, <2>4 DEF Row
<1>4. /\ Older(dev[d]) \in DeviceRecord /\ Older(dev[d]).phase = dev[d].phase
      /\ Older(dev[d]).wait <= dev[d].wait /\ Older(dev[d]).wait >= dev[d].wait - 1
      /\ dev[d].wait > Oldest => Older(dev[d]).wait = dev[d].wait - 1
  <2>1. dev[d].wait \in Oldest .. Interval
      BY <1>0 DEF DeviceRecord
  <2>2. Older(dev[d]).wait = IF dev[d].wait > Oldest THEN dev[d].wait - 1 ELSE dev[d].wait
      BY <1>0 DEF DeviceRecord
  <2>3. /\ Older(dev[d]).wait \in Oldest .. Interval /\ Older(dev[d]).wait <= dev[d].wait
        /\ Older(dev[d]).wait >= dev[d].wait - 1
        /\ dev[d].wait > Oldest => Older(dev[d]).wait = dev[d].wait - 1
      BY <1>2, <2>1, <2>2
  <2>4. Older(dev[d]) = [dev[d] EXCEPT !.wait = Older(dev[d]).wait]
      BY <1>0 DEF DeviceRecord
  <2> QED
      BY <1>0, <2>3, <2>4 DEF DeviceRecord
<1>5. dev[d].wait \in Int
    BY <1>0, TimesOrdered DEF DeviceRecord
<1> HIDE DEF Older
<1>6. dev[d].phase = "gone" \/ dev'[d] = Older(dev[d])
    BY <1>1
<1>7. /\ dev'[d] \in DeviceRecord /\ dev'[d].phase = dev[d].phase
      /\ dev'[d].wait <= dev[d].wait /\ dev'[d].wait >= dev[d].wait - 1
      /\ dev'[d].phase # "gone" /\ dev[d].wait > Oldest => dev'[d].wait = dev[d].wait - 1
  <2>1. CASE dev[d].phase = "gone"
      BY <1>0, <1>1, <1>5, <2>1
  <2>2. CASE dev[d].phase # "gone"
      BY <1>1, <1>4, <2>2
  <2> QED
      BY <2>1, <2>2
<1> QED
    BY <1>0, <1>1, <1>3, <1>7, NoRowAssumption DEF Exists

\* Every step keeps the types.
LEMMA TypeStep == TypeInv /\ [Next]_vars => TypeInv'
<1> SUFFICES ASSUME TypeInv, [Next]_vars PROVE TypeInv'
    OBVIOUS
<1>1. CASE UNCHANGED vars
    BY <1>1 DEF TypeInv, TypeOK, vars
<1>2. CASE Tick
  <2>1. \A d \in Devices : row'[d] \in Row \cup {NoRow} /\ dev'[d] \in DeviceRecord
      BY <1>2, Aged
  <2>2. row' \in [Devices -> Row \cup {NoRow}] /\ dev' \in [Devices -> DeviceRecord]
    <3>1. row' = [d \in Devices |-> row'[d]] /\ dev' = [d \in Devices |-> dev'[d]]
        BY <1>2 DEF Tick
    <3> QED
        BY <2>1, <3>1
  <2>3. UNCHANGED <<post, stops>> /\ stops \in 0 .. MaxStops
      BY <1>2 DEF Tick, TypeInv, TypeOK
  <2> QED
      BY <2>2, <2>3, TypeFrame
<1> QED
    BY <1>1, <1>2, PostMoves, DevicesMove DEF Next

\* The types hold at first.
LEMMA TypeInit == Init => TypeInv
<1> SUFFICES ASSUME Init PROVE TypeInv
    OBVIOUS
<1>1. 0 \in Oldest .. Interval /\ 0 \in 0 .. MaxStops
    BY TimesOrdered, ConstantsAssumption
<1> QED
    BY <1>1 DEF Init, TypeInv, TypeOK, FreePost

\* The types hold in every state, with what a request has in memory.
THEOREM TypesHold == Spec => []TypeInv
<1> QED
    BY TypeInit, TypeStep, PTL DEF Spec

\* Whatever the number of devices and requests, and whatever the times: rows,
\* requests and devices keep their shape, and every keep-alive that
\* check_queue computes lies between HANDSHAKING_TIME and SYNC_INTERVAL.
THEOREM TypeCorrect == Spec => []TypeOK
<1>1. TypeInv => TypeOK
    BY DEF TypeInv
<1> QED
    BY <1>1, TypesHold, PTL

-----------------------------------------------------------------------------
(* PromiseIsKept.                                                          *)

\* A device that was told to sync, or may ask by itself, has no request under
\* way, and one that waits for an answer has one: no late request can take back
\* what a device was promised.
AskInv ==
    \A d \in Devices :
        /\ \A p \in Posts : InFlight(p, d) =>
             dev[d].phase # "granted" /\ (dev[d].phase = "idle" => dev[d].wait > 0)
        /\ dev[d].phase = "asking" =>
             \A p, q \in Posts : InFlight(p, d) /\ InFlight(q, d) => p = q

\* The row of a device that was told to sync is not older than the promise.
PromiseInv ==
    \A d \in Devices : dev[d].phase = "granted" /\ dev[d].wait >= -HalfLife
        => Exists(d) /\ row[d].status = "READY" /\ row[d].wait >= dev[d].wait

\* What a step of a request does to the devices and to the other requests.
LEMMA PostEffect ==
    ASSUME TypeInv, NEW p \in Posts, PostStep(p)
    PROVE  /\ InFlight(p, post[p].of) /\ post[p].of \in Devices
           /\ \A q \in Posts, e \in Devices : InFlight(q, e)' => InFlight(q, e)
           /\ \/ dev' = dev
              \/ /\ post'[p].pc = "free"
                 /\ \A e \in Devices : dev'[e] = dev[e] \/ (e = post[p].of /\ dev[e].phase = "asking")
                 /\ dev'[post[p].of] = dev[post[p].of]
                    \/ (dev'[post[p].of].phase = "idle" /\ dev'[post[p].of].wait > 0)
                    \/ /\ dev'[post[p].of].phase = "granted" /\ dev'[post[p].of].wait = 0
                       /\ row'[post[p].of].status = "READY" /\ row'[post[p].of].wait = Handshake
                       /\ row'[post[p].of] # NoRow
<1> DEFINE d == post[p].of
<1>0. /\ post \in [Posts -> PostRecord] /\ dev \in [Devices -> DeviceRecord]
      /\ row \in [Devices -> Row \cup {NoRow}]
    BY DEF TypeInv, TypeOK, DeviceRecord, Phases, PostRecord, PostPcs
<1>1. post[p].pc # "free"
    BY DEF PostStep, PostSaves, PostCleans, PostCounts, PostPicks, PostClaims, PostPlaces,
           PostKeeps
<1>2. d \in Devices /\ post[p].obj \in Row /\ InFlight(p, d)
    BY <1>1 DEF TypeInv, InFlight
<1>3. ASSUME NEW ph, NEW w, Answered(d, ph, w)
      PROVE  /\ \A e \in Devices : dev'[e] = dev[e] \/ (e = d /\ dev[e].phase = "asking")
             /\ dev'[d] = dev[d] \/ (dev'[d].phase = ph /\ dev'[d].wait = w)
    BY <1>0, <1>2, <1>3 DEF Answered
<1> HIDE DEF d
<1>4. CASE PostSaves(p) \/ PostCleans(p) \/ PostCounts(p) \/ PostPicks(p)
  <2>1. dev' = dev
      BY <1>4 DEF PostSaves, PostCleans, PostCounts, PostPicks
  <2>2. PICK c \in PostPcs : post' = [post EXCEPT ![p].pc = c]
      BY <1>4 DEF PostSaves, PostCleans, PostCounts, PostPicks, PostPcs
  <2>3. \A q \in Posts : post'[q].of = post[q].of /\ (post'[q].pc # "free" => post[q].pc # "free")
      BY <1>0, <1>1, <2>2 DEF PostRecord
  <2> QED
      BY <1>2, <2>1, <2>3 DEF InFlight, d
<1>5. CASE PostClaims(p)
  <2> DEFINE s == SetNextAttempt(post[p].obj, Handshake)
  <2>1. s \in Row /\ s.wait = Handshake
      BY <1>2, NextAttempt, TimesOrdered
  <2> HIDE DEF s
  <2> DEFINE r == [s EXCEPT !.status = "READY"]
  <2>2. r \in Row /\ r.status = "READY" /\ r.wait = Handshake /\ r # NoRow
      BY <2>1, NoRowAssumption DEF Row, Statuses
  <2>3. row' = [row EXCEPT ![d] = r]
      BY <1>5 DEF PostClaims, d, s
  <2> HIDE DEF r
  <2>4. row'[d] = r
      BY <1>0, <1>2, <2>3
  <2>5. Answered(d, "granted", 0) /\ post' = [post EXCEPT ![p] = FreePost]
      BY <1>5 DEF PostClaims, d
  <2>6. post'[p].pc = "free" /\ \A q \in Posts : q # p => post'[q] = post[q]
      BY <1>0, <2>5 DEF FreePost
  <2> QED
      BY <1>2, <1>3, <2>2, <2>4, <2>5, <2>6 DEF InFlight, d
<1>6. ASSUME NEW k \in Int, k > 0, Answered(d, "idle", k), post' = [post EXCEPT ![p] = FreePost]
      PROVE  /\ InFlight(p, d)
             /\ \A q \in Posts, e \in Devices : InFlight(q, e)' => InFlight(q, e)
             /\ post'[p].pc = "free"
             /\ \A e \in Devices : dev'[e] = dev[e] \/ (e = d /\ dev[e].phase = "asking")
             /\ dev'[d] = dev[d] \/ (dev'[d].phase = "idle" /\ dev'[d].wait > 0)
  <2>1. post'[p].pc = "free" /\ \A q \in Posts : q # p => post'[q] = post[q]
      BY <1>0, <1>6 DEF FreePost
  <2> QED
      BY <1>2, <1>3, <1>6, <2>1 DEF InFlight
<1>7. CASE PostPlaces(p)
  <2>1. CASE UNCHANGED dev
    <3>1. PICK o : \/ post' = [post EXCEPT ![p] = [pc |-> "keep", of |-> d, obj |-> o]]
                   \/ post' = [post EXCEPT ![p] = FreePost]
        BY <1>7 DEF PostPlaces, d
    <3>2. \A q \in Posts : post'[q].pc # "free" => post'[q].of = post[q].of /\ post[q].pc # "free"
        BY <1>0, <1>1, <3>1 DEF FreePost, d
    <3> QED
        BY <1>2, <2>1, <3>2 DEF InFlight, d
  <2>2. CASE ~UNCHANGED dev
    <3>1. Answered(d, "idle", Interval) /\ post' = [post EXCEPT ![p] = FreePost]
        BY <1>7, <2>2 DEF PostPlaces, d
    <3>2. Interval \in Int /\ Interval > 0
        BY TimesOrdered
    <3> QED
        BY <1>2, <1>6, <3>1, <3>2 DEF d
  <2> QED
      BY <2>1, <2>2
<1>8. CASE PostKeeps(p)
  <2>1. Answered(d, "idle", post[p].obj.keep) /\ post' = [post EXCEPT ![p] = FreePost]
      BY <1>8 DEF PostKeeps, d
  <2>2. post[p].obj.keep \in Int /\ post[p].obj.keep > 0
      BY <1>2, TimesOrdered DEF Row
  <2> QED
      BY <1>2, <1>6, <2>1, <2>2 DEF d
<1> QED
    BY <1>4, <1>5, <1>7, <1>8 DEF PostStep

\* No step breaks that.
LEMMA AskStep == TypeInv /\ AskInv /\ [Next]_vars => AskInv'
<1> SUFFICES ASSUME TypeInv, AskInv, [Next]_vars PROVE AskInv'
    OBVIOUS
<1>0. /\ post \in [Posts -> PostRecord] /\ dev \in [Devices -> DeviceRecord] /\ Interval > 0
    BY TimesOrdered DEF TypeInv, TypeOK, DeviceRecord, Phases, PostRecord, PostPcs
<1>1. CASE UNCHANGED vars
    BY <1>1 DEF AskInv, InFlight, vars
<1>2. ASSUME NEW p \in Posts, NEW d \in Devices, PostArrives(p, d) PROVE AskInv'
  <2>1. PICK o : post' = [post EXCEPT ![p] = [pc |-> "save", of |-> d, obj |-> o]]
      BY <1>2 DEF PostArrives
  <2>2. dev' = [dev EXCEPT ![d].phase = IF @ = "idle" THEN "asking" ELSE @]
      BY <1>2 DEF PostArrives
  <2>3. \A q \in Posts, e \in Devices : InFlight(q, e)' => (q = p /\ e = d) \/ InFlight(q, e)
      BY <1>0, <2>1 DEF InFlight
  <2>4. /\ \A e \in Devices : e # d => dev'[e] = dev[e]
        /\ dev'[d].phase = IF dev[d].phase = "idle" THEN "asking" ELSE dev[d].phase
      BY <1>0, <2>2 DEF DeviceRecord
  <2>5. (dev[d].phase = "idle" /\ dev[d].wait <= 0) \/ dev[d].phase \in Transferring
      BY <1>2 DEF PostArrives, Asks
  <2>6. dev[d].wait \in Int
      BY <1>0, TimesOrdered DEF DeviceRecord
  <2>7. dev[d].phase = "idle" => \A q \in Posts : ~InFlight(q, d)
      BY <2>5, <2>6 DEF AskInv, Transferring
  <2> QED
      BY <2>3, <2>4, <2>5, <2>7 DEF AskInv, Transferring
<1>3. ASSUME NEW p \in Posts, PostStep(p) PROVE AskInv'
  <2>1. PICK d \in Devices : d = post[p].of
      BY <1>3, PostEffect
  <2>2. /\ InFlight(p, d)
        /\ \A q \in Posts, e \in Devices : InFlight(q, e)' => InFlight(q, e)
      BY <1>3, <2>1, PostEffect
  <2>3. CASE dev' = dev
      BY <2>2, <2>3 DEF AskInv
  <2>4. CASE dev' # dev
    <3>1. /\ post'[p].pc = "free"
          /\ \A e \in Devices : dev'[e] = dev[e] \/ (e = d /\ dev[e].phase = "asking")
        BY <1>3, <2>1, <2>4, PostEffect
    <3>2. dev[d].phase = "asking" => \A q \in Posts : ~InFlight(q, d)'
      <4> SUFFICES ASSUME dev[d].phase = "asking", NEW q \in Posts, InFlight(q, d)' PROVE FALSE
          OBVIOUS
      <4>1. InFlight(q, d)
          BY <2>2
      <4>2. q = p
          BY <2>2, <4>1 DEF AskInv
      <4> QED
          BY <3>1, <4>2 DEF InFlight
    <3>3. ASSUME NEW e \in Devices, dev'[e] = dev[e]
          PROVE  /\ \A q \in Posts : InFlight(q, e)' =>
                      dev'[e].phase # "granted" /\ (dev'[e].phase = "idle" => dev'[e].wait > 0)
                 /\ dev'[e].phase = "asking" =>
                      \A q, r \in Posts : InFlight(q, e)' /\ InFlight(r, e)' => q = r
        BY <2>2, <3>3 DEF AskInv
    <3>4. CASE dev[d].phase = "asking"
      <4>1. \A q \in Posts : ~InFlight(q, d)'
          BY <3>2, <3>4
      <4> QED
          BY <3>1, <3>3, <4>1 DEF AskInv
    <3>5. CASE dev[d].phase # "asking"
        BY <3>1, <3>3, <3>5 DEF AskInv
    <3> QED
        BY <3>4, <3>5
  <2> QED
      BY <2>3, <2>4
<1>4. ASSUME NEW d \in Devices,
             TransferBegins(d) \/ TransferEnds(d) \/ DeviceStops(d) \/ DeviceLeaves(d)
      PROVE  AskInv'
  <2>1. post' = post
      BY <1>4 DEF TransferBegins, TransferEnds, DeviceStops, DeviceLeaves
  <2>2. \A e \in Devices : e # d => dev'[e] = dev[e]
      BY <1>0, <1>4 DEF TransferBegins, TransferEnds, DeviceStops, DeviceLeaves
  <2>3. \/ dev'[d].phase \in Transferring \cup {"gone"}
        \/ dev'[d].phase = "idle" /\ dev'[d].wait > 0
      BY <1>0, <1>4 DEF TransferBegins, TransferEnds, DeviceStops, DeviceLeaves, DeviceRecord, Transferring
  <2> QED
      BY <2>1, <2>2, <2>3 DEF AskInv, InFlight, Transferring
<1>5. CASE Tick
    BY <1>5 DEF Tick, AskInv, InFlight
<1> QED
    BY <1>1, <1>2, <1>3, <1>4, <1>5 DEF Next

\* At first nobody asks.
LEMMA AskInit == Init => AskInv
BY DEF Init, AskInv, InFlight, FreePost

\* A request leaves the rows of other devices alone, unless they are late.
LEMMA RowKept ==
    ASSUME TypeInv, NEW p \in Posts, PostStep(p),
           NEW e \in Devices, e # post[p].of, Exists(e), row[e].wait >= -HalfLife
    PROVE  row'[e] = row[e]
<1>0. row \in [Devices -> Row \cup {NoRow}] /\ TypeOK
    BY DEF TypeInv, TypeOK
<1>1. CASE PostSaves(p) \/ PostCounts(p) \/ PostPicks(p)
    BY <1>0, <1>1 DEF PostSaves, PostCounts, PostPicks
<1>2. CASE PostCleans(p)
    BY <1>0, <1>2, Cleaned DEF PostCleans
<1>3. CASE PostClaims(p)
    BY <1>0, <1>3 DEF PostClaims
<1>4. CASE PostPlaces(p)
    BY <1>4 DEF PostPlaces
<1>5. CASE PostKeeps(p)
    BY <1>0, <1>5 DEF PostKeeps
<1> QED
    BY <1>1, <1>2, <1>3, <1>4, <1>5 DEF PostStep

\* What a step of a device does: it never tells the device itself to sync, and
\* lets the other devices and their rows be.
LEMMA DeviceEffect ==
    ASSUME TypeInv, NEW d \in Devices,
           \/ \E p \in Posts : PostArrives(p, d)
           \/ TransferBegins(d) \/ TransferEnds(d) \/ DeviceStops(d) \/ DeviceLeaves(d)
    PROVE  /\ \A e \in Devices : e # d => dev'[e] = dev[e] /\ row'[e] = row[e]
           /\ dev'[d].phase # "granted"
<1>0. row \in [Devices -> Row \cup {NoRow}] /\ dev \in [Devices -> DeviceRecord]
    BY DEF TypeInv, TypeOK, DeviceRecord, Phases
<1>1. ASSUME NEW p \in Posts, PostArrives(p, d)
      PROVE  /\ \A e \in Devices : e # d => dev'[e] = dev[e] /\ row'[e] = row[e]
             /\ dev'[d].phase # "granted"
  <2>1. PICK r : row' = [row EXCEPT ![d] = r]
      BY <1>1 DEF PostArrives
  <2>2. dev' = [dev EXCEPT ![d].phase = IF @ = "idle" THEN "asking" ELSE @]
      BY <1>1 DEF PostArrives
  <2>3. dev[d].phase # "granted"
      BY <1>1 DEF PostArrives, Asks, Transferring
  <2>4. dev'[d].phase = IF dev[d].phase = "idle" THEN "asking" ELSE dev[d].phase
      BY <1>0, <2>2 DEF DeviceRecord
  <2> QED
      BY <1>0, <2>1, <2>2, <2>3, <2>4
<1>2. CASE TransferBegins(d) \/ TransferEnds(d)
  <2>1. PICK r : row' = [row EXCEPT ![d] = r]
      BY <1>2 DEF TransferBegins, TransferEnds
  <2>2. PICK v \in DeviceRecord : dev' = [dev EXCEPT ![d] = v] /\ v.phase # "granted"
    <3> DEFINE b == [phase |-> IF dev[d].phase = "granted" THEN "pulling" ELSE "pushing", wait |-> 0]
               c == [dev[d] EXCEPT !.phase = "between"]
               i == [phase |-> "idle", wait |-> Interval]
    <3>1. b \in DeviceRecord /\ b.phase # "granted" /\ i \in DeviceRecord /\ i.phase # "granted"
        BY TimesOrdered DEF DeviceRecord, Phases, Transferring
    <3>2. c \in DeviceRecord /\ c.phase # "granted"
        BY <1>0 DEF DeviceRecord, Phases, Transferring
    <3>3. dev' = [dev EXCEPT ![d] = b] \/ dev' = [dev EXCEPT ![d] = c] \/ dev' = [dev EXCEPT ![d] = i]
        BY <1>2 DEF TransferBegins, TransferEnds
    <3> HIDE DEF b, c, i
    <3> QED
        BY <3>1, <3>2, <3>3
  <2> QED
      BY <1>0, <2>1, <2>2
<1>3. CASE DeviceStops(d) \/ DeviceLeaves(d)
    BY <1>0, <1>3 DEF DeviceStops, DeviceLeaves
<1> QED
    BY <1>1, <1>2, <1>3

\* No step breaks a promise that is still to be kept.
LEMMA PromiseStep == TypeInv /\ AskInv /\ PromiseInv /\ [Next]_vars => PromiseInv'
<1> SUFFICES ASSUME TypeInv, AskInv, PromiseInv, [Next]_vars,
                    NEW d \in Devices, dev'[d].phase = "granted", dev'[d].wait >= -HalfLife
             PROVE  row'[d] # NoRow /\ row'[d].status = "READY" /\ row'[d].wait >= dev'[d].wait
    BY DEF PromiseInv, Exists
<1>0. /\ dev[d] \in DeviceRecord /\ dev[d].wait \in Int
      /\ Exists(d) => row[d].wait \in Int
    BY TimesOrdered DEF TypeInv, TypeOK, DeviceRecord, Phases, Row, Exists
<1>1. ASSUME dev'[d] = dev[d], Exists(d) /\ row[d].wait >= -HalfLife => row'[d] = row[d]
      PROVE  row'[d] # NoRow /\ row'[d].status = "READY" /\ row'[d].wait >= dev'[d].wait
  <2>1. Exists(d) /\ row[d].status = "READY" /\ row[d].wait >= dev[d].wait
      BY <1>1 DEF PromiseInv
  <2>2. row[d].wait >= -HalfLife
      BY <1>0, <1>1, <2>1, TimesOrdered
  <2> QED
      BY <1>1, <2>1, <2>2 DEF Exists
<1>2. CASE UNCHANGED vars
    BY <1>1, <1>2 DEF vars
<1>3. ASSUME NEW p \in Posts, PostStep(p)
      PROVE  row'[d] # NoRow /\ row'[d].status = "READY" /\ row'[d].wait >= dev'[d].wait
  <2>1. CASE dev'[d] = dev[d]
    <3>1. d # post[p].of
      <4>1. InFlight(p, post[p].of)
          BY <1>3, PostEffect
      <4>2. ~InFlight(p, d)
          BY <2>1 DEF AskInv
      <4> QED
          BY <4>1, <4>2
    <3> QED
        BY <1>1, <1>3, <2>1, <3>1, RowKept
  <2>2. CASE dev'[d] # dev[d]
    <3>1. /\ d = post[p].of /\ dev'[d].wait = 0
          /\ row'[d].status = "READY" /\ row'[d].wait = Handshake /\ row'[d] # NoRow
        BY <1>3, <2>2, PostEffect
    <3> QED
        BY <3>1, TimesOrdered
  <2> QED
      BY <2>1, <2>2
<1>4. ASSUME NEW e \in Devices,
             \/ \E p \in Posts : PostArrives(p, e)
             \/ TransferBegins(e) \/ TransferEnds(e) \/ DeviceStops(e) \/ DeviceLeaves(e)
      PROVE  row'[d] # NoRow /\ row'[d].status = "READY" /\ row'[d].wait >= dev'[d].wait
  <2>1. d # e /\ dev'[d] = dev[d] /\ row'[d] = row[d]
      BY <1>4, DeviceEffect
  <2> QED
      BY <1>1, <2>1
<1>5. CASE Tick
  <2>1. /\ dev[d].phase = "granted" /\ dev[d].wait >= dev'[d].wait /\ dev'[d] \in DeviceRecord
        /\ dev[d].wait > Oldest => dev'[d].wait = dev[d].wait - 1
        /\ row'[d] # NoRow <=> Exists(d)
        /\ Exists(d) => row'[d].status = row[d].status /\ row'[d].wait >= row[d].wait - 1
        /\ row'[d] \in Row \cup {NoRow}
      BY <1>5, Aged
  <2>2. dev'[d].wait \in Int /\ (row'[d] # NoRow => row'[d].wait \in Int)
      BY <2>1, TimesOrdered DEF DeviceRecord, Row
  <2>3. dev[d].wait >= -HalfLife /\ dev'[d].wait = dev[d].wait - 1
      BY <1>0, <2>1, <2>2, TimesOrdered
  <2>4. Exists(d) /\ row[d].status = "READY" /\ row[d].wait >= dev[d].wait
      BY <2>1, <2>3 DEF PromiseInv
  <2> QED
      BY <1>0, <2>1, <2>2, <2>3, <2>4
<1> QED
    BY <1>2, <1>3, <1>4, <1>5 DEF Next

\* However many devices ask at once, and whatever the others do: a device that
\* check_queue told to sync finds its row READY until it is late itself.
THEOREM PromiseCorrect == Spec => []PromiseIsKept
<1>1. Init => TypeInv /\ AskInv /\ PromiseInv
    BY TypeInit, AskInit DEF Init, PromiseInv
<1>2. (TypeInv /\ AskInv /\ PromiseInv) /\ [Next]_vars => (TypeInv /\ AskInv /\ PromiseInv)'
    BY TypeStep, AskStep, PromiseStep
<1>3. TypeInv /\ AskInv /\ PromiseInv => PromiseIsKept
    BY DEF PromiseInv, PromiseIsKept
<1> QED
    BY <1>1, <1>2, <1>3, PTL DEF Spec

-----------------------------------------------------------------------------
(* ReadyBounded.                                                           *)

Ready == Rows({"READY"})

\* The requests that found a slot free, and may claim one.
Pending == {p \in Posts : post[p].pc \in {"next", "claim"}}

\* With one request that found a slot free, no more rows are READY than that count
\* allows; every other one may have counted before the first one claimed.
SlotInv == Cardinality(Ready) + Cardinality(Pending) <= MaxSyncs - 1 + Cardinality(Posts)

\* Only a claim makes a row READY.
LEMMA ReadyShrinks ==
    ASSUME TypeInv, [Next]_vars, \A p \in Posts : ~PostClaims(p)
    PROVE  Ready' \subseteq Ready
<1> SUFFICES ASSUME NEW e \in Devices, row'[e] # NoRow, row'[e].status = "READY"
             PROVE  row[e] # NoRow /\ row[e].status = "READY"
    BY DEF Ready, Rows, Exists
<1>0. row \in [Devices -> Row \cup {NoRow}] /\ TypeOK
    BY DEF TypeInv, TypeOK
<1>1. CASE UNCHANGED vars
    BY <1>1 DEF vars
<1>2. ASSUME NEW p \in Posts, PostStep(p) PROVE row[e] # NoRow /\ row[e].status = "READY"
  <2>1. post[p].pc # "free" => post[p].obj \in Row /\ post[p].obj.status = "QUEUED"
      BY DEF TypeInv
  <2>2. CASE PostSaves(p)
      BY <1>0, <2>1, <2>2 DEF PostSaves
  <2>3. CASE PostCleans(p)
      BY <1>0, <2>3, Cleaned DEF PostCleans, Exists
  <2>4. CASE PostCounts(p) \/ PostPicks(p)
      BY <2>4 DEF PostCounts, PostPicks
  <2>5. CASE PostPlaces(p)
      BY <2>5 DEF PostPlaces
  <2>6. CASE PostKeeps(p)
      BY <1>0, <2>1, <2>6 DEF PostKeeps
  <2> QED
      BY <1>2, <2>2, <2>3, <2>4, <2>5, <2>6 DEF PostStep
<1>3. ASSUME NEW p \in Posts, NEW d \in Devices, PostArrives(p, d)
      PROVE  row[e] # NoRow /\ row[e].status = "READY"
  <2> DEFINE n == [status |-> "QUEUED", keep |-> Handshake, wait |-> Handshake, last |-> NoSync]
  <2>1. row' = [row EXCEPT ![d] = IF Exists(d) THEN row[d] ELSE n]
      BY <1>3 DEF PostArrives
  <2>2. n.status # "READY"
      OBVIOUS
  <2> HIDE DEF n
  <2> QED
      BY <1>0, <2>1, <2>2 DEF Exists
<1>4. ASSUME NEW d \in Devices, TransferBegins(d) \/ TransferEnds(d)
      PROVE  row[e] # NoRow /\ row[e].status = "READY"
  <2> DEFINE b == IF Exists(d) THEN [row[d] EXCEPT !.status = "SYNCING", !.wait = row[d].keep]
                  ELSE [status |-> "SYNCING", keep |-> Handshake, wait |-> Handshake, last |-> NoSync]
             c == IF Exists(d) THEN [row[d] EXCEPT !.status = "PENDING", !.wait = row[d].keep, !.last = Spread]
                  ELSE [status |-> "PENDING", keep |-> Handshake, wait |-> Handshake, last |-> Spread]
  <2>1. Exists(d) => row[d] \in Row
      BY <1>0 DEF Exists
  <2>2. b.status # "READY" /\ c.status # "READY"
      BY <2>1 DEF Row
  <2>3. row' = [row EXCEPT ![d] = b] \/ row' = [row EXCEPT ![d] = c]
      BY <1>4 DEF TransferBegins, TransferEnds
  <2> HIDE DEF b, c
  <2> QED
      BY <1>0, <2>2, <2>3
<1>5. ASSUME NEW d \in Devices, DeviceStops(d) \/ DeviceLeaves(d)
      PROVE  row[e] # NoRow /\ row[e].status = "READY"
    BY <1>5 DEF DeviceStops, DeviceLeaves
<1>6. CASE Tick
    BY <1>6, Aged DEF Exists
<1> QED
    BY <1>1, <1>2, <1>3, <1>4, <1>5, <1>6 DEF Next

\* Ready, pending and taken are finite.
LEMMA SlotsFinite ==
    /\ IsFiniteSet(Ready) /\ IsFiniteSet(Ready') /\ IsFiniteSet(Taken)
    /\ IsFiniteSet(Pending) /\ IsFiniteSet(Pending') /\ IsFiniteSet(Posts)
    /\ Cardinality(Ready) \in Nat /\ Cardinality(Ready') \in Nat /\ Cardinality(Taken) \in Nat
    /\ Cardinality(Pending) \in Nat /\ Cardinality(Pending') \in Nat /\ Cardinality(Posts) \in Nat
    /\ Cardinality(Pending') <= Cardinality(Posts) /\ Cardinality(Ready) <= Cardinality(Taken)
    /\ MaxSyncs \in Nat
<1>1. Ready \subseteq Devices /\ Ready' \subseteq Devices /\ Taken \subseteq Devices
    BY DEF Ready, Rows, Taken
<1>2. Pending \subseteq Posts /\ Pending' \subseteq Posts /\ Ready \subseteq Taken
    BY DEF Pending, Ready, Taken, Rows
<1>3. IsFiniteSet(Devices) /\ IsFiniteSet(Posts) /\ MaxSyncs \in Nat
    BY ConstantsAssumption
<1> QED
    BY <1>1, <1>2, <1>3, FS_Subset, FS_CardinalityType

\* A step of another part of the system, or of a request before its count or after
\* it has given up, makes nobody pending.
LEMMA PendingShrinks ==
    ASSUME TypeInv, [Next]_vars, \A p \in Posts : ~PostCounts(p) /\ ~PostClaims(p)
    PROVE  Pending' \subseteq Pending
<1> SUFFICES ASSUME NEW q \in Posts, post'[q].pc \in {"next", "claim"}
             PROVE  post[q].pc \in {"next", "claim"}
    BY DEF Pending
<1>0. post \in [Posts -> PostRecord]
    BY DEF TypeInv, TypeOK, PostRecord, PostPcs
<1>1. CASE UNCHANGED post
    BY <1>1
<1>2. ASSUME NEW p \in Posts, NEW d \in Devices, PostArrives(p, d)
      PROVE  post[q].pc \in {"next", "claim"}
  <2>1. PICK o : post' = [post EXCEPT ![p] = [pc |-> "save", of |-> d, obj |-> o]]
      BY <1>2 DEF PostArrives
  <2> QED
      BY <1>0, <2>1
<1>3. ASSUME NEW p \in Posts, PostStep(p) PROVE post[q].pc \in {"next", "claim"}
  <2>1. CASE PostSaves(p) \/ PostCleans(p)
      BY <1>0, <2>1 DEF PostSaves, PostCleans, PostRecord
  <2>2. CASE PostPicks(p)
    <3>1. post[p].pc = "next" /\ \A r \in Posts : r # p => post'[r] = post[r]
        BY <1>0, <2>2 DEF PostPicks
    <3> QED
        BY <3>1
  <2>3. CASE PostPlaces(p)
    <3>1. PICK o : \/ post' = [post EXCEPT ![p] = [pc |-> "keep", of |-> post[p].of, obj |-> o]]
                   \/ post' = [post EXCEPT ![p] = FreePost]
        BY <2>3 DEF PostPlaces
    <3> QED
        BY <1>0, <3>1 DEF FreePost
  <2>4. CASE PostKeeps(p)
      BY <1>0, <2>4 DEF PostKeeps, FreePost
  <2> QED
      BY <1>3, <2>1, <2>2, <2>3, <2>4 DEF PostStep
<1>4. \/ UNCHANGED post
      \/ \E p \in Posts, d \in Devices : PostArrives(p, d)
      \/ \E p \in Posts : PostStep(p)
    BY DEF Next, vars, TransferBegins, TransferEnds, DeviceStops, DeviceLeaves, Tick
<1> QED
    BY <1>1, <1>2, <1>3, <1>4

\* A count makes a request pending only while a slot is free; a claim makes one
\* row READY and its request is no longer pending.
LEMMA SlotStep == TypeInv /\ SlotInv /\ [Next]_vars => SlotInv'
<1> SUFFICES ASSUME TypeInv, SlotInv, [Next]_vars PROVE SlotInv'
    OBVIOUS
<1>0. /\ post \in [Posts -> PostRecord] /\ row \in [Devices -> Row \cup {NoRow}]
    BY DEF TypeInv, TypeOK, PostRecord, PostPcs
<1>1. ASSUME NEW p \in Posts, PostClaims(p) PROVE SlotInv'
  <2>1. post[p].pc = "claim" /\ post' = [post EXCEPT ![p] = FreePost]
      BY <1>1 DEF PostClaims
  <2>2. p \in Pending /\ Pending' = Pending \ {p}
      BY <1>0, <2>1 DEF FreePost, Pending
  <2>3. Cardinality(Pending') = Cardinality(Pending) - 1
      BY <2>2, SlotsFinite, FS_RemoveElement
  <2>4. PICK d \in Devices : d = post[p].of
      BY <2>1 DEF TypeInv
  <2>5. Ready' \subseteq Ready \cup {d}
      BY <1>0, <1>1, <2>4 DEF PostClaims, Ready, Rows, Exists
  <2>6. /\ IsFiniteSet(Ready \cup {d}) /\ Cardinality(Ready \cup {d}) \in Nat
        /\ Cardinality(Ready \cup {d}) <= Cardinality(Ready) + 1
    <3>1. IsFiniteSet(Ready \cup {d})
        BY SlotsFinite, FS_AddElement
    <3>2. Cardinality(Ready \cup {d}) = Cardinality(Ready) \/ Cardinality(Ready \cup {d}) = Cardinality(Ready) + 1
        BY SlotsFinite, FS_AddElement
    <3>3. Cardinality(Ready \cup {d}) \in Nat
        BY <3>1, FS_CardinalityType
    <3> QED
        BY SlotsFinite, <3>1, <3>2, <3>3
  <2>7. Cardinality(Ready') <= Cardinality(Ready \cup {d})
      BY <2>5, <2>6, FS_Subset
  <2> QED
      BY <2>3, <2>6, <2>7, SlotsFinite DEF SlotInv
<1>2. ASSUME \A p \in Posts : ~PostClaims(p) PROVE Cardinality(Ready') <= Cardinality(Ready)
    BY <1>2, ReadyShrinks, SlotsFinite, FS_Subset
<1>3. ASSUME NEW p \in Posts, PostCounts(p) PROVE SlotInv'
  <2>1. Ready' = Ready
      BY <1>3 DEF PostCounts, Ready, Rows, Exists
  <2>2. CASE Cardinality(Taken) < MaxSyncs
      BY <2>1, <2>2, SlotsFinite DEF SlotInv
  <2>3. CASE ~(Cardinality(Taken) < MaxSyncs)
    <3>1. post' = [post EXCEPT ![p].pc = "place"]
        BY <1>3, <2>3 DEF PostCounts
    <3>2. Pending' \subseteq Pending
        BY <1>0, <3>1 DEF Pending, PostRecord
    <3>3. Cardinality(Pending') <= Cardinality(Pending)
        BY <3>2, SlotsFinite, FS_Subset
    <3> QED
        BY <2>1, <3>3, SlotsFinite DEF SlotInv
  <2> QED
      BY <2>2, <2>3
<1>4. CASE \A p \in Posts : ~PostCounts(p) /\ ~PostClaims(p)
  <2>1. Pending' \subseteq Pending
      BY <1>4, PendingShrinks
  <2>2. Cardinality(Pending') <= Cardinality(Pending)
      BY <2>1, SlotsFinite, FS_Subset
  <2> QED
      BY <1>2, <1>4, <2>2, SlotsFinite DEF SlotInv
<1> QED
    BY <1>1, <1>3, <1>4

\* However many requests are served at the same time: the slots that check_queue
\* promises on a count that is no longer true are at most one for each request but
\* the first, for any number of devices and any of the times; they do not add up
\* from one round of requests to the next.
THEOREM SlotsCorrect == Spec => []ReadyBounded
<1>1. Init => TypeInv /\ SlotInv
  <2> SUFFICES ASSUME Init PROVE SlotInv
      BY TypeInit
  <2>1. Ready = {} /\ Pending = {}
      BY DEF Init, Ready, Rows, Exists, FreePost, Pending
  <2>2. MaxSyncs \in Nat \ {0} /\ IsFiniteSet(Posts) /\ Posts # {}
      BY ConstantsAssumption
  <2>3. Cardinality(Posts) \in Nat
      BY <2>2, FS_CardinalityType
  <2> QED
      BY <2>1, <2>2, <2>3, FS_EmptySet DEF SlotInv
<1>2. (TypeInv /\ SlotInv) /\ [Next]_vars => (TypeInv /\ SlotInv)'
    BY TypeStep, SlotStep
<1>3. TypeInv /\ SlotInv => ReadyBounded
  <2> SUFFICES ASSUME SlotInv PROVE ReadyBounded
      OBVIOUS
  <2> QED
      BY SlotsFinite DEF SlotInv, ReadyBounded, Ready
<1> QED
    BY <1>1, <1>2, <1>3, PTL DEF Spec
=============================================================================
