-------------------------- MODULE ApiResourceProofs ---------------------------
(***************************************************************************)
(* Theorems about ApiResource, for any rows, collections, values and       *)
(* number of calls: requests about an object are served one at a time and  *)
(* in line (ApiResource implements RequestLine), the line never stands     *)
(* still by itself, and what a fetch gives that asked the server is no     *)
(* older than the fetch.                                                   *)
(***************************************************************************)
EXTENDS ApiResource, FiniteSetTheorems, TLAPS

LineTypes ==
    /\ state \in [Calls -> States]
    /\ owner \in [Calls -> Objects]
    /\ waits \in [Calls -> SUBSET Calls]
    /\ current \in [Keys -> Numbers]
    /\ promises \subseteq Calls

\* Pending calls are in the promises of their object, a request that is out has
\* nothing left to wait for, and of two pending calls one waits for the other.
LineInv ==
    /\ LineTypes
    /\ \A c \in Calls : state[c] \in Pending => c \in promises
    /\ \A c \in Calls : state[c] \in InFlight => \A d \in waits[c] : state[d] = "resolved"
    /\ \A c, d \in Calls :
         state[c] \in Pending /\ state[d] \in Pending /\ owner[c] = owner[d] /\ c # d
            => c \in waits[d] \/ d \in waits[c]

-----------------------------------------------------------------------------
(* The line is kept. *)

\* There is always an object to speak of.
LEMMA AnObject == (CHOOSE o \in Objects : TRUE) \in Objects
<1>1. PICK k \in Keys : TRUE
  <2>1. PICK m \in Ids : TRUE
    BY SomeKeys
  <2>2. <<m, Plain>> \in Models
    BY <2>1, SomeKeys DEF Models
  <2> QED
    BY <2>2 DEF Keys
<1>2. <<k, 0>> \in Objects
  BY <1>1, BoundsAreNat DEF Objects, Numbers
<1> QED
  BY <1>2

\* A call takes its place behind the pending calls of its object.
LEMMA CallKeepsLine ==
    ASSUME LineInv, NEW c \in Calls, NEW k \in Keys, NEW o, NEW v, Call(c, k, o, v)
    PROVE  LineInv'
<1> USE DEF LineInv, LineTypes, Call, Pending, InFlight, Settled, States, PromisesOf, cacheVars
<1>1. Cached(k) \in Objects
  BY DEF Cached, Objects
<1>2. state' = [state EXCEPT ![c] = "waiting"] /\ state[c] = "free"
  OBVIOUS
<1>3. LineTypes'
  BY <1>1
<1>4. ASSUME NEW d \in Calls, state'[d] \in Pending PROVE d \in promises'
  BY <1>4
<1>5. ASSUME NEW d \in Calls, state'[d] \in InFlight, NEW e \in waits'[d]
      PROVE  state'[e] = "resolved"
  <2>1. d # c /\ state[d] \in InFlight /\ waits'[d] = waits[d]
    BY <1>5
  <2>2. e \in Calls /\ state[e] = "resolved"
    BY <1>5, <2>1
  <2> QED
    BY <2>2
<1>6. ASSUME NEW d \in Calls, NEW e \in Calls, state'[d] \in Pending, state'[e] \in Pending,
             owner'[d] = owner'[e], d # e
      PROVE  d \in waits'[e] \/ e \in waits'[d]
  <2>1. CASE d = c
    <3>1. state[e] \in Pending /\ owner[e] = Cached(k)
      BY <1>6, <2>1, <1>1
    <3> QED
      BY <3>1, <2>1
  <2>2. CASE e = c
    <3>1. state[d] \in Pending /\ owner[d] = Cached(k)
      BY <1>6, <2>2, <1>1
    <3> QED
      BY <3>1, <2>2
  <2>3. CASE d # c /\ e # c
    BY <1>6, <2>3
  <2> QED
    BY <2>1, <2>2, <2>3
<1> QED
  BY <1>3, <1>4, <1>5, <1>6

\* What every later step of a call does to the line: it moves up when all it
\* waits for has resolved, or it leaves.
Moves(c) ==
    /\ UNCHANGED <<owner, waits>>
    /\ current' \in [Keys -> Numbers]
    /\ \/ /\ state[c] \in Pending
          /\ \E s \in {"resolved", "rejected", "stuck"} : state' = [state EXCEPT ![c] = s]
          /\ promises' \in {promises, promises \ {c}}
       \/ /\ state[c] = "waiting" /\ \A d \in waits[c] : state[d] = "resolved"
          /\ state' = [state EXCEPT ![c] = "sent"]
          /\ promises' = promises
       \/ /\ state[c] = "sent"
          /\ state' = [state EXCEPT ![c] = "answered"]
          /\ promises' = promises

\* A step of a call that settles it, or leaves it in flight, keeps the line.
LEMMA MovesKeepLine ==
    ASSUME LineInv, NEW c \in Calls, Moves(c)
    PROVE  LineInv'
<1> USE DEF LineInv, LineTypes, Moves, Pending, InFlight, Settled, States
<1>1. LineTypes'
  OBVIOUS
<1>2. ASSUME NEW d \in Calls, state'[d] \in Pending
      PROVE  state[d] \in Pending /\ d \in promises'
  BY <1>2
<1>3. ASSUME NEW d \in Calls, state[d] = "resolved" PROVE state'[d] = "resolved"
  BY <1>3
<1>4. ASSUME NEW d \in Calls, state'[d] \in InFlight, NEW e \in waits'[d]
      PROVE  state'[e] = "resolved"
  <2>1. e \in Calls /\ state[e] = "resolved"
    BY <1>4
  <2> QED
    BY <2>1, <1>3
<1>5. ASSUME NEW d \in Calls, NEW e \in Calls, state'[d] \in Pending, state'[e] \in Pending,
             owner'[d] = owner'[e], d # e
      PROVE  d \in waits'[e] \/ e \in waits'[d]
  BY <1>2, <1>5
<1> QED
  BY <1>1, <1>2, <1>4, <1>5

\* Dropping keys numbers objects.
LEMMA DropKeeps ==
    ASSUME NEW keys, current \in [Keys -> Numbers], Drop(keys)
    PROVE  current' \in [Keys -> Numbers]
  BY BoundsAreNat DEF Drop, Numbers

\* Every step of the client or of the server for a call is such a step.
LEMMA StepsMove ==
    ASSUME LineInv, NEW c \in Calls, Client(c) \/ ServerActs(c)
    PROVE  Moves(c)
<1> USE DEF Moves, cacheVars, Settle, Pending, InFlight, LineInv, LineTypes
<1>1. CASE ResolveFromCache(c) BY <1>1 DEF ResolveFromCache, Ready
<1>2. CASE Send(c) BY <1>2 DEF Send, Ready
<1>3. CASE Cascade(c) BY <1>3 DEF Cascade
<1>4. CASE Arrives(c)
  <2>1. current' \in [Keys -> Numbers]
    BY <1>4, DropKeeps DEF Arrives, Forget, SetModel, SetCollection
  <2> QED
    BY <2>1, <1>4 DEF Arrives
<1>5. CASE Fails(c) BY <1>5 DEF Fails
<1>6. CASE ServerActs(c) BY <1>6 DEF ServerActs
<1> QED
  BY <1>1, <1>2, <1>3, <1>4, <1>5, <1>6 DEF Client

\* LineInv holds at the start.
LEMMA LineStart == Init => LineInv
  BY AnObject, BoundsAreNat
  DEF Init, LineInv, LineTypes, Pending, InFlight, Settled, States, Numbers

\* Every step keeps LineInv.
LEMMA LineStep == LineInv /\ [Next]_vars => LineInv'
<1> SUFFICES ASSUME LineInv, [Next]_vars PROVE LineInv'
  OBVIOUS
<1>1. ASSUME NEW c \in Calls, NEW k \in Keys, NEW o \in Ops, NEW v \in Payload(o),
             Call(c, k, o, v)
      PROVE  LineInv'
  BY <1>1, CallKeepsLine
<1>2. ASSUME NEW c \in Calls, Client(c) \/ ServerActs(c) PROVE LineInv'
  <2>1. Moves(c)
    BY <1>2, StepsMove
  <2> QED
    BY <2>1, MovesKeepLine
<1>3. CASE UNCHANGED vars
  BY <1>3 DEF vars, serverVars, cacheVars, callVars, LineInv, LineTypes
<1>4. CASE ClearCache \/ \E k \in Keys : UnCache(k)
  <2>1. current' \in [Keys -> Numbers] /\ UNCHANGED callVars
    BY <1>4, DropKeeps DEF ClearCache, UnCache, LineInv, LineTypes
  <2> QED
    BY <2>1 DEF callVars, LineInv, LineTypes
<1> QED
  BY <1>1, <1>2, <1>3, <1>4 DEF Next

\* Whatever is called, and however earlier calls end, the line stays a line.
THEOREM LineIsKept == Spec => []LineInv
<1> QED
  BY LineStart, LineStep, PTL DEF Spec

\* Of two pending calls on an object one waits for the other, and a request that
\* is out waits for nothing.
LEMMA OnlyOneIsOut ==
    ASSUME LineInv, NEW c \in Calls, NEW d \in Calls,
           state[c] \in InFlight, state[d] \in InFlight, owner[c] = owner[d]
    PROVE  c = d
  BY DEF LineInv, Pending, InFlight

\* OneRequestAtATime: Promise.all over the promises of the object lets one
\* request about it out at a time.
THEOREM OneRequest == Spec => []OneRequestAtATime
<1>1. LineInv => OneRequestAtATime
  BY OnlyOneIsOut DEF OneRequestAtATime
<1> QED
  BY <1>1, LineIsKept, PTL

-----------------------------------------------------------------------------
(* The line goes on: the part of CallsSettle that is not about fairness.   *)

\* A call waits for earlier calls on its object only, and for all of those that
\* are not settled.
InOrder ==
    /\ \A c, d \in Calls : state[c] = "free" /\ c < d => state[d] = "free"
    /\ \A d \in promises : state[d] # "free"
    /\ \A c \in Calls : state[c] \in Pending \cup {"stuck"} => c \in promises
    /\ \A c \in Calls : \A d \in waits[c] :
            d < c /\ state[d] # "free" /\ owner[d] = owner[c]
    /\ \A c, d \in Calls :
            /\ d < c /\ state[c] # "free" /\ owner[c] = owner[d]
            /\ state[d] \in Pending \cup {"stuck"}
            => d \in waits[c]

\* What the promise of the call, or its request, does next does not depend on a
\* call that has not settled.
CanGoOn(c) ==
    \/ state[c] \in InFlight
    \/ Ready(c)
    \/ state[c] = "waiting" /\ \E d \in waits[c] : state[d] = "rejected"

\* Whatever a call waits for, it or a call ahead of it can go on, unless a bulk
\* save that failed is ahead of it.
NoStandstill ==
    \A c \in Calls : state[c] = "waiting" =>
        \/ \E d \in waits[c] : state[d] = "stuck"
        \/ \E d \in waits[c] \cup {c} : CanGoOn(d)

\* A set of calls has a first one.
LEMMA FirstOf ==
  ASSUME NEW T \in SUBSET Calls, T # {}
  PROVE  \E c \in T : \A d \in T : c <= d
<1> DEFINE Before == {1..c : c \in T}
<1>1. IsFiniteSet(Calls) /\ FiniteSubsetsOf(Calls) = SUBSET Calls
  BY BoundsAreNat, FS_Interval, FS_FiniteSubsetsOfFinite DEF Calls
<1>2. IsWellFoundedOn(StrictSubsetOrdering(Calls), SUBSET Calls)
  BY <1>1, FS_StrictSubsetOrderingWellFounded
<1>3. Before \subseteq SUBSET Calls /\ Before # {}
  <2>1. ASSUME NEW c \in T PROVE 1..c \in SUBSET Calls
    BY BoundsAreNat DEF Calls
  <2> QED
    BY <2>1
<1>4. PICK b \in Before : \A a \in Before : <<a, b>> \notin StrictSubsetOrdering(Calls)
  <2> HIDE DEF Before
  <2> QED
    BY <1>2, <1>3, WFMin
<1>5. PICK c \in T : b = 1..c
  BY <1>4
<1>6. ASSUME NEW d \in T, d < c PROVE FALSE
  <2>1. c \in Calls /\ d \in Calls /\ c \in Nat /\ d \in Nat
    BY BoundsAreNat DEF Calls
  <2>2. 1..d \in Before
    OBVIOUS
  <2>3. 1..d \in SUBSET Calls /\ b \in SUBSET Calls
    <3> HIDE DEF Before
    <3> QED
      BY <1>3, <1>4, <2>2
  <2>4. 1..d \subseteq b /\ c \in b /\ c \notin 1..d
    BY <1>5, <1>6, <2>1, BoundsAreNat DEF Calls
  <2>5. <<1..d, b>> \in StrictSubsetOrdering(Calls)
    BY <2>3, <2>4 DEF StrictSubsetOrdering
  <2> QED
    BY <1>4, <2>2, <2>5
<1> QED
  BY <1>6, BoundsAreNat DEF Calls

LEMMA OrderStart == Init => InOrder
  BY DEF Init, InOrder, Pending, InFlight

LEMMA CallKeepsOrder ==
  ASSUME LineTypes, InOrder, NEW c \in Calls, NEW k \in Keys, NEW o, NEW v, Call(c, k, o, v)
  PROVE  InOrder'
<1> USE DEF LineTypes, Pending, InFlight
<1>1. /\ state[c] = "free" /\ \A d \in 1..(c - 1) : state[d] # "free"
      /\ state' = [state EXCEPT ![c] = "waiting"]
      /\ owner' = [owner EXCEPT ![c] = Cached(k)]
      /\ waits' = [waits EXCEPT ![c] = PromisesOf(Cached(k))]
      /\ promises' = promises \cup {c}
  BY DEF Call
<1>2. \A d \in Calls : d < c => state[d] # "free"
  BY <1>1, BoundsAreNat DEF Calls
<1>3. \A d \in Calls : d > c => state[d] = "free"
  BY <1>1 DEF InOrder
<1>4. \A d \in Calls : d < c \/ d > c \/ d = c
  BY BoundsAreNat DEF Calls
<1>5. \A d, e \in Calls : ~(d < e /\ e < d) /\ ~(d < d)
  BY BoundsAreNat DEF Calls
<1>6. ASSUME NEW d \in Calls, NEW e \in Calls, state'[d] = "free", d < e
      PROVE  state'[e] = "free"
  BY <1>1, <1>2, <1>3, <1>4, <1>5, <1>6 DEF InOrder
<1>7. \A d \in promises' : state'[d] # "free"
  BY <1>1 DEF InOrder
<1>8. \A d \in Calls : state'[d] \in Pending \cup {"stuck"} => d \in promises'
  BY <1>1 DEF InOrder
<1>9. ASSUME NEW d \in Calls, NEW e \in waits'[d]
      PROVE  e < d /\ state'[e] # "free" /\ owner'[e] = owner'[d]
  <2>1. CASE d = c
    <3>1. e \in promises /\ owner[e] = Cached(k)
      BY <1>1, <1>9, <2>1 DEF PromisesOf
    <3>2. e \in Calls /\ state[e] # "free" /\ e # c
      BY <3>1, <1>1 DEF InOrder
    <3>3. owner'[e] = owner[e] /\ state'[e] = state[e] /\ owner'[d] = Cached(k)
      BY <1>1, <2>1, <3>2
    <3> QED
      BY <3>1, <3>2, <3>3, <1>3, <1>4, <2>1
  <2>2. CASE d # c
    <3>1. waits'[d] = waits[d] /\ owner'[d] = owner[d]
      BY <1>1, <2>2
    <3>2. e \in Calls /\ e < d /\ state[e] # "free" /\ owner[e] = owner[d]
      BY <1>9, <3>1 DEF InOrder
    <3> QED
      BY <1>1, <3>1, <3>2
  <2> QED
    BY <2>1, <2>2
<1>10. ASSUME NEW d \in Calls, NEW e \in Calls, e < d, state'[d] # "free",
              owner'[d] = owner'[e], state'[e] \in Pending \cup {"stuck"}
       PROVE  e \in waits'[d]
  <2>1. CASE d = c
    <3>1. e # c /\ state[e] = state'[e] /\ owner[e] = Cached(k)
      BY <1>1, <1>5, <1>10, <2>1
    <3>2. e \in promises
      BY <3>1, <1>10 DEF InOrder
    <3> QED
      BY <1>1, <2>1, <3>1, <3>2 DEF PromisesOf
  <2>2. CASE e = c
    <3>1. state[d] = "free" /\ d # c
      BY <1>3, <1>5, <1>10, <2>2
    <3> QED
      BY <1>1, <1>10, <3>1
  <2>3. CASE d # c /\ e # c
    BY <1>1, <1>10, <2>3 DEF InOrder
  <2> QED
    BY <2>1, <2>2, <2>3
<1> QED
  BY <1>6, <1>7, <1>8, <1>9, <1>10 DEF InOrder

\* Every later step of a call leaves the others, and what they wait for, alone.
LEMMA MovesKeepOrder ==
  ASSUME LineTypes, InOrder, NEW c \in Calls, Client(c) \/ ServerActs(c)
  PROVE  InOrder'
<1> USE DEF LineTypes, Pending, InFlight
<1>1. /\ UNCHANGED <<owner, waits>> /\ state[c] \in Pending
      /\ \E s \in States \ {"free"} : state' = [state EXCEPT ![c] = s]
      /\ \/ promises' = promises
         \/ promises' = promises \ {c} /\ state'[c] \in Settled
  <2> USE DEF cacheVars, States, Settled, Settle
  <2>1. CASE ResolveFromCache(c) BY <2>1 DEF ResolveFromCache, Ready
  <2>2. CASE Send(c) BY <2>2 DEF Send, Ready
  <2>3. CASE Cascade(c) BY <2>3 DEF Cascade
  <2>4. CASE Arrives(c) BY <2>4 DEF Arrives
  <2>5. CASE Fails(c) BY <2>5 DEF Fails
  <2>6. CASE ServerActs(c) BY <2>6 DEF ServerActs
  <2> QED
    BY <2>1, <2>2, <2>3, <2>4, <2>5, <2>6 DEF Client
<1>2. /\ state'[c] # "free" /\ state[c] # "free"
      /\ \A d \in Calls \ {c} : state'[d] = state[d]
  BY <1>1 DEF States
<1>3. \A d \in Calls : state'[d] = "free" <=> state[d] = "free"
  BY <1>2
<1>4. \A d \in Calls : state'[d] \in Pending \cup {"stuck"}
        => d \in promises' /\ state[d] \in Pending \cup {"stuck"}
  BY <1>1, <1>2 DEF InOrder, Settled
<1> QED
  BY <1>1, <1>3, <1>4 DEF InOrder

LEMMA OrderAlways == Spec => []InOrder
<1>1. LineInv /\ InOrder /\ [Next]_vars => InOrder'
  <2> SUFFICES ASSUME LineInv, InOrder, [Next]_vars PROVE InOrder'
    OBVIOUS
  <2>1. CASE UNCHANGED vars \/ ClearCache \/ \E k \in Keys : UnCache(k)
    BY <2>1 DEF vars, callVars, ClearCache, UnCache, InOrder, Pending, InFlight
  <2> QED
    BY <2>1, CallKeepsOrder, MovesKeepOrder DEF Next, LineInv
<1> QED
  BY <1>1, OrderStart, LineIsKept, PTL DEF Spec

\* NoStandstill: the promises of an object never wait for one another in a ring,
\* or for one that is not there (the lists of promises in fetch, save, delete).
THEOREM LineGoesOn == Spec => []NoStandstill
<1>1. ASSUME LineInv, InOrder, NEW c \in Calls, state[c] = "waiting",
             \A d \in waits[c] : state[d] # "stuck",
             \A d \in waits[c] \cup {c} : ~CanGoOn(d)
      PROVE  FALSE
  <2> USE DEF LineInv, LineTypes, Pending, InFlight
  <2> DEFINE Behind == {d \in waits[c] \cup {c} : state[d] = "waiting"}
  <2>1. Behind \in SUBSET Calls /\ c \in Behind
    BY <1>1
  <2>2. PICK d \in Behind : \A e \in Behind : d <= e
    <3> HIDE DEF Behind
    <3> QED
      BY <2>1, FirstOf
  <2>3. /\ d \in Calls /\ d \in waits[c] \cup {c} /\ state[d] = "waiting"
        /\ owner[d] = owner[c] /\ d <= c
    BY <1>1, <2>1, <2>2, BoundsAreNat DEF InOrder, Calls
  <2> HIDE DEF Behind
  <2>4. PICK e \in waits[d] : state[e] # "resolved"
    BY <1>1, <2>3 DEF CanGoOn, Ready
  <2>5. e \in Calls /\ e < d /\ state[e] # "free" /\ owner[e] = owner[c]
    <3>1. waits[d] \subseteq Calls
      BY <1>1, <2>3
    <3> QED
      BY <1>1, <2>3, <2>4, <3>1 DEF InOrder
  <2>6. e < c /\ ~(d <= e)
    BY <2>3, <2>5, BoundsAreNat DEF Calls
  <2>7. state[e] # "rejected"
    BY <1>1, <2>3, <2>4 DEF CanGoOn
  <2>8. state[e] \in Pending \cup {"stuck"}
    <3>1. state[e] \in States
      BY <1>1, <2>5
    <3> QED
      BY <2>4, <2>5, <2>7, <3>1 DEF States, Settled
  <2>9. e \in waits[c]
    BY <1>1, <2>5, <2>6, <2>8 DEF InOrder
  <2>10. state[e] \notin InFlight \cup {"stuck"}
    BY <1>1, <2>9 DEF CanGoOn
  <2>11. e \in Behind
    BY <2>8, <2>9, <2>10 DEF Behind
  <2> QED
    BY <2>2, <2>6, <2>11
<1>2. LineInv /\ InOrder => NoStandstill
  BY <1>1 DEF NoStandstill
<1> QED
  BY <1>2, LineIsKept, OrderAlways, PTL

-----------------------------------------------------------------------------
(* ApiResource implements RequestLine. *)

\* The phase that each state of a call stands for.
LEMMA PhaseNames ==
    /\ PhaseIn("free") = "none" /\ PhaseIn("waiting") = "queued"
    /\ PhaseIn("sent") = "serving" /\ PhaseIn("answered") = "serving"
    /\ PhaseIn("resolved") = "over" /\ PhaseIn("rejected") = "over" /\ PhaseIn("stuck") = "over"
  BY DEF PhaseIn, InFlight, Settled

\* The states that stand for each phase.
LEMMA PhaseOf ==
    ASSUME LineTypes, NEW c \in Calls
    PROVE  /\ Phase[c] = "none" <=> state[c] = "free"
           /\ Phase[c] = "queued" <=> state[c] = "waiting"
           /\ Phase[c] = "serving" <=> state[c] \in InFlight
           /\ Phase[c] = "over" <=> state[c] \in Settled \cup {"stuck"}
  BY DEF Phase, PhaseIn, LineTypes, States, InFlight, Settled

\* A change of one state is a change of one phase.
LEMMA PhaseMoves ==
    ASSUME NEW c \in Calls, LineTypes, NEW s, state' = [state EXCEPT ![c] = s]
    PROVE  Phase' = [Phase EXCEPT ![c] = PhaseIn(s)]
  BY DEF Phase, LineTypes

\* The start of ApiResource is a start of RequestLine.
LEMMA LineInit == Init => Line!Init
<1> SUFFICES ASSUME Init PROVE Line!Init
  OBVIOUS
<1>1. Phase = [c \in Calls |-> "none"]
  BY PhaseNames DEF Init, Phase
<1>2. owner \in [Calls -> Objects]
  BY AnObject DEF Init
<1>3. waits = [c \in Calls |-> {}]
  BY DEF Init
<1> QED
  BY <1>1, <1>2, <1>3 DEF Line!Init

\* Making a call joins the line of the cached object.
LEMMA CallJoins ==
    ASSUME LineInv, NEW c \in Calls, NEW k \in Keys, NEW o, NEW v, Call(c, k, o, v)
    PROVE  Line!Next
<1>1. Cached(k) \in Objects
  BY DEF Cached, Objects, LineInv, LineTypes
<1>2. Phase[c] = "none"
  BY PhaseOf DEF Call, LineInv
<1>3. state' = [state EXCEPT ![c] = "waiting"]
  BY DEF Call
<1>4. Phase' = [Phase EXCEPT ![c] = "queued"]
  <2>1. Phase' = [Phase EXCEPT ![c] = PhaseIn("waiting")]
    BY <1>3, PhaseMoves DEF LineInv
  <2>2. PhaseIn("waiting") = "queued"
    BY PhaseNames
  <2> QED
    BY <2>1, <2>2
<1>5. PromisesOf(Cached(k)) \in SUBSET Calls
  BY DEF PromisesOf, LineInv, LineTypes
<1>6. Line!InLine(Cached(k)) \subseteq PromisesOf(Cached(k))
  <2> SUFFICES ASSUME NEW d \in Calls, Phase[d] \in {"queued", "serving"},
                      owner[d] = Cached(k)
               PROVE  d \in PromisesOf(Cached(k))
    BY DEF Line!InLine
  <2>1. state[d] \in Pending
    BY PhaseOf DEF LineInv, Pending
  <2> QED
    BY <2>1 DEF LineInv, PromisesOf
<1>7. Line!Join(c, Cached(k))
  BY <1>2, <1>4, <1>5, <1>6 DEF Line!Join, Call
<1> QED
  BY <1>1, <1>7 DEF Line!Next

\* Every later step of a call serves it, or makes it leave, or changes nothing.
LEMMA MovesInLine ==
    ASSUME LineInv, NEW c \in Calls, Moves(c)
    PROVE  Line!Next \/ UNCHANGED Line!lineVars
<1> USE DEF LineInv
<1>1. UNCHANGED <<owner, waits>>
  BY DEF Moves
<1>2. ASSUME NEW s \in {"resolved", "rejected", "stuck"}, state[c] \in Pending,
             state' = [state EXCEPT ![c] = s]
      PROVE  Line!Next
  <2>1. PhaseIn(s) = "over"
    BY PhaseNames
  <2>2. Phase' = [Phase EXCEPT ![c] = "over"]
    <3>1. Phase' = [Phase EXCEPT ![c] = PhaseIn(s)]
      BY <1>2, PhaseMoves
    <3> QED
      BY <2>1, <3>1
  <2>3. Phase[c] \in {"queued", "serving"}
    BY <1>2, PhaseOf DEF Pending
  <2>4. Line!Leave(c)
    BY <2>2, <2>3, <1>1 DEF Line!Leave
  <2> QED
    BY <2>4 DEF Line!Next
<1>3. CASE /\ state[c] = "waiting" /\ \A d \in waits[c] : state[d] = "resolved"
           /\ state' = [state EXCEPT ![c] = "sent"]
  <2>1. PhaseIn("sent") = "serving"
    BY PhaseNames
  <2>2. Phase' = [Phase EXCEPT ![c] = "serving"]
    <3>1. Phase' = [Phase EXCEPT ![c] = PhaseIn("sent")]
      BY <1>3, PhaseMoves
    <3> QED
      BY <2>1, <3>1
  <2>3. Phase[c] = "queued"
    BY <1>3, PhaseOf
  <2>4. ASSUME NEW d \in waits[c] PROVE Phase[d] = "over"
    <3>1. d \in Calls /\ state[d] = "resolved"
      BY <1>3, <2>4 DEF LineTypes
    <3> QED
      BY <3>1, PhaseOf DEF Settled
  <2>5. Line!Serve(c)
    BY <2>2, <2>3, <2>4, <1>1 DEF Line!Serve
  <2> QED
    BY <2>5 DEF Line!Next
<1>4. CASE state[c] = "sent" /\ state' = [state EXCEPT ![c] = "answered"]
  <2>1. PhaseIn("answered") = PhaseIn("sent")
    BY PhaseNames
  <2>2. Phase' = [Phase EXCEPT ![c] = PhaseIn("answered")] /\ Phase[c] = PhaseIn("answered")
    BY <1>4, <2>1, PhaseMoves DEF Phase
  <2>4. Phase' = Phase
    <3>1. ASSUME NEW d \in Calls PROVE Phase'[d] = Phase[d]
      BY <2>2 DEF Phase
    <3> QED
      BY <3>1 DEF Phase
  <2> QED
    BY <2>4, <1>1 DEF Line!lineVars
<1> QED
  BY <1>2, <1>3, <1>4 DEF Moves

\* ServedInLine: the promises of an object are a line before it.
THEOREM Implements == Spec => ServedInLine
<1>1. Init => Line!Init
  BY LineInit
<1>2. LineInv /\ [Next]_vars => [Line!Next]_(Line!lineVars)
  <2> SUFFICES ASSUME LineInv, [Next]_vars
               PROVE  Line!Next \/ UNCHANGED Line!lineVars
    OBVIOUS
  <2>1. ASSUME NEW c \in Calls, NEW k \in Keys, NEW o \in Ops, NEW v \in Payload(o),
               Call(c, k, o, v)
        PROVE  Line!Next
    BY <2>1, CallJoins
  <2>2. ASSUME NEW c \in Calls, Client(c) \/ ServerActs(c)
        PROVE  Line!Next \/ UNCHANGED Line!lineVars
    BY <2>2, StepsMove, MovesInLine
  <2>3. CASE UNCHANGED vars \/ ClearCache \/ \E k \in Keys : UnCache(k)
    BY <2>3 DEF vars, callVars, ClearCache, UnCache, Phase, Line!lineVars
  <2> QED
    BY <2>1, <2>2, <2>3 DEF Next
<1> QED
  BY <1>1, <1>2, LineIsKept, PTL DEF Spec, ServedInLine, Line!Spec

-----------------------------------------------------------------------------
(* What a fetch gives. *)

\* An answer to a fetch tells of the rows as they were since it was called.
FetchInv ==
    /\ TypeOK
    /\ \A c \in Calls : state[c] = "answered" /\ op[c] \in Fetches => answer[c] \in since[c]

\* There is a value.
LEMMA AValue == (CHOOSE v \in Values : TRUE) \in Values
  BY SomeKeys

\* FetchInv holds at the start.
LEMMA FetchStart == Init => FetchInv
<1> SUFFICES ASSUME Init PROVE FetchInv
  OBVIOUS
<1>1. owner \in [Calls -> Objects] /\ value \in [Calls -> Values]
  BY AnObject, AValue DEF Init
<1>2. row \in [Ids -> Rows] /\ attributes \in [ModelObjects -> Rows]
      /\ answer \in [Calls -> [Ids -> Rows]]
  BY SomeKeys DEF Init, Rows
<1>3. current \in [Keys -> Numbers] /\ members \in [Objects -> SUBSET ModelObjects]
  BY BoundsAreNat DEF Init, Numbers
<1>4. /\ state \in [Calls -> States] /\ op \in [Calls -> Ops] /\ waits \in [Calls -> SUBSET Calls]
      /\ \A c \in Calls : state[c] = "free"
  BY DEF Init, States, Ops
<1>5. synced = {} /\ promises = {} /\ clears \in 0..MaxClears
  BY BoundsAreNat DEF Init
<1>6. since \in [Calls -> SUBSET [Ids -> Rows]]
  BY DEF Init
<1> QED
  BY <1>1, <1>2, <1>3, <1>4, <1>5, <1>6 DEF FetchInv, TypeOK

\* A call asks for what is in the types, and has no answer.
LEMMA CallKeepsFetch ==
    ASSUME FetchInv, NEW c \in Calls, NEW k \in Keys, NEW o \in Ops,
           NEW v \in Payload(o), Call(c, k, o, v)
    PROVE  FetchInv'
<1> USE DEF FetchInv, Call, serverVars, cacheVars
<1>1. v \in Values
  BY AValue DEF Payload
<1>2. Cached(k) \in Objects
  BY DEF Cached, Objects, TypeOK
<1>3. PromisesOf(Cached(k)) \subseteq Calls
  BY DEF PromisesOf, TypeOK
<1>4. since' \in [Calls -> SUBSET [Ids -> Rows]]
  BY DEF TypeOK
<1>5. TypeOK'
  BY <1>1, <1>2, <1>3, <1>4 DEF TypeOK, States
<1>6. ASSUME NEW d \in Calls, state'[d] = "answered"
      PROVE  d # c /\ state[d] = "answered" /\ op'[d] = op[d] /\ since'[d] = since[d]
  BY <1>6 DEF TypeOK
<1> QED
  BY <1>5, <1>6

\* A call that ends drops its history; the others keep their answers.
LEMMA EndKeepsFetch ==
    ASSUME FetchInv, NEW c \in Calls, NEW s \in {"resolved", "rejected", "stuck"},
           Settle(c, s), UNCHANGED <<serverVars, op>>
    PROVE  /\ state' \in [Calls -> States]
           /\ since' \in [Calls -> SUBSET [Ids -> Rows]]
           /\ \A d \in Calls : state'[d] = "answered" /\ op'[d] \in Fetches
                    => answer'[d] \in since'[d]
<1> USE DEF FetchInv, TypeOK, Settle, serverVars
<1>1. state' \in [Calls -> States]
  BY DEF States, Settled
<1>2. ASSUME NEW d \in Calls, state'[d] = "answered"
      PROVE  d # c /\ state[d] = "answered" /\ since'[d] = since[d]
  BY <1>2
<1> QED
  BY <1>1, <1>2

\* The cached Models that a list holds are objects of their ids.
LEMMA CachedPlain ==
    ASSUME current \in [Keys -> Numbers], NEW m \in Ids
    PROVE  Cached(<<m, Plain>>) \in ModelObjects /\ IdOf(Cached(<<m, Plain>>)) = m
<1>1. PICK k \in Models : k = <<m, Plain>>
  BY SomeKeys DEF Models
<1>2. current[k] \in Numbers /\ k[1] = m
  BY <1>1 DEF Keys
<1>3. PICK n \in Numbers : n = current[k]
  BY <1>2
<1>4. Cached(k) = <<k, n>>
  BY <1>3 DEF Cached
<1> QED
  BY <1>1, <1>2, <1>4 DEF ModelObjects, IdOf

\* The handlers of an answer keep the types of the cache.
LEMMA ArrivesTyped ==
    ASSUME TypeOK, NEW c \in Calls, Arrives(c)
    PROVE  /\ current' \in [Keys -> Numbers] /\ attributes' \in [ModelObjects -> Rows]
           /\ synced' \subseteq Objects /\ members' \in [Objects -> SUBSET ModelObjects]
<1> USE DEF TypeOK
<1>0. owner[c] \in Objects /\ answer[c] \in [Ids -> Rows]
  OBVIOUS
<1>1. CASE op[c] = "delete" /\ Forget(c)
  <2>1. synced' \subseteq synced /\ UNCHANGED <<attributes, members>>
    BY <1>1 DEF Forget
  <2> QED
    BY <1>1, <2>1, DropKeeps DEF Forget
<1>2. CASE IsModel(owner[c]) /\ SetModel(c)
  <2>1. owner[c] \in ModelObjects /\ IdOf(owner[c]) \in Ids
    BY <1>0, <1>2 DEF IsModel, Objects, ModelObjects, Models, IdOf
  <2> QED
    BY <1>0, <1>2, <2>1 DEF SetModel
<1>3. CASE SetCollection(c)
  <2> DEFINE objs == {Cached(<<m, Plain>>) : m \in
                        {m \in Ids : answer[c][m] \notin {Unborn, Gone}}}
  <2>1. /\ attributes' = [o \in ModelObjects |->
                            IF o \in objs THEN answer[c][IdOf(o)] ELSE attributes[o]]
        /\ members' = [members EXCEPT ![owner[c]] = objs]
        /\ synced' = synced \cup objs \cup {owner[c]} /\ current' = current
    BY <1>3 DEF SetCollection
  <2>2. objs \subseteq ModelObjects
    BY CachedPlain
  <2>3. ModelObjects \subseteq Objects /\ \A o \in ModelObjects : IdOf(o) \in Ids
    BY DEF ModelObjects, Objects, Models, Keys, IdOf
  <2> HIDE DEF objs
  <2>4. attributes' \in [ModelObjects -> Rows]
    BY <1>0, <2>1, <2>3
  <2> QED
    BY <1>0, <2>1, <2>2, <2>3, <2>4
<1> QED
  BY <1>1, <1>2, <1>3 DEF Arrives

\* The server acts on what is there, and a fetch is told of it.
LEMMA ServerKeepsFetch ==
    ASSUME FetchInv, NEW c \in Calls, ServerActs(c)
    PROVE  FetchInv'
<1> USE DEF FetchInv, TypeOK
<1>1. owner[c] \in Objects /\ value[c] \in Rows /\ op[c] \in Ops
  BY DEF Rows
<1>2. row' \in [Ids -> Rows] /\ answer' \in [Calls -> [Ids -> Rows]]
      /\ (op[c] \in Fetches => answer'[c] = row')
      /\ \A d \in Calls \ {c} : answer'[d] = answer[d]
  <2>1. CASE IsModel(owner[c])
    <3>1. ServeModel(c, IdOf(owner[c])) /\ IdOf(owner[c]) \in Ids
      BY <1>1, <2>1 DEF ServerActs, IsModel, Models, IdOf
    <3>2. row' \in [Ids -> Rows]
      BY <1>1, <3>1 DEF ServeModel, Rows
    <3> QED
      BY <3>1, <3>2 DEF ServeModel
  <2>2. CASE ~IsModel(owner[c])
    <3>1. ServeList(c)
      BY <2>2 DEF ServerActs
    <3>2. CASE op[c] \in {"fetch", "refetch"}
      BY <3>1, <3>2 DEF ServeList, Fetches
    <3>3. CASE op[c] = "save"
      <4>1. PICK made \in SUBSET {m \in Ids : row[m] = Unborn} :
              /\ row' = [m \in Ids |-> IF m \in made THEN value[c] ELSE row[m]]
              /\ answer' = [answer EXCEPT ![c] =
                    [m \in Ids |-> IF m \in made THEN value[c] ELSE Unborn]]
        BY <3>1, <3>3 DEF ServeList
      <4>2. [m \in Ids |-> IF m \in made THEN value[c] ELSE Unborn] \in [Ids -> Rows]
        BY <1>1 DEF Rows
      <4>3. row' \in [Ids -> Rows]
        BY <1>1, <4>1
      <4> QED
        BY <3>3, <4>1, <4>2, <4>3 DEF Fetches
    <3>4. CASE op[c] = "delete"
      BY <3>1, <3>4 DEF ServeList, Fetches, Rows
    <3> QED
      BY <1>1, <3>2, <3>3, <3>4 DEF Ops
  <2> QED
    BY <2>1, <2>2
<1>3. since' = [d \in Calls |-> IF state[d] \in Pending /\ op[d] \in Fetches
                                THEN since[d] \cup {row'} ELSE since[d]]
  BY DEF ServerActs
<1>4. since' \in [Calls -> SUBSET [Ids -> Rows]]
  BY <1>2, <1>3
<1>5. state[c] = "sent" /\ state' = [state EXCEPT ![c] = "answered"]
      /\ UNCHANGED <<cacheVars, owner, op, value, waits, promises>>
  BY DEF ServerActs
<1>6. TypeOK'
  BY <1>2, <1>4, <1>5 DEF cacheVars, States, InFlight
<1>7. ASSUME NEW d \in Calls, state'[d] = "answered", op'[d] \in Fetches
      PROVE  answer'[d] \in since'[d]
  <2>1. CASE d = c
    <3>1. state[c] \in Pending
      BY <1>5 DEF Pending, InFlight
    <3> QED
      BY <1>2, <1>3, <1>5, <1>7, <2>1, <3>1
  <2>2. CASE d # c
    <3>1. state[d] = "answered" /\ op[d] \in Fetches
      BY <1>5, <1>7, <2>2
    <3>2. answer[d] \in since[d]
      BY <3>1
    <3>3. since[d] \subseteq since'[d]
      BY <1>3
    <3> QED
      BY <1>2, <2>2, <3>2, <3>3
  <2> QED
    BY <2>1, <2>2
<1> QED
  BY <1>6, <1>7

\* Every step keeps FetchInv.
LEMMA FetchStep == FetchInv /\ [Next]_vars => FetchInv'
<1> SUFFICES ASSUME FetchInv, [Next]_vars PROVE FetchInv'
  OBVIOUS
<1> USE DEF FetchInv
<1>1. ASSUME NEW c \in Calls, ResolveFromCache(c) \/ Cascade(c) \/ Fails(c) PROVE FetchInv'
  <2>1. /\ UNCHANGED <<serverVars, cacheVars, owner, op, value, waits>>
        /\ promises' \subseteq promises
        /\ \E s \in {"resolved", "rejected", "stuck"} : Settle(c, s)
    BY <1>1 DEF ResolveFromCache, Cascade, Fails
  <2>2. /\ state' \in [Calls -> States]
        /\ since' \in [Calls -> SUBSET [Ids -> Rows]]
        /\ \A d \in Calls : state'[d] = "answered" /\ op'[d] \in Fetches
                => answer'[d] \in since'[d]
    BY <2>1, EndKeepsFetch
  <2> QED
    BY <2>1, <2>2 DEF TypeOK, serverVars, cacheVars
<1>2. ASSUME NEW c \in Calls, Send(c) PROVE FetchInv'
  <2>1. /\ state' = [state EXCEPT ![c] = "sent"] /\ synced' \subseteq synced
        /\ UNCHANGED <<serverVars, current, attributes, members, clears, since,
                       owner, op, value, waits, promises>>
    BY <1>2 DEF Send
  <2> QED
    BY <2>1 DEF TypeOK, serverVars, States, InFlight
<1>3. ASSUME NEW c \in Calls, Arrives(c) PROVE FetchInv'
  <2>1. /\ Settle(c, "resolved") /\ promises' \subseteq promises
        /\ UNCHANGED <<serverVars, clears, owner, op, value, waits>>
    BY <1>3 DEF Arrives
  <2>2. /\ state' \in [Calls -> States]
        /\ since' \in [Calls -> SUBSET [Ids -> Rows]]
        /\ \A d \in Calls : state'[d] = "answered" /\ op'[d] \in Fetches
                => answer'[d] \in since'[d]
    BY <2>1, EndKeepsFetch
  <2>3. /\ current' \in [Keys -> Numbers] /\ attributes' \in [ModelObjects -> Rows]
        /\ synced' \subseteq Objects /\ members' \in [Objects -> SUBSET ModelObjects]
    BY <1>3, ArrivesTyped
  <2> QED
    BY <2>1, <2>2, <2>3 DEF TypeOK, serverVars
<1>4. CASE ClearCache \/ \E k \in Keys : UnCache(k)
  <2>1. /\ current' \in [Keys -> Numbers] /\ synced' \subseteq synced
        /\ clears < MaxClears /\ clears' = clears + 1
        /\ UNCHANGED <<serverVars, callVars, attributes, members>>
    BY <1>4, DropKeeps DEF ClearCache, UnCache, TypeOK
  <2>2. clears' \in 0..MaxClears
    BY <2>1, BoundsAreNat DEF TypeOK
  <2> QED
    BY <2>1, <2>2 DEF TypeOK, serverVars, callVars
<1>5. CASE UNCHANGED vars
  BY <1>5 DEF vars, serverVars, cacheVars, callVars, TypeOK
<1> QED
  BY <1>1, <1>2, <1>3, <1>4, <1>5, CallKeepsFetch, ServerKeepsFetch DEF Next, Client

LEMMA FetchIsKept == Spec => []FetchInv
<1> QED
  BY FetchStart, FetchStep, PTL DEF Spec

\* TypeOK, for any number of calls and of clearings.
THEOREM Types == Spec => []TypeOK
<1>1. FetchInv => TypeOK
  BY DEF FetchInv
<1> QED
  BY <1>1, FetchIsKept, PTL

\* A fetch that asks the server resolves by its answer.
LEMMA ResolvesByAnswer ==
    ASSUME FetchInv, NEW c \in Calls, [Next]_vars,
           op[c] = "refetch" \/ (op[c] = "fetch" /\ state[c] = "answered"),
           state[c] # "resolved", state'[c] = "resolved"
    PROVE  Arrives(c)
<1> USE DEF FetchInv
<1>2. ASSUME NEW d \in Calls, NEW s, s # "resolved", state' = [state EXCEPT ![d] = s]
      PROVE  FALSE
  BY <1>2 DEF TypeOK
<1>3. ASSUME NEW d \in Calls, NEW s, state' = [state EXCEPT ![d] = s] PROVE d = c
  BY <1>3 DEF TypeOK
<1>4. ASSUME NEW d \in Calls, Client(d) PROVE Arrives(c)
  <2>1. CASE Arrives(d)
    BY <2>1, <1>3 DEF Arrives, Settle
  <2>2. CASE ResolveFromCache(d)
    <3>1. d = c
      BY <2>2, <1>3 DEF ResolveFromCache, Settle
    <3> QED
      BY <2>2, <3>1 DEF ResolveFromCache, NothingToDo, Ready
  <2>3. CASE Send(d) \/ Cascade(d) \/ Fails(d)
    BY <2>3, <1>2 DEF Send, Cascade, Fails, Settle
  <2> QED
    BY <1>4, <2>1, <2>2, <2>3 DEF Client
<1>5. ASSUME NEW d \in Calls, ServerActs(d) PROVE FALSE
  BY <1>5, <1>2 DEF ServerActs
<1>6. ASSUME NEW d \in Calls, NEW k \in Keys, NEW o, NEW v, Call(d, k, o, v) PROVE FALSE
  BY <1>6, <1>2 DEF Call
<1>7. CASE ClearCache \/ (\E k \in Keys : UnCache(k)) \/ UNCHANGED vars
  BY <1>7 DEF ClearCache, UnCache, vars, callVars
<1> QED
  BY <1>4, <1>5, <1>6, <1>7 DEF Next

\* FetchesAreFresh: a fetch of a Model or a Collection that asks the server never
\* gives what was there before it was called (fetch, and Collection.set).
THEOREM FetchesGiveTheNew == Spec => FetchesAreFresh
<1>1. ASSUME FetchInv, [Next]_vars, NEW c \in Calls,
             op[c] = "refetch" \/ (op[c] = "fetch" /\ state[c] = "answered"),
             state[c] # "resolved", state'[c] = "resolved"
      PROVE  \E r \in since[c] : Shows(owner[c], r)'
  <2> DEFINE a == answer[c]
  <2>1. Arrives(c) /\ state[c] = "answered" /\ owner' = owner /\ owner[c] \in Objects
    BY <1>1, ResolvesByAnswer DEF Arrives, FetchInv, TypeOK
  <2>2. a \in since[c] /\ a \in [Ids -> Rows]
    BY <1>1, <2>1 DEF FetchInv, TypeOK, Fetches
  <2>3. PICK o \in Objects : o = owner[c]
    BY <2>1
  <2>4. CASE IsModel(o)
    <3>1. attributes' = [attributes EXCEPT ![o] = a[IdOf(o)]] /\ o \in ModelObjects
      BY <1>1, <2>1, <2>3, <2>4 DEF Arrives, SetModel, IsModel, Objects, ModelObjects
    <3>2. attributes'[o] = a[IdOf(o)]
      BY <1>1, <3>1 DEF FetchInv, TypeOK
    <3>3. \E r \in since[c] : r = a /\ attributes'[o] = r[IdOf(o)]
      BY <2>2, <3>2
    <3> QED
      BY <2>1, <2>3, <2>4, <3>3 DEF Shows, IsModel, IdOf
  <2>5. CASE ~IsModel(o)
    <3> DEFINE objs == {Cached(<<m, Plain>>) : m \in
                            {m \in Ids : a[m] \notin {Unborn, Gone}}}
    <3>1. /\ attributes' = [x \in ModelObjects |->
                              IF x \in objs THEN a[IdOf(x)] ELSE attributes[x]]
          /\ members' = [members EXCEPT ![o] = objs]
      BY <1>1, <2>1, <2>3, <2>5 DEF Arrives, SetCollection
    <3>2. members'[o] = objs
      BY <1>1, <3>1 DEF FetchInv, TypeOK
    <3>3. \A x \in objs : x \in ModelObjects /\ IdOf(x) \in Ids
                           /\ a[IdOf(x)] \notin {Unborn, Gone}
      BY <1>1, CachedPlain DEF FetchInv, TypeOK
    <3>4. \A m \in Ids : a[m] \notin {Unborn, Gone} => \E x \in objs : IdOf(x) = m
      BY <1>1, CachedPlain DEF FetchInv, TypeOK
    <3> HIDE DEF objs
    <3>5. \A x \in objs : attributes'[x] = a[IdOf(x)]
      BY <3>1, <3>3
    <3> DEFINE Told(r) ==
            \A m \in Ids :
                IF r[m] \in {Unborn, Gone}
                THEN ~\E x \in members'[o] : IdOf(x) = m
                ELSE /\ \E x \in members'[o] : IdOf(x) = m
                     /\ \A x \in members'[o] : IdOf(x) = m => attributes'[x] = r[m]
    <3>6. Told(a)
      BY <3>2, <3>3, <3>4, <3>5
    <3>7. \E r \in since[c] : Told(r)
      BY <2>2, <3>6
    <3> QED
      BY <2>1, <2>3, <2>5, <3>7 DEF Shows, IsModel, IdOf
  <2> QED
    BY <2>4, <2>5
<1>2. FetchInv /\ [Next]_vars =>
        \A c \in Calls :
            /\ op[c] = "refetch" \/ (op[c] = "fetch" /\ state[c] = "answered")
            /\ state[c] # "resolved" /\ state'[c] = "resolved"
            => \E r \in since[c] : Shows(owner[c], r)'
  BY <1>1
<1> QED
  BY <1>2, FetchIsKept, PTL DEF Spec, FetchesAreFresh
=============================================================================
