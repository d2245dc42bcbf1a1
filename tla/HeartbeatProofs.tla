---------------------------- MODULE HeartbeatProofs ----------------------------
(***************************************************************************)
(* Theorems about Heartbeat, for any users, reconnect times and bounds: a  *)
(* heartbeat that is enabled never dies, and while the server is lost the  *)
(* page asks less and less often, between two times that are kept.         *)
(***************************************************************************)
EXTENDS Heartbeat, TLAPS

\* The types that the two arguments below need.
Typed ==
    /\ enabled \in BOOLEAN /\ polling \in BOOLEAN /\ connected \in BOOLEAN
    /\ timer \in {0, 1} /\ stray \in Nat /\ reconnect \in Nat

\* The three facts are inductive together: a poll that is lost reads the
\* reconnect time, and leaves the timer armed.
Alive == Typed /\ NeverStops /\ BackoffInRange

(* The initial state polls, is connected, and has no reconnect time. *)
LEMMA AliveAtFirst == Init => Alive
BY DEF Init, Alive, Typed, NeverStops, BackoffInRange

(* After pollSessionEndPoint, a heartbeat that is enabled polls. *)
LEMMA PollFacts ==
    ASSUME Typed, NEW t \in {0, 1}, Poll(t)
    PROVE  enabled' = enabled /\ polling' \in BOOLEAN /\ timer' \in {0, 1}
           /\ (enabled => polling')
BY DEF Typed, Poll

(* _wait arms the timer that the heartbeat holds. *)
LEMMA WaitFacts ==
    ASSUME NEW n \in Nat, NEW t \in {0, 1}, NEW s \in Nat, Wait(n, t, s)
    PROVE  timer' \in {0, 1} /\ stray' \in Nat /\ (timer' = 1 \/ (n = 0 /\ timer' = t))
BY DEF Wait, Lower

(* When a poll is over, a heartbeat that is enabled has its timer armed. *)
LEMMA FinalFacts ==
    ASSUME Typed, NEW n \in Nat, Final(n)
    PROVE  enabled' = enabled /\ polling' = FALSE /\ timer' \in {0, 1} /\ stray' \in Nat
           /\ (enabled => timer' = 1)
<1>1. (IF enabled THEN n + 1 ELSE n) \in Nat
  OBVIOUS
<1>2. Wait(IF enabled THEN n + 1 ELSE n, timer, stray)
  BY DEF Final
<1>3. timer' \in {0, 1} /\ stray' \in Nat
      /\ (timer' = 1 \/ ((IF enabled THEN n + 1 ELSE n) = 0 /\ timer' = timer))
  <2> DEFINE k == IF enabled THEN n + 1 ELSE n
  <2>1. k \in Nat /\ Wait(k, timer, stray)
    BY <1>1, <1>2
  <2> HIDE DEF k
  <2>2. timer' \in {0, 1} /\ stray' \in Nat /\ (timer' = 1 \/ (k = 0 /\ timer' = timer))
    BY <2>1, WaitFacts DEF Typed
  <2> QED
    BY <2>2 DEF k
<1> QED
  BY <1>3 DEF Final

(* Every step keeps a poll or a timer, and the reconnect time in its range. *)
LEMMA AliveStep == Alive /\ [Next]_vars => Alive'
<1> SUFFICES ASSUME Alive, [Next]_vars PROVE Alive'
  OBVIOUS
<1> USE ReconnectTimes
<1>1. CASE PollAnswered
  <2>1. CASE Final(IF connected THEN 0 ELSE 1)
    <3>1. (IF connected THEN 0 ELSE 1) \in Nat
      OBVIOUS
    <3>2. enabled' = enabled /\ timer' \in {0, 1} /\ stray' \in Nat
          /\ polling' = FALSE /\ (enabled => timer' = 1)
      BY <2>1, <3>1, FinalFacts DEF Alive
    <3> QED
      BY <1>1, <3>2 DEF Alive, Typed, NeverStops, BackoffInRange, PollAnswered, Reconnected
  <2>2. CASE page' # "open" /\ UNCHANGED beat
    BY <1>1, <2>2 DEF Alive, Typed, NeverStops, BackoffInRange, PollAnswered,
                      Reconnected, beat
  <2> QED
    BY <1>1, <2>1, <2>2 DEF PollAnswered, Leave
<1>2. CASE PollErrors
  <2>1. CASE Final(IF connected THEN 0 ELSE 1)
    <3>1. (IF connected THEN 0 ELSE 1) \in Nat
      OBVIOUS
    <3>2. enabled' = enabled /\ timer' \in {0, 1} /\ stray' \in Nat
          /\ polling' = FALSE /\ (enabled => timer' = 1)
      BY <2>1, <3>1, FinalFacts DEF Alive
    <3> QED
      BY <1>2, <3>2 DEF Alive, Typed, NeverStops, BackoffInRange, PollErrors, Reconnected
  <2>2. CASE page' # "open" /\ UNCHANGED beat
    BY <1>2, <2>2 DEF Alive, Typed, NeverStops, BackoffInRange, PollErrors,
                      Reconnected, beat
  <2> QED
    BY <1>2, <2>1, <2>2 DEF PollErrors, Leave
<1>3. CASE PollLost
  <2>1. (IF connected THEN 1 ELSE 0) \in Nat /\ Final(IF connected THEN 1 ELSE 0)
    BY <1>3 DEF PollLost
  <2>2. enabled' = enabled /\ timer' \in {0, 1} /\ stray' \in Nat
        /\ polling' = FALSE /\ (enabled => timer' = 1)
    BY <2>1, FinalFacts DEF Alive
  <2>3. connected' = FALSE /\ reconnect' \in MinReconnect..MaxReconnect
    BY <1>3 DEF Alive, Typed, BackoffInRange, PollLost, Disconnected, BackedOff,
                Lower, Codes
  <2>4. Typed' /\ BackoffInRange'
    <3>1. reconnect' \in Nat
      BY <2>2, <2>3
    <3>2. BackoffInRange'
      BY <2>2, <2>3 DEF BackoffInRange
    <3> QED
      BY <2>2, <2>3, <3>1, <3>2 DEF Typed, Alive
  <2> QED
    BY <2>2, <2>4 DEF Alive, NeverStops
<1>4. CASE TimerFires
  <2>1. enabled' = enabled /\ polling' \in BOOLEAN /\ timer' \in {0, 1}
        /\ (enabled => polling')
    BY <1>4, PollFacts DEF TimerFires, Alive
  <2> QED
    BY <1>4, <2>1 DEF Alive, Typed, NeverStops, BackoffInRange, TimerFires, link
<1>5. CASE StrayFires
  <2>1. enabled' = enabled /\ polling' \in BOOLEAN /\ timer' \in {0, 1}
        /\ (enabled => polling')
    BY <1>5, PollFacts DEF StrayFires, Alive, Typed
  <2> QED
    BY <1>5, <2>1 DEF Alive, Typed, NeverStops, BackoffInRange, StrayFires, link
<1>6. CASE TryNow
  <2>1. enabled' = enabled /\ polling' \in BOOLEAN /\ timer' \in {0, 1}
        /\ (enabled => polling')
    BY <1>6, PollFacts DEF TryNow, Alive, Typed
  <2> QED
    BY <1>6, <2>1 DEF Alive, Typed, NeverStops, BackoffInRange, TryNow, link
<1>7. CASE \E rendered \in BOOLEAN : UserActs(rendered)
  BY <1>7 DEF Alive, Typed, NeverStops, BackoffInRange, UserActs, link, beat, server, vars
<1>8. CASE ClientForbidden
  <2>1. CASE Poll(timer) /\ UNCHANGED <<page, stray>>
    <3>1. enabled' = enabled /\ polling' \in BOOLEAN /\ timer' \in {0, 1}
          /\ (enabled => polling')
      BY <2>1, PollFacts DEF Alive, Typed
    <3> QED
      BY <1>8, <2>1, <3>1 DEF Alive, Typed, NeverStops, BackoffInRange,
                              ClientForbidden, link
  <2>2. CASE page' # "open" /\ UNCHANGED beat
    BY <1>8, <2>2 DEF Alive, Typed, NeverStops, BackoffInRange, ClientForbidden, beat, link
  <2> QED
    BY <1>8, <2>1, <2>2 DEF ClientForbidden, Leave
<1>9. CASE \E code \in Codes, loading \in BOOLEAN : ClientLost(code, loading)
  <2>1. PICK code \in Codes, loading \in BOOLEAN : ClientLost(code, loading)
    BY <1>9
  <2>2. (IF connected THEN 1 ELSE 0) \in Nat /\ Wait(IF connected THEN 1 ELSE 0, timer, stray)
    BY <2>1 DEF ClientLost
  <2>3. timer' \in {0, 1} /\ stray' \in Nat /\ (timer' = 1 \/ timer' = timer)
    BY <2>2, WaitFacts DEF Alive, Typed
  <2>4. connected' = FALSE /\ reconnect' \in MinReconnect..MaxReconnect
    BY <2>1 DEF Alive, Typed, BackoffInRange, ClientLost, Disconnected, Codes
  <2>5. UNCHANGED <<page, enabled, polling>>
    BY <2>1 DEF ClientLost
  <2>6. Typed' /\ BackoffInRange'
    <3>1. reconnect' \in Nat
      BY <2>3, <2>4, <2>5
    <3>2. BackoffInRange'
      BY <2>3, <2>4, <2>5 DEF BackoffInRange
    <3> QED
      BY <2>3, <2>4, <2>5, <3>1, <3>2 DEF Typed, Alive
  <2> QED
    BY <2>3, <2>5, <2>6 DEF Alive, NeverStops
<1>10. CASE Restart
  BY <1>10 DEF Alive, Typed, NeverStops, BackoffInRange, Restart, link, beat, server, vars
<1>11. CASE RestartAnswered
  BY <1>11 DEF Alive, Typed, NeverStops, BackoffInRange, RestartAnswered, link, beat, server, vars
<1>12. CASE RestartLost
  <2>1. CASE UNCHANGED <<connected, reconnect, timer, stray>>
    BY <1>12, <2>1 DEF Alive, Typed, NeverStops, BackoffInRange, RestartLost
  <2>2. CASE /\ \E code \in Codes : Disconnected(code)
             /\ Wait(IF connected THEN 1 ELSE 0, timer, stray)
    <3>1. (IF connected THEN 1 ELSE 0) \in Nat
      OBVIOUS
    <3>2. timer' \in {0, 1} /\ stray' \in Nat /\ (timer' = 1 \/ timer' = timer)
      BY <2>2, <3>1, WaitFacts DEF Alive, Typed
    <3>3. connected' = FALSE /\ reconnect' \in MinReconnect..MaxReconnect
      BY <2>2 DEF Alive, Typed, BackoffInRange, Disconnected, Codes
    <3>4. UNCHANGED <<page, enabled, polling>>
      BY <1>12 DEF RestartLost
    <3>5. Typed' /\ BackoffInRange'
      <4>1. reconnect' \in Nat
        BY <3>2, <3>3, <3>4
      <4>2. BackoffInRange'
        BY <3>2, <3>3, <3>4 DEF BackoffInRange
      <4> QED
        BY <3>2, <3>3, <3>4, <4>1, <4>2 DEF Typed, Alive
    <3> QED
      BY <3>2, <3>4, <3>5 DEF Alive, NeverStops
  <2> QED
    BY <1>12, <2>1, <2>2 DEF RestartLost
<1>13. CASE SeesDown
  BY <1>13 DEF Alive, Typed, NeverStops, BackoffInRange, SeesDown, MayFail, link, beat, server, vars
<1>14. CASE SeesUp
  BY <1>14 DEF Alive, Typed, NeverStops, BackoffInRange, SeesUp, link, beat, server, vars
<1>15. CASE GoesDown
  BY <1>15 DEF Alive, Typed, NeverStops, BackoffInRange, GoesDown, link, beat, server, vars
<1>16. CASE ComesUp
  BY <1>16 DEF Alive, Typed, NeverStops, BackoffInRange, ComesUp, link, beat, server, vars
<1>17. CASE SessionChanges
  BY <1>17 DEF Alive, Typed, NeverStops, BackoffInRange, SessionChanges, link, beat, server, vars
<1>18. CASE UNCHANGED vars
  BY <1>18 DEF Alive, Typed, NeverStops, BackoffInRange, vars, beat, link, server
<1> QED
  BY <1>1, <1>2, <1>3, <1>4, <1>5, <1>6, <1>7, <1>8, <1>9, <1>10, <1>11, <1>12, <1>13, <1>14, <1>15, <1>16, <1>17, <1>18 DEF Next, PollEnds

(* While a page is disconnected, no step makes its reconnect time fall. *)
LEMMA BackoffStep ==
    Alive /\ [Next]_vars => (~connected /\ ~connected' => reconnect' >= reconnect)
<1> SUFFICES ASSUME Alive, [Next]_vars, ~connected, ~connected'
             PROVE  reconnect' >= reconnect
  OBVIOUS
<1> USE ReconnectTimes
<1>1. CASE PollAnswered
  BY <1>1 DEF Alive, Typed, BackoffInRange, PollAnswered, Reconnected, Leave, Final, Wait, Stale, Lower, beat, server, vars
<1>2. CASE PollErrors
  BY <1>2 DEF Alive, Typed, BackoffInRange, PollErrors, Reconnected, Leave, Final, Wait, Lower, beat, server, vars
<1>3. CASE PollLost
  BY <1>3 DEF Alive, Typed, BackoffInRange, PollLost, MayFail, Disconnected, BackedOff, Final, Wait, Lower, Codes, beat, server, vars
<1>4. CASE TimerFires
  BY <1>4 DEF Alive, Typed, BackoffInRange, TimerFires, Poll, link, beat, server, vars
<1>5. CASE StrayFires
  BY <1>5 DEF Alive, Typed, BackoffInRange, StrayFires, Poll, link, beat, server, vars
<1>6. CASE TryNow
  BY <1>6 DEF Alive, Typed, BackoffInRange, TryNow, Poll, link, beat, server, vars
<1>7. CASE \E rendered \in BOOLEAN : UserActs(rendered)
  BY <1>7 DEF Alive, Typed, BackoffInRange, UserActs, link, beat, server, vars
<1>8. CASE ClientForbidden
  BY <1>8 DEF Alive, Typed, BackoffInRange, ClientForbidden, Leave, Poll, link, beat, server, vars
<1>9. CASE \E code \in Codes, loading \in BOOLEAN : ClientLost(code, loading)
  BY <1>9 DEF Alive, Typed, BackoffInRange, ClientLost, Disconnected, Wait, Lower, Codes, beat, server, vars
<1>10. CASE Restart
  BY <1>10 DEF Alive, Typed, BackoffInRange, Restart, link, beat, server, vars
<1>11. CASE RestartAnswered
  BY <1>11 DEF Alive, Typed, BackoffInRange, RestartAnswered, link, beat, server, vars
<1>12. CASE RestartLost
  BY <1>12 DEF Alive, Typed, BackoffInRange, RestartLost, MayFail, Disconnected, Wait, Lower, Codes, beat, server, vars
<1>13. CASE SeesDown
  BY <1>13 DEF Alive, Typed, BackoffInRange, SeesDown, MayFail, link, beat, server, vars
<1>14. CASE SeesUp
  BY <1>14 DEF Alive, Typed, BackoffInRange, SeesUp, link, beat, server, vars
<1>15. CASE GoesDown
  BY <1>15 DEF Alive, Typed, BackoffInRange, GoesDown, link, beat, server, vars
<1>16. CASE ComesUp
  BY <1>16 DEF Alive, Typed, BackoffInRange, ComesUp, link, beat, server, vars
<1>17. CASE SessionChanges
  BY <1>17 DEF Alive, Typed, BackoffInRange, SessionChanges, link, beat, server, vars
<1>18. CASE UNCHANGED vars
  BY <1>18 DEF Alive, Typed, BackoffInRange, vars, beat, link, server
<1> QED
  BY <1>1, <1>2, <1>3, <1>4, <1>5, <1>6, <1>7, <1>8, <1>9, <1>10, <1>11, <1>12, <1>13, <1>14, <1>15, <1>16, <1>17, <1>18 DEF Next, PollEnds

(* In every behaviour the heartbeat is alive and the reconnect time in range. *)
THEOREM AliveAlways == Spec => []Alive
BY AliveAtFirst, AliveStep, PTL DEF Spec

(* A heartbeat that is enabled has a poll in flight or a timer armed. *)
THEOREM HeartbeatGoesOn == Spec => []NeverStops
<1>1. Alive => NeverStops
  BY DEF Alive
<1> QED
  BY <1>1, AliveAlways, PTL

(* The reconnect time stays between its two ends, and is null when connected. *)
THEOREM BackoffRange == Spec => []BackoffInRange
<1>1. Alive => BackoffInRange
  BY DEF Alive
<1> QED
  BY <1>1, AliveAlways, PTL

(* The reconnect time never falls while the page is disconnected. *)
THEOREM BackoffGrows == Spec => BackoffHolds
<1>1. Alive /\ [Next]_vars => [~connected /\ ~connected' => reconnect' >= reconnect]_vars
  BY BackoffStep
<1> QED
  BY <1>1, AliveAlways, PTL DEF Spec, BackoffHolds
=============================================================================
