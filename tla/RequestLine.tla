----------------------------- MODULE RequestLine ------------------------------
(***************************************************************************)
(* What the promises of a cached Model or Collection are for: the calls    *)
(* made on one object stand in line, and the server serves at most one of  *)
(* them at a time, never before those that stood ahead of it are over.  A  *)
(* call may leave the line without having been served.  ApiResource        *)
(* implements this.                                                        *)
(***************************************************************************)
EXTENDS Naturals

CONSTANTS Calls, Things

VARIABLES
    phase,   \* [Calls -> Phases]
    thing,   \* the object a call was made on, once it was made
    ahead    \* the calls that stood in line, at least, when a call joined

lineVars == <<phase, thing, ahead>>

Phases == {"none", "queued", "serving", "over"}

InLine(o) == {c \in Calls : phase[c] \in {"queued", "serving"} /\ thing[c] = o}

Init ==
    /\ phase = [c \in Calls |-> "none"]
    /\ ahead = [c \in Calls |-> {}]
    /\ thing \in [Calls -> Things]

Join(c, o) ==
    /\ phase[c] = "none"
    /\ phase' = [phase EXCEPT ![c] = "queued"]
    /\ thing' = [thing EXCEPT ![c] = o]
    /\ \E A \in SUBSET Calls :
        /\ InLine(o) \subseteq A
        /\ ahead' = [ahead EXCEPT ![c] = A]

Serve(c) ==
    /\ phase[c] = "queued"
    /\ \A d \in ahead[c] : phase[d] = "over"
    /\ phase' = [phase EXCEPT ![c] = "serving"]
    /\ UNCHANGED <<thing, ahead>>

Leave(c) ==
    /\ phase[c] \in {"queued", "serving"}
    /\ phase' = [phase EXCEPT ![c] = "over"]
    /\ UNCHANGED <<thing, ahead>>

Next ==
    \E c \in Calls : Serve(c) \/ Leave(c) \/ \E o \in Things : Join(c, o)

Spec == Init /\ [][Next]_lineVars
=============================================================================
