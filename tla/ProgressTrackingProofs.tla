------------------------ MODULE ProgressTrackingProofs -------------------------
(***************************************************************************)
(* What a learner does on a page is recorded once, in order, and before a  *)
(* next try, the progress shown arrives at the server, and what is still   *)
(* to be saved can always move on: proofs for any number of calls,         *)
(* sessions, retries and lost answers.                                     *)
(*                                                                         *)
(* They rest on how a call travels: out of the buffer into one save, and   *)
(* the saves one after another.  What a save does to the attempt logs is a *)
(* fold over its interactions and plays no part here.                      *)
(***************************************************************************)
EXTENDS ProgressTracking, SequenceTheorems, FiniteSetTheorems, TLAPS

-----------------------------------------------------------------------------
(* The chain of saves, as far as the proofs look at it.                    *)

SaveFields ==
    {"parts", "delta", "content", "inter", "state", "tries", "session", "complete", "out"}

\* the server has not taken it yet
Unserved(s) == s.state \in {"waiting", "sent", "delayed"}

\* saves is a sequence of records; what its interactions are is left open
ChainOfSaves ==
    /\ Len(saves) \in Nat /\ saves \in Seq({saves[i] : i \in 1..Len(saves)})
    /\ \A i \in DOMAIN saves :
         /\ DOMAIN saves[i] = SaveFields
         /\ saves[i].parts \subseteq 1..calls
         /\ saves[i].content \in {NotSent} \cup (0..calls)

\* What the page holds is of calls that were made.
PageOK ==
    /\ calls \in Nat /\ (here => calls < NumCalls) /\ calls <= NumCalls
    /\ DOMAIN buffer = {"delta", "parts", "dirty", "inter", "force"}
    /\ buffer.parts \subseteq 1..calls
    /\ content \in 0..calls /\ post.content \in 0..calls
    /\ DOMAIN post = {"state", "session", "progress", "content", "attempts"}
    /\ stored \in 0..calls /\ started \in 0..calls
    /\ waits \in [Calls -> Int]
    /\ again \in 0..calls

\* A call is in the buffer or in one save, never in two places.
OnePlace ==
    /\ \A i \in DOMAIN saves : saves[i].parts \cap buffer.parts = {}
    /\ \A i, j \in DOMAIN saves : i # j => saves[i].parts \cap saves[j].parts = {}

\* The server recorded nothing that is still to be served.
NotYet ==
    /\ recorded \in [Calls -> {0, 1}]
    /\ \A n \in Calls : (n \in buffer.parts \/ n > calls) => recorded[n] = 0
    /\ \A i \in DOMAIN saves : Unserved(saves[i]) => \A n \in saves[i].parts : recorded[n] = 0

\* A save that was sent has only saves before it that are done.
InTurn ==
    \A i, j \in DOMAIN saves :
        i < j /\ saves[j].state \notin {"waiting", "failed"} => saves[i].state = "done"

\* Of the states that came since the session started, the later save and the
\* page have the newer one.
Newer ==
    /\ \A i \in DOMAIN saves : saves[i].content > started => content >= saves[i].content
    /\ \A i, j \in DOMAIN saves :
         i < j /\ saves[i].content > started /\ saves[j].content # NotSent
            => saves[j].content >= saves[i].content

\* What is still to be served is no older than what the server has.
Ahead ==
    stored > started =>
        /\ content >= stored
        /\ \A i \in DOMAIN saves :
             Unserved(saves[i]) /\ saves[i].content # NotSent => saves[i].content >= stored

\* The call that a repeat waits for was flushed: what came up to it is in the
\* saves that it awaits.
Flushed ==
    again # 0 =>
        /\ waits[again] \in 0..Len(saves)
        /\ \A m \in stack : m > again
        /\ \A m \in buffer.parts : m > again
        /\ \A i \in DOMAIN saves : i > waits[again] => \A m \in saves[i].parts : m > again

Inv ==
    ChainOfSaves /\ PageOK /\ OnePlace /\ NotYet /\ InTurn /\ Newer /\ Ahead /\ Flushed
-----------------------------------------------------------------------------
(* What a step does to the chain.                                          *)

\* the saves stay, with what they hold
SavesKept ==
    /\ Len(saves') = Len(saves) /\ DOMAIN saves' = DOMAIN saves
    /\ saves' \in Seq({saves'[i] : i \in 1..Len(saves')})
    /\ \A i \in DOMAIN saves :
         /\ DOMAIN saves'[i] = SaveFields
         /\ saves'[i].parts = saves[i].parts
         /\ saves'[i].content = saves[i].content

\* A function on the indexes of the saves that keeps what each holds.
LEMMA KeptByFunction ==
    ASSUME ChainOfSaves, NEW f, f = [i \in DOMAIN saves |-> f[i]], saves' = f,
           \A i \in DOMAIN saves : /\ DOMAIN f[i] = SaveFields
                                   /\ f[i].parts = saves[i].parts
                                   /\ f[i].content = saves[i].content
    PROVE  SavesKept
<1>1. DOMAIN saves = 1..Len(saves) /\ DOMAIN f = DOMAIN saves
  BY DEF ChainOfSaves
<1>2. f \in [1..Len(saves) -> {f[i] : i \in 1..Len(saves)}]
  BY <1>1
<1>3. f \in Seq({f[i] : i \in 1..Len(saves)}) /\ Len(f) = Len(saves)
  BY <1>1, <1>2, LenProperties DEF ChainOfSaves
<1> QED BY <1>1, <1>3 DEF SavesKept

\* Replacing one save by one with the same content.
LEMMA KeptByExcept ==
    ASSUME ChainOfSaves, NEW i \in DOMAIN saves, NEW s, SaveIs(i, s),
           DOMAIN s = SaveFields, s.parts = saves[i].parts, s.content = saves[i].content
    PROVE  /\ SavesKept
           /\ saves'[i] = s
           /\ \A j \in DOMAIN saves : j # i => saves'[j] = saves[j]
<1>1. /\ saves' = [saves EXCEPT ![i] = s]
      /\ saves' = [j \in DOMAIN saves |-> saves'[j]]
      /\ saves'[i] = s
      /\ \A j \in DOMAIN saves : j # i => saves'[j] = saves[j]
  BY DEF SaveIs
<1>2. \A j \in DOMAIN saves : /\ DOMAIN saves'[j] = SaveFields
                              /\ saves'[j].parts = saves[j].parts
                              /\ saves'[j].content = saves[j].content
  BY <1>1 DEF ChainOfSaves
<1>3. SavesKept
  BY <1>1, <1>2, KeptByFunction
<1> QED BY <1>1, <1>3

\* A save at the end of the chain.
LEMMA AppendedSave ==
    ASSUME ChainOfSaves, NEW s, saves' = Append(saves, s)
    PROVE  /\ Len(saves') = Len(saves) + 1
           /\ saves' \in Seq({saves'[i] : i \in 1..Len(saves')})
           /\ DOMAIN saves = 1..Len(saves) /\ DOMAIN saves' = 1..(Len(saves) + 1)
           /\ saves'[Len(saves) + 1] = s
           /\ \A i \in DOMAIN saves : saves'[i] = saves[i]
<1> DEFINE S == {saves[i] : i \in 1..Len(saves)}
           T == S \cup {s}
<1>1. saves \in Seq(T) /\ s \in T
  <2>1. saves \in [1..Len(saves) -> S] /\ Len(saves) \in Nat
    BY LenProperties DEF ChainOfSaves
  <2>2. saves \in [1..Len(saves) -> T]
    BY <2>1
  <2> QED BY <2>1, <2>2
<1>2. /\ saves' \in Seq(T) /\ Len(saves') = Len(saves) + 1
      /\ saves'[Len(saves) + 1] = s
      /\ \A i \in 1..Len(saves) : saves'[i] = saves[i]
  BY <1>1, AppendProperties
<1>3. saves' \in [1..Len(saves') -> {saves'[i] : i \in 1..Len(saves')}]
  <2> DEFINE n == Len(saves')
             R == {saves'[i] : i \in 1..n}
  <2>1. saves' \in [1..n -> T] /\ n \in Nat
    BY <1>2, LenProperties
  <2>2. \A i \in 1..n : saves'[i] \in R
    OBVIOUS
  <2>3. saves' \in [1..n -> R]
    <3> HIDE DEF n, R, T
    <3>1. saves' = [i \in 1..n |-> saves'[i]]
      BY <2>1
    <3>2. [i \in 1..n |-> saves'[i]] \in [1..n -> R]
      BY <2>2
    <3> QED BY <3>1, <3>2
  <2> QED BY <2>3
<1>4. saves' \in Seq({saves'[i] : i \in 1..Len(saves')})
  <2>1. Len(saves') \in Nat
    BY <1>2 DEF ChainOfSaves
  <2> DEFINE n == Len(saves')
             R == {saves'[i] : i \in 1..Len(saves')}
  <2>2. saves' \in [1..n -> R] /\ n \in Nat
    BY <1>3, <2>1
  <2> HIDE DEF n, R
  <2>3. saves' \in Seq(R)
    BY <2>2, SeqDef
  <2> QED BY <2>3 DEF R
<1>5. DOMAIN saves = 1..Len(saves) /\ DOMAIN saves' = 1..(Len(saves) + 1)
  BY <1>1, <1>2, LenProperties
<1> QED BY <1>2, <1>4, <1>5

-----------------------------------------------------------------------------
(* Steps of the page: calls, and the debounce.                             *)

BufferFields == {"delta", "parts", "dirty", "inter", "force"}

\* what is unsaved when the calls up to n were made: what was, and call n
Unsaved(n, b) ==
    /\ n \in {calls, calls + 1} /\ n <= NumCalls
    /\ DOMAIN b = BufferFields
    /\ b.parts \subseteq buffer.parts \cup ((calls + 1)..n)

\* the promises that wait for the next flush then
Deferred(n, d) == d \subseteq stack \cup ((calls + 1)..n)

\* a flush that takes nothing, or takes all of b into the next save
Flushes(b, c, d) ==
    /\ stack' = {}
    /\ waits' = [m \in Calls |-> IF m \in d THEN Len(saves') ELSE waits[m]]
    /\ \/ saves' = saves /\ (buffer' = b \/ (buffer' = Emptied /\ b.parts = {}))
       \/ saves' = Append(saves, NewSave(b, c)) /\ buffer' = Emptied

PageMoves(n, b, c) ==
    /\ Unsaved(n, b)
    /\ calls' = n /\ (here' => here /\ n < NumCalls)
    /\ content' = c /\ (c = content \/ (n = calls + 1 /\ c = n))
    /\ UNCHANGED <<post, stored, recorded, started>>
    /\ again' \in {0, again, n}
    /\ \E d : /\ Deferred(n, d)
              /\ \/ UNCHANGED <<saves, waits>> /\ buffer' = b /\ stack' = d
                 \/ Flushes(b, c, d)

\* A flush is one of the two.
LEMMA FlushShape ==
    ASSUME NEW b, NEW p, NEW c, NEW d, Flush(b, p, c, d)
    PROVE  Flushes(b, c, d) /\ (Worth(b, p) => buffer' = Emptied)
<1>1. /\ saves' = IF Worth(b, p) /\ HasData(b) THEN Append(saves, NewSave(b, c)) ELSE saves
      /\ buffer' = IF Worth(b, p) THEN Emptied ELSE b
      /\ waits' = [m \in Calls |-> IF m \in d THEN Len(saves') ELSE waits[m]]
      /\ stack' = {}
  BY DEF Flush, Cleared, Awaited
<1>2. CASE Worth(b, p) /\ HasData(b)
  BY <1>1, <1>2 DEF Flushes
<1>3. CASE Worth(b, p) /\ ~HasData(b)
  BY <1>1, <1>3 DEF Flushes, HasData
<1>4. CASE ~Worth(b, p)
  BY <1>1, <1>4 DEF Flushes
<1> QED BY <1>2, <1>3, <1>4

\* A call of updateContentSession either waits for the debounce or flushes.
LEMMA FinishShape ==
    ASSUME Inv, NEW b, NEW p, NEW c, NEW immediate,
           calls < NumCalls, Finish(Next1, b, p, c, immediate),
           Unsaved(Next1, b), c \in {content, Next1},
           UNCHANGED <<post, stored, recorded, started>>,
           here' => here /\ Next1 < NumCalls,
           again' \in {0, again, Next1}
    PROVE  /\ PageMoves(Next1, b, c)
           /\ immediate => /\ Flushes(b, c, stack \cup {Next1})
                           /\ Worth(b, p) => buffer' = Emptied
<1>1. calls \in Nat /\ (calls + 1)..(calls + 1) = {calls + 1}
  BY DEF Inv, PageOK
<1>2. Deferred(Next1, stack \cup {Next1})
  BY <1>1 DEF Deferred, Next1
<1>3. /\ calls' = Next1 /\ content' = c
      /\ \/ UNCHANGED <<saves, waits>> /\ buffer' = b /\ stack' = stack \cup {Next1}
         \/ Flush(b, p, c, stack \cup {Next1})
      /\ immediate => Flush(b, p, c, stack \cup {Next1})
  BY DEF Finish, Defer
<1>4. Flush(b, p, c, stack \cup {Next1}) =>
        Flushes(b, c, stack \cup {Next1}) /\ (Worth(b, p) => buffer' = Emptied)
  BY FlushShape
<1> QED BY <1>1, <1>2, <1>3, <1>4 DEF PageMoves, Next1

\* Every call of the page but a repeat, and the debounce.
LEMMA PageStep ==
    ASSUME Inv,
           \/ Tick \/ (\E to \in 1..Full : ReachProgress(to)) \/ AddProgress
           \/ SaveContentState \/ (\E item \in Items : Answer(item))
           \/ Stop \/ Unmount \/ DebounceFires
    PROVE  \E n, b, c : PageMoves(n, b, c) /\ again' \in {0, again}
<1>1. /\ calls \in Nat /\ NumCalls \in Nat /\ Next1 = calls + 1
      /\ (here => calls < NumCalls) /\ DOMAIN buffer = BufferFields
      /\ buffer.parts \subseteq 1..calls
  BY CallBound DEF Inv, PageOK, Next1, BufferFields
<1>2. ASSUME MayCall PROVE here /\ calls < NumCalls /\ Next1 < NumCalls
  BY <1>1, <1>2 DEF MayCall
<1>3. ASSUME NEW b, DOMAIN b = BufferFields, b.parts = buffer.parts, calls < NumCalls
      PROVE  Unsaved(Next1, b) /\ Unsaved(Next1, WithPart(b, Next1))
  <2>1. DOMAIN WithPart(b, Next1) = BufferFields /\ WithPart(b, Next1).parts = b.parts \cup {Next1}
    BY <1>3 DEF WithPart, BufferFields
  <2> QED BY <1>1, <1>3, <2>1 DEF Unsaved
<1>4. \A x : /\ DOMAIN [buffer EXCEPT !.delta = x] = BufferFields
             /\ [buffer EXCEPT !.delta = x].parts = buffer.parts
             /\ DOMAIN [buffer EXCEPT !.inter = x] = BufferFields
             /\ [buffer EXCEPT !.inter = x].parts = buffer.parts
             /\ DOMAIN [buffer EXCEPT !.dirty = x] = BufferFields
             /\ [buffer EXCEPT !.dirty = x].parts = buffer.parts
             /\ DOMAIN [buffer EXCEPT !.force = x] = BufferFields
             /\ [buffer EXCEPT !.force = x].parts = buffer.parts
  BY <1>1 DEF BufferFields
<1>5. CASE Tick
  <2>1. /\ MayCall /\ Finish(Next1, WithPart(buffer, Next1), progress, content, FALSE)
        /\ UNCHANGED <<here, again, post, stored, recorded, started>>
    BY <1>5 DEF Tick, Elsewhere, page, server, past
  <2> QED BY <1>1, <1>2, <1>3, <2>1, FinishShape
<1>6. ASSUME NEW to \in 1..Full, ReachProgress(to)
      PROVE  \E n, b, c : PageMoves(n, b, c) /\ again' \in {0, again}
  <2>0. PICK e \in Excess :
          Finish(Next1, WithPart([buffer EXCEPT !.delta = ProgressDelta(to, e)], Next1),
                 to, content, FALSE)
    BY <1>6 DEF ReachProgress
  <2> DEFINE b == [buffer EXCEPT !.delta = ProgressDelta(to, e)]
  <2>1. /\ MayCall /\ Finish(Next1, WithPart(b, Next1), to, content, FALSE)
        /\ UNCHANGED <<here, again, post, stored, recorded, started>>
    BY <1>6, <2>0 DEF ReachProgress, page, server
  <2>2. DOMAIN b = BufferFields /\ b.parts = buffer.parts
    BY <1>4
  <2> HIDE DEF b
  <2> QED BY <1>1, <1>2, <1>3, <2>1, <2>2, FinishShape
<1>7. CASE AddProgress
  <2>0. PICK d \in Excess, e \in Excess :
          Finish(Next1, WithPart([buffer EXCEPT !.delta = RoundUp(@ + 1, d)], Next1),
                 RoundUp(progress + 1, e), content, FALSE)
    BY <1>7 DEF AddProgress
  <2> DEFINE b == [buffer EXCEPT !.delta = RoundUp(@ + 1, d)]
  <2>1. /\ MayCall
        /\ Finish(Next1, WithPart(b, Next1), RoundUp(progress + 1, e), content, FALSE)
        /\ UNCHANGED <<here, again, post, stored, recorded, started>>
    BY <1>7, <2>0 DEF AddProgress, page, server
  <2>2. DOMAIN b = BufferFields /\ b.parts = buffer.parts
    BY <1>4
  <2> HIDE DEF b
  <2> QED BY <1>1, <1>2, <1>3, <2>1, <2>2, FinishShape
<1>8. CASE SaveContentState
  <2> DEFINE b == [buffer EXCEPT !.dirty = TRUE]
  <2>1. /\ MayCall /\ Finish(Next1, WithPart(b, Next1), progress, Next1, FALSE)
        /\ UNCHANGED <<here, again, post, stored, recorded, started>>
    BY <1>8 DEF SaveContentState, Elsewhere, page, server, past
  <2>2. DOMAIN b = BufferFields /\ b.parts = buffer.parts
    BY <1>4
  <2> HIDE DEF b
  <2> QED BY <1>1, <1>2, <1>3, <2>1, <2>2, FinishShape
<1>9. ASSUME NEW item \in Items, Answer(item)
      PROVE  \E n, b, c : PageMoves(n, b, c) /\ again' \in {0, again}
  <2> DEFINE id == IF attempts[item] = Local THEN None ELSE attempts[item]
             b == [buffer EXCEPT !.inter = Append(@, [item |-> item, id |-> id])]
  <2>1. /\ MayCall /\ Finish(Next1, WithPart(b, Next1), progress, content, id = None)
        /\ UNCHANGED <<here, again, post, stored, recorded, started>>
    BY <1>9 DEF Answer, Elsewhere, page, server, past
  <2>2. DOMAIN b = BufferFields /\ b.parts = buffer.parts
    BY <1>4
  <2> HIDE DEF b, id
  <2> QED BY <1>1, <1>2, <1>3, <2>1, <2>2, FinishShape
<1>10. CASE Stop \/ Unmount
  <2> DEFINE b == [buffer EXCEPT !.force = TRUE]
  <2>1. /\ Finish(Next1, b, progress, content, TRUE)
        /\ UNCHANGED <<post, stored, recorded, started>>
        /\ here /\ calls < NumCalls
        /\ again' \in {0, again} /\ (here' => here /\ Next1 < NumCalls)
    BY <1>10, <1>1, <1>2 DEF Stop, Unmount, StopWith, server, past, MayCall
  <2>2. DOMAIN b = BufferFields /\ b.parts = buffer.parts
    BY <1>4
  <2> HIDE DEF b
  <2> QED BY <1>1, <1>3, <2>1, <2>2, FinishShape
<1>11. CASE DebounceFires
  <2>1. /\ Flush(buffer, progress, content, stack)
        /\ UNCHANGED <<calls, content, here, again, post, stored, recorded, started>>
    BY <1>11 DEF DebounceFires, shown, Elsewhere, page, server, past
  <2>2. Unsaved(calls, buffer) /\ Deferred(calls, stack)
    BY <1>1 DEF Unsaved, Deferred, Inv, PageOK
  <2>3. PageMoves(calls, buffer, content)
    BY <1>1, <2>1, <2>2, FlushShape DEF PageMoves
  <2> QED BY <2>1, <2>3
<1> QED BY <1>5, <1>6, <1>7, <1>8, <1>9, <1>10, <1>11

\* A repeat is a stop that flushes the buffer and waits for its saves.
LEMMA RepeatStep ==
    ASSUME Inv, Repeat
    PROVE  \E b, c : /\ PageMoves(Next1, b, c)
                     /\ again' = Next1 /\ Next1 = calls + 1
                     /\ Flushes(b, c, stack \cup {Next1}) /\ buffer' = Emptied
<1> DEFINE b == [buffer EXCEPT !.force = TRUE]
<1>1. /\ calls \in Nat /\ NumCalls \in Nat /\ Next1 = calls + 1
      /\ DOMAIN buffer = BufferFields /\ buffer.parts \subseteq 1..calls
  BY CallBound DEF Inv, PageOK, Next1, BufferFields
<1>2. /\ MayCall /\ again' = Next1 /\ Finish(Next1, b, progress, content, TRUE)
      /\ UNCHANGED <<here, post, stored, recorded, started>>
  BY DEF Repeat, StopWith, server, past
<1>3. here /\ calls < NumCalls /\ Next1 < NumCalls
  BY <1>1, <1>2 DEF MayCall
<1>4. DOMAIN b = BufferFields /\ b.parts = buffer.parts /\ b.force = TRUE
  BY <1>1 DEF BufferFields
<1>5. Unsaved(Next1, b) /\ Worth(b, progress)
  BY <1>1, <1>3, <1>4 DEF Unsaved, Worth
<1> HIDE DEF b
<1> QED BY <1>1, <1>2, <1>3, <1>5, FinishShape

-----------------------------------------------------------------------------
(* Steps of the saves.                                                     *)

\* a save moves on: none is served again, and all stay in turn
SavesMove ==
    /\ SavesKept /\ InTurn'
    /\ \A j \in DOMAIN saves : Unserved(saves'[j]) => Unserved(saves[j])
    /\ UNCHANGED <<here, buffer, content, calls, again, waits, stack, post, started>>

\* One save that is not done moves on, in turn.
LEMMA OneMoves ==
    ASSUME Inv, NEW i \in DOMAIN saves, NEW s, SaveIs(i, s), saves[i].state # "done",
           DOMAIN s = SaveFields, s.parts = saves[i].parts, s.content = saves[i].content,
           Unserved(s) => Unserved(saves[i]),
           s.state \notin {"waiting", "failed"} =>
               \A j \in 1..(i - 1) : saves[j].state = "done"
    PROVE  /\ SavesKept /\ InTurn'
           /\ \A j \in DOMAIN saves : Unserved(saves'[j]) => Unserved(saves[j])
<1>1. /\ SavesKept /\ saves'[i] = s
      /\ \A j \in DOMAIN saves : j # i => saves'[j] = saves[j]
  BY KeptByExcept DEF Inv
<1>2. DOMAIN saves' = DOMAIN saves /\ DOMAIN saves = 1..Len(saves) /\ Len(saves) \in Nat
  BY <1>1, LenProperties DEF SavesKept, Inv, ChainOfSaves
<1>3. ASSUME NEW j \in DOMAIN saves, NEW k \in DOMAIN saves, j < k,
             saves'[k].state \notin {"waiting", "failed"}
      PROVE  saves'[j].state = "done"
  <2>1. CASE k = i
    BY <1>1, <1>2, <1>3, <2>1
  <2>2. CASE k # i
    BY <1>1, <1>2, <1>3, <2>2 DEF Inv, InTurn
  <2> QED BY <2>1, <2>2
<1>4. InTurn'
  BY <1>2, <1>3 DEF InTurn
<1>5. \A j \in DOMAIN saves : Unserved(saves'[j]) => Unserved(saves[j])
  BY <1>1
<1> QED BY <1>1, <1>4, <1>5

\* A save that is not done is rejected, with those that wait for it.
LEMMA RejectedMoves ==
    ASSUME Inv, NEW i \in DOMAIN saves, saves' = Rejected(i), saves[i].state # "done"
    PROVE  /\ SavesKept /\ InTurn'
           /\ \A j \in DOMAIN saves : Unserved(saves'[j]) => Unserved(saves[j])
<1>1. saves' = [j \in DOMAIN saves |-> Rejected(i)[j]]
  BY DEF Rejected
<1>2. \A j \in DOMAIN saves :
        \/ saves'[j] = saves[j] /\ j # i
        \/ saves'[j] = [saves[j] EXCEPT !.state = "failed"]
  BY DEF Rejected
<1>3. \A j \in DOMAIN saves : DOMAIN saves[j] = SaveFields
  BY DEF Inv, ChainOfSaves
<1>4. \A j \in DOMAIN saves :
        /\ DOMAIN saves'[j] = SaveFields
        /\ saves'[j].parts = saves[j].parts /\ saves'[j].content = saves[j].content
        /\ saves'[j].state = "failed" \/ (saves'[j] = saves[j] /\ j # i)
  BY <1>2, <1>3 DEF SaveFields
<1>5. SavesKept
  BY <1>1, <1>4, KeptByFunction DEF Inv
<1>6. DOMAIN saves' = DOMAIN saves /\ DOMAIN saves = 1..Len(saves) /\ Len(saves) \in Nat
  BY <1>5, LenProperties DEF SavesKept, Inv, ChainOfSaves
<1>7. \A j \in DOMAIN saves : saves[j].state = "done" => saves'[j] = saves[j]
  <2>1. ASSUME NEW j \in DOMAIN saves, saves[j].state = "done" PROVE saves'[j] = saves[j]
    <3>1. j # i /\ saves[j].state # "waiting"
      BY <2>1
    <3> QED BY <2>1, <3>1 DEF Rejected
  <2> QED BY <2>1
<1>8. InTurn'
  <2>1. ASSUME NEW j \in DOMAIN saves, NEW k \in DOMAIN saves, j < k,
               saves'[k].state \notin {"waiting", "failed"}
        PROVE  saves'[j].state = "done"
    <3>1. saves'[k] = saves[k]
      BY <1>4, <2>1
    <3> QED BY <1>6, <1>7, <2>1, <3>1 DEF Inv, InTurn
  <2> QED BY <1>6, <2>1 DEF InTurn
<1>9. \A j \in DOMAIN saves : Unserved(saves'[j]) => Unserved(saves[j])
  BY <1>4 DEF Unserved
<1> QED BY <1>5, <1>8, <1>9

\* What InTurn says of one save.
LEMMA BeforeIsDone ==
    ASSUME Inv, NEW i \in DOMAIN saves, saves[i].state \notin {"waiting", "failed"}
    PROVE  \A j \in 1..(i - 1) : saves[j].state = "done"
<1>1. DOMAIN saves = 1..Len(saves) /\ Len(saves) \in Nat
  BY LenProperties DEF Inv, ChainOfSaves
<1>2. \A j \in 1..(i - 1) : j \in DOMAIN saves /\ j < i
  BY <1>1
<1> QED BY <1>2 DEF Inv, InTurn

\* Every step of a save but the one of the server that records it.
LEMMA SaveStep ==
    ASSUME Inv, NEW i \in DOMAIN saves, Save(i)
    PROVE  SavesMove /\ UNCHANGED <<stored, recorded>>
<1>1. /\ DOMAIN saves[i] = SaveFields
      /\ saves[i].state \notin {"waiting", "failed"} =>
            \A j \in 1..(i - 1) : saves[j].state = "done"
  BY BeforeIsDone DEF Inv, ChainOfSaves
<1>2. CASE SendSave(i)
  <2> DEFINE s == [saves[i] EXCEPT !.state = "sent", !.session = sid, !.tries = @ + 1]
  <2>1. /\ SaveIs(i, s) /\ saves[i].state \in {"waiting", "delayed"}
        /\ saves[i].state = "waiting" => MyTurn(i)
        /\ UNCHANGED <<here, buffer, content, calls, again, waits, stack, post, started>>
        /\ UNCHANGED <<stored, recorded>>
    BY <1>2 DEF SendSave, Quiet, page, shown, unsent, past, server
  <2>2. /\ DOMAIN s = SaveFields /\ s.parts = saves[i].parts /\ s.content = saves[i].content
        /\ s.state = "sent"
    BY <1>1 DEF SaveFields
  <2>3. \A j \in 1..(i - 1) : saves[j].state = "done"
    BY <1>1, <2>1 DEF MyTurn
  <2> HIDE DEF s
  <2> QED BY <2>1, <2>2, <2>3, OneMoves DEF SavesMove, Unserved
<1>3. CASE SaveBusy(i)
  <2> DEFINE s == [saves[i] EXCEPT !.state = "delayed"]
  <2>1. /\ SaveIs(i, s) \/ saves' = Rejected(i)
        /\ saves[i].state = "sent"
        /\ UNCHANGED <<here, buffer, content, calls, again, waits, stack, post, started>>
        /\ UNCHANGED <<stored, recorded>>
    BY <1>3 DEF SaveBusy, SaveIs, Quiet, page, shown, unsent, past, server
  <2>2. /\ DOMAIN s = SaveFields /\ s.parts = saves[i].parts /\ s.content = saves[i].content
        /\ s.state = "delayed"
    BY <1>1 DEF SaveFields
  <2> HIDE DEF s
  <2> QED BY <1>1, <2>1, <2>2, OneMoves, RejectedMoves DEF SavesMove, Unserved
<1>4. CASE SaveLost(i) \/ SaveRefused(i)
  <2>1. /\ saves' = Rejected(i)
        /\ saves[i].state # "done"
        /\ UNCHANGED <<here, buffer, content, calls, again, waits, stack, post, started>>
        /\ UNCHANGED <<stored, recorded>>
    BY <1>4 DEF SaveLost, SaveRefused, Quiet, page, shown, unsent, past, server
  <2> QED BY <2>1, RejectedMoves DEF SavesMove
<1>5. CASE SaveAnswered(i)
  <2> DEFINE s == [saves[i] EXCEPT !.state = "done"]
  <2>1. /\ SaveIs(i, s) \/ saves' = Rejected(i)
        /\ saves[i].state = "applied"
        /\ UNCHANGED <<here, buffer, content, calls, again, waits, stack, post, started>>
        /\ UNCHANGED <<stored, recorded>>
    BY <1>5 DEF SaveAnswered, page, unsent, past, server
  <2>2. /\ DOMAIN s = SaveFields /\ s.parts = saves[i].parts /\ s.content = saves[i].content
        /\ s.state = "done"
    BY <1>1 DEF SaveFields
  <2> HIDE DEF s
  <2> QED BY <1>1, <2>1, <2>2, OneMoves, RejectedMoves DEF SavesMove, Unserved
<1> QED BY <1>2, <1>3, <1>4, <1>5 DEF Save

\* The server records a save once, the first that it has not served.
LEMMA ServeStep ==
    ASSUME Inv, NEW i \in DOMAIN saves, ServeSave(i)
    PROVE  /\ SavesMove
           /\ saves[i].state = "sent" /\ ~Unserved(saves'[i])
           /\ stored' = IF saves[i].content = NotSent THEN stored ELSE saves[i].content
           /\ recorded' = [n \in Calls |-> recorded[n] + IF n \in saves[i].parts THEN 1 ELSE 0]
           /\ \A j \in 1..(i - 1) : saves[j].state = "done"
<1> DEFINE done == summary' = Full
           out == Attempted(saves[i]).out
           s == [saves[i] EXCEPT !.state = "applied", !.complete = done, !.out = out]
<1>1. /\ SaveIs(i, s) /\ saves[i].state = "sent"
      /\ stored' = IF saves[i].content = NotSent THEN stored ELSE saves[i].content
      /\ recorded' = [n \in Calls |-> recorded[n] + IF n \in saves[i].parts THEN 1 ELSE 0]
      /\ UNCHANGED <<here, buffer, content, calls, again, waits, stack, post, started>>
  BY DEF ServeSave, Quiet, page, shown, unsent, past
<1> HIDE DEF done, out
<1>2. DOMAIN saves[i] = SaveFields /\ \A j \in 1..(i - 1) : saves[j].state = "done"
  BY <1>1, BeforeIsDone DEF Inv, ChainOfSaves
<1>3. /\ DOMAIN s = SaveFields /\ s.parts = saves[i].parts /\ s.content = saves[i].content
      /\ s.state = "applied"
  BY <1>2 DEF SaveFields
<1> HIDE DEF s
<1>4. saves'[i] = s
  BY <1>1, <1>3, KeptByExcept DEF Inv
<1> QED BY <1>1, <1>2, <1>3, <1>4, OneMoves DEF SavesMove, Unserved

-----------------------------------------------------------------------------
(* Steps of a session, and the steps that touch none of this.              *)

SessionMoves ==
    /\ UNCHANGED <<here, saves, waits, stack, calls, recorded, stored>>
    /\ DOMAIN post' = DOMAIN post /\ post'.content \in {post.content, stored}
    /\ \/ UNCHANGED <<buffer, content, started>> /\ again' \in {0, again}
       \/ /\ DOMAIN buffer' = BufferFields /\ buffer'.parts = {}
          /\ content' = post.content /\ started' = calls /\ again' = again

\* A new session may empty the buffer; the saves and the server's records stay.
LEMMA SessionStep ==
    ASSUME Inv,
           StartTracking \/ StartSession \/ ServeSession \/ SessionStarted \/ SessionLost
              \/ UNCHANGED vars
    PROVE  SessionMoves
<1>1. /\ DOMAIN post = {"state", "session", "progress", "content", "attempts"}
      /\ DOMAIN buffer = BufferFields
  BY DEF Inv, PageOK, BufferFields
<1>2. CASE StartTracking
  BY <1>2 DEF StartTracking, SessionMoves, shown, unsent, server, past
<1>3. CASE StartSession
  BY <1>1, <1>3 DEF StartSession, SessionMoves, shown, unsent, server, past
<1>4. CASE ServeSession
  BY <1>1, <1>4 DEF ServeSession, SessionMoves, page, shown, unsent, past
<1>5. CASE SessionStarted
  <2>1. /\ DOMAIN buffer' = BufferFields /\ buffer'.parts = {}
        /\ DOMAIN post' = DOMAIN post /\ post'.content = post.content
    BY <1>1, <1>5 DEF SessionStarted, BufferFields
  <2> QED BY <1>5, <2>1 DEF SessionStarted, SessionMoves, server
<1>6. CASE SessionLost
  BY <1>1, <1>6 DEF SessionLost, SessionMoves, page, shown, unsent, server, past
<1>7. CASE UNCHANGED vars
  BY <1>7 DEF SessionMoves, vars, page, shown, unsent, server, past
<1> QED BY <1>2, <1>3, <1>4, <1>5, <1>6, <1>7

-----------------------------------------------------------------------------
(* Each kind of step keeps the invariant.                                  *)

\* Of what Inv says, what does not speak of a repeat.
Core == ChainOfSaves /\ PageOK /\ OnePlace /\ NotYet /\ InTurn /\ Newer /\ Ahead

\* A new session: the buffer may be emptied, and what came before is old.
LEMMA SessionKeeps ==
    ASSUME Inv, SessionMoves
    PROVE  Inv'
<1> USE DEF SessionMoves
<1>1. ChainOfSaves'
  BY DEF Inv, ChainOfSaves
<1>2. PageOK'
  BY DEF Inv, PageOK, BufferFields
<1>3. OnePlace'
  BY DEF Inv, OnePlace
<1>4. NotYet'
  BY DEF Inv, NotYet
<1>5. InTurn'
  BY DEF Inv, InTurn
<1>6. Newer'
  <2>1. CASE UNCHANGED <<content, started>>
    BY <2>1 DEF Inv, Newer
  <2>2. CASE started' = calls
    <3>1. \A i \in DOMAIN saves : ~(saves[i].content > calls)
      BY DEF Inv, ChainOfSaves, PageOK, NotSent
    <3> QED BY <2>2, <3>1 DEF Newer
  <2> QED BY <2>1, <2>2
<1>7. Ahead'
  <2>1. CASE UNCHANGED <<content, started>>
    BY <2>1 DEF Inv, Ahead
  <2>2. CASE started' = calls
    BY <2>2 DEF Inv, PageOK, Ahead
  <2> QED BY <2>1, <2>2
<1>8. Flushed'
  BY DEF Inv, Flushed
<1> QED BY <1>1, <1>2, <1>3, <1>4, <1>5, <1>6, <1>7, <1>8 DEF Inv

\* A step of a save keeps all that does not depend on what the server has.
LEMMA SaveKeeps ==
    ASSUME Inv, SavesMove
    PROVE  ChainOfSaves' /\ OnePlace' /\ InTurn' /\ Newer' /\ Flushed'
<1> USE DEF SavesMove, SavesKept
<1>1. ChainOfSaves'
  BY DEF Inv, ChainOfSaves
<1>2. OnePlace'
  BY DEF Inv, OnePlace
<1>3. Newer'
  BY DEF Inv, Newer
<1>4. Flushed'
  BY DEF Inv, Flushed
<1> QED BY <1>1, <1>2, <1>3, <1>4

\* Inv is kept by every step of a save.
LEMMA SaveKeepsInv ==
    ASSUME Inv, NEW i \in DOMAIN saves, Save(i)
    PROVE  Inv'
<1>1. SavesMove /\ UNCHANGED <<stored, recorded>>
  BY SaveStep
<1>2. PageOK'
  BY <1>1 DEF SavesMove, Inv, PageOK
<1>3. NotYet'
  BY <1>1 DEF SavesMove, SavesKept, Inv, NotYet
<1>4. Ahead'
  BY <1>1 DEF SavesMove, SavesKept, Inv, Ahead
<1> QED BY <1>1, <1>2, <1>3, <1>4, SaveKeeps DEF Inv

\* The server records what it has not recorded, and stores what is newer.
LEMMA ServeKeepsInv ==
    ASSUME Inv, NEW i \in DOMAIN saves, ServeSave(i)
    PROVE  Inv' /\ (stored > started => stored' >= stored)
<1>1. /\ SavesMove
      /\ saves[i].state = "sent" /\ ~Unserved(saves'[i])
      /\ stored' = IF saves[i].content = NotSent THEN stored ELSE saves[i].content
      /\ recorded' = [n \in Calls |-> recorded[n] + IF n \in saves[i].parts THEN 1 ELSE 0]
      /\ \A j \in 1..(i - 1) : saves[j].state = "done"
  BY ServeStep
<1>2. /\ saves[i].content \in {NotSent} \cup (0..calls) /\ Unserved(saves[i])
      /\ DOMAIN saves' = DOMAIN saves /\ DOMAIN saves = 1..Len(saves) /\ Len(saves) \in Nat
  BY <1>1, LenProperties DEF Inv, ChainOfSaves, Unserved, SavesMove, SavesKept
<1>3. PageOK'
  BY <1>1, <1>2 DEF SavesMove, Inv, PageOK
<1>4. NotYet'
  <2>1. /\ \A n \in saves[i].parts : recorded[n] = 0 /\ n \notin buffer.parts /\ n <= calls
        /\ \A j \in DOMAIN saves : j # i => saves[j].parts \cap saves[i].parts = {}
    <3>1. /\ saves[i].parts \subseteq 1..calls /\ calls \in Nat
          /\ saves[i].parts \cap buffer.parts = {}
      BY DEF Inv, ChainOfSaves, PageOK, OnePlace
    <3>2. \A n \in saves[i].parts : recorded[n] = 0
      BY <1>2 DEF Inv, NotYet
    <3>3. \A j \in DOMAIN saves : j # i => saves[j].parts \cap saves[i].parts = {}
      BY DEF Inv, OnePlace
    <3>4. \A n \in saves[i].parts : n \notin buffer.parts /\ n <= calls
      BY <3>1
    <3> QED BY <3>2, <3>3, <3>4
  <2>2. recorded' \in [Calls -> {0, 1}]
    BY <1>1, <2>1 DEF Inv, NotYet
  <2>3. \A n \in Calls : n \notin saves[i].parts => recorded'[n] = recorded[n]
    BY <1>1 DEF Inv, NotYet
  <2>4. \A n \in Calls : (n \in buffer'.parts \/ n > calls') => recorded'[n] = 0
    <3>1. UNCHANGED <<buffer, calls>> /\ calls \in Nat /\ Calls \subseteq Int
      BY <1>1 DEF SavesMove, Inv, PageOK, Calls
    <3>2. ASSUME NEW n \in Calls, n \in buffer.parts \/ n > calls PROVE recorded'[n] = 0
      <4>1. n \notin saves[i].parts
        BY <2>1, <3>1, <3>2
      <4> QED BY <2>3, <3>2, <4>1 DEF Inv, NotYet
    <3> QED BY <3>1, <3>2
  <2>5. ASSUME NEW j \in DOMAIN saves, Unserved(saves'[j]), NEW n \in saves[j].parts
        PROVE  recorded'[n] = 0
    <3>1. j # i /\ Unserved(saves[j]) /\ n \notin saves[i].parts
      BY <1>1, <2>1, <2>5 DEF SavesMove
    <3>2. saves[j].parts \subseteq 1..calls /\ calls \in Nat /\ calls <= NumCalls
      BY DEF Inv, ChainOfSaves, PageOK
    <3>3. n \in Calls
      BY <2>5, <3>2, CallBound DEF Calls
    <3> QED BY <2>3, <3>1, <3>3 DEF Inv, NotYet
  <2> QED BY <1>1, <2>2, <2>4, <2>5 DEF NotYet, SavesMove, SavesKept
<1>5. ASSUME saves[i].content > started, NEW j \in DOMAIN saves, Unserved(saves'[j]),
             saves[j].content # NotSent
      PROVE  saves[j].content >= saves[i].content
  <2>1. j # i /\ Unserved(saves[j])
    BY <1>1, <1>5 DEF SavesMove
  <2>2. j > i
    BY <1>1, <1>2, <2>1 DEF Unserved
  <2> QED BY <1>5, <2>2 DEF Inv, Newer
<1>6. Ahead'
  <2>1. CASE saves[i].content = NotSent
    BY <1>1, <2>1 DEF SavesMove, SavesKept, Inv, Ahead
  <2>2. CASE saves[i].content # NotSent
    <3>1. stored' = saves[i].content
      BY <1>1, <2>2
    <3>2. saves[i].content > started => content >= saves[i].content
      BY DEF Inv, Newer
    <3> QED BY <1>1, <1>5, <3>1, <3>2 DEF SavesMove, SavesKept, Ahead
  <2> QED BY <2>1, <2>2
<1>7. stored > started => stored' >= stored
  <2>1. stored \in Nat
    BY DEF Inv, PageOK
  <2> QED BY <1>1, <1>2, <2>1 DEF Inv, Ahead
<1> QED BY <1>1, <1>3, <1>4, <1>6, <1>7, SaveKeeps DEF Inv

\* What a step of the page leaves in the buffer and in the chain.
LEMMA PageFacts ==
    ASSUME Inv, NEW n, NEW b, NEW c, PageMoves(n, b, c)
    PROVE  /\ calls \in Nat /\ calls' \in Nat /\ calls <= calls' /\ calls' <= NumCalls
           /\ b.parts \subseteq 1..calls'
           /\ \A m \in b.parts : m \in buffer.parts \/ m > calls
           /\ DOMAIN buffer' = BufferFields /\ buffer'.parts \subseteq b.parts
           /\ content \in Nat /\ c \in 0..calls' /\ (c = content \/ c = calls + 1)
           /\ waits' \in [Calls -> Int]
           /\ \/ saves' = saves
              \/ saves' = Append(saves, NewSave(b, c)) /\ buffer'.parts = {}
<1>1. /\ calls \in Nat /\ NumCalls \in Nat /\ calls <= NumCalls
      /\ buffer.parts \subseteq 1..calls /\ content \in 0..calls /\ waits \in [Calls -> Int]
  BY CallBound DEF Inv, PageOK
<1>2. /\ calls' = n /\ n \in {calls, calls + 1} /\ n <= NumCalls
      /\ b.parts \subseteq buffer.parts \cup ((calls + 1)..n)
      /\ DOMAIN b = BufferFields
      /\ c = content \/ (n = calls + 1 /\ c = n)
  BY DEF PageMoves, Unsaved
<1>3. /\ calls' \in Nat /\ calls <= calls' /\ calls' <= NumCalls
      /\ b.parts \subseteq 1..calls' /\ \A m \in b.parts : m \in buffer.parts \/ m > calls
      /\ content \in Nat /\ c \in 0..calls' /\ (c = content \/ c = calls + 1)
  BY <1>1, <1>2
<1>4. Emptied.parts = {} /\ DOMAIN Emptied = BufferFields
  BY DEF Emptied, BufferFields
<1>5. PICK d : \/ UNCHANGED <<saves, waits>> /\ buffer' = b /\ stack' = d
               \/ Flushes(b, c, d)
  BY DEF PageMoves
<1>6. CASE UNCHANGED <<saves, waits>> /\ buffer' = b
  BY <1>1, <1>2, <1>3, <1>6
<1>7. CASE Flushes(b, c, d)
  <2>1. Len(saves') \in Int
    <3>1. CASE saves' = saves
      BY <3>1 DEF Inv, ChainOfSaves
    <3>2. CASE saves' = Append(saves, NewSave(b, c))
      BY <3>2, AppendedSave DEF Inv, ChainOfSaves
    <3> QED BY <1>7, <3>1, <3>2 DEF Flushes
  <2>2. waits' \in [Calls -> Int]
    BY <1>1, <1>7, <2>1 DEF Flushes
  <2>3. /\ DOMAIN buffer' = BufferFields /\ buffer'.parts \subseteq b.parts
        /\ saves' = saves \/ (saves' = Append(saves, NewSave(b, c)) /\ buffer'.parts = {})
    BY <1>2, <1>4, <1>7 DEF Flushes
  <2> QED BY <1>1, <1>3, <2>2, <2>3
<1> QED BY <1>5, <1>6, <1>7

\* The saves and one more: it holds what was unsaved and has not been sent.
LEMMA NewSaveFacts ==
    ASSUME Inv, NEW n, NEW b, NEW c, PageMoves(n, b, c), saves' = Append(saves, NewSave(b, c))
    PROVE  LET k == Len(saves) + 1 IN
           /\ Len(saves) \in Nat /\ Len(saves') = k
           /\ saves' \in Seq({saves'[i] : i \in 1..Len(saves')})
           /\ DOMAIN saves = 1..Len(saves) /\ DOMAIN saves' = 1..k
           /\ \A i \in DOMAIN saves : saves'[i] = saves[i]
           /\ DOMAIN saves'[k] = SaveFields
           /\ saves'[k].parts = b.parts /\ saves'[k].content \in {NotSent, c}
           /\ saves'[k].state \in {"waiting", "failed"}
<1>1. /\ DOMAIN NewSave(b, c) = SaveFields
      /\ NewSave(b, c).parts = b.parts /\ NewSave(b, c).content \in {NotSent, c}
      /\ NewSave(b, c).state \in {"waiting", "failed"}
  BY DEF NewSave, SaveFields
<1> QED BY <1>1, AppendedSave DEF Inv, ChainOfSaves

\* A call, or the debounce, keeps all but what speaks of a repeat.
LEMMA PageKeeps ==
    ASSUME Inv, NEW n, NEW b, NEW c, PageMoves(n, b, c)
    PROVE  Core'
<1>1. /\ calls \in Nat /\ calls' \in Nat /\ calls <= calls' /\ calls' <= NumCalls
      /\ b.parts \subseteq 1..calls'
      /\ \A m \in b.parts : m \in buffer.parts \/ m > calls
      /\ DOMAIN buffer' = BufferFields /\ buffer'.parts \subseteq b.parts
      /\ content \in Nat /\ c \in 0..calls' /\ (c = content \/ c = calls + 1)
      /\ waits' \in [Calls -> Int]
      /\ \/ saves' = saves
         \/ saves' = Append(saves, NewSave(b, c)) /\ buffer'.parts = {}
  BY PageFacts
<1>2. /\ content' = c /\ UNCHANGED <<post, stored, recorded, started>>
      /\ (here' => calls' < NumCalls) /\ again' \in {0, again, calls'}
  BY DEF PageMoves
<1>3. /\ stored \in 0..calls /\ started \in 0..calls /\ post.content \in 0..calls
      /\ again \in 0..calls /\ content \in 0..calls
  BY DEF Inv, PageOK
<1>4. PageOK'
  BY <1>1, <1>2, <1>3 DEF Inv, PageOK, BufferFields
<1>5. \A i \in DOMAIN saves : /\ saves[i].parts \subseteq 1..calls
                              /\ saves[i].content \in {NotSent} \cup (0..calls)
                              /\ saves[i].parts \cap b.parts = {}
                              /\ DOMAIN saves[i] = SaveFields
  <2>1. ASSUME NEW i \in DOMAIN saves
        PROVE  /\ saves[i].parts \subseteq 1..calls /\ saves[i].content \in {NotSent} \cup (0..calls)
               /\ DOMAIN saves[i] = SaveFields
               /\ saves[i].parts \cap buffer.parts = {}
    BY <2>1 DEF Inv, ChainOfSaves, OnePlace
  <2>2. ASSUME NEW i \in DOMAIN saves PROVE saves[i].parts \cap b.parts = {}
    BY <1>1, <2>1
  <2> QED BY <2>1, <2>2
<1>6. \A m \in b.parts : recorded[m] = 0 /\ m \in Calls
  BY <1>1, CallBound DEF Inv, NotYet, Calls
<1>7. /\ recorded' \in [Calls -> {0, 1}]
      /\ \A m \in Calls : (m \in buffer'.parts \/ m > calls') => recorded'[m] = 0
  <2>1. Calls \subseteq Int /\ recorded \in [Calls -> {0, 1}]
    BY DEF Calls, Inv, NotYet
  <2>2. ASSUME NEW m \in Calls, m > calls' PROVE recorded[m] = 0
    BY <1>1, <2>1, <2>2 DEF Inv, NotYet
  <2> QED BY <1>1, <1>2, <1>6, <2>1, <2>2
<1>8. /\ stored \in Nat /\ started \in Nat /\ content \in Nat /\ c \in Nat /\ c >= content
       /\ \A i \in DOMAIN saves : saves[i].content \in Int
  BY <1>1, <1>3, <1>5 DEF NotSent
<1>9. CASE saves' = saves
  <2>0. ChainOfSaves'
    <3>1. UNCHANGED saves /\ ChainOfSaves
      BY <1>9 DEF Inv
    <3>2. \A i \in DOMAIN saves :
             saves[i].parts \subseteq 1..calls' /\ saves[i].content \in {NotSent} \cup (0..calls')
      BY <1>1, <1>5
    <3> QED BY <3>1, <3>2 DEF ChainOfSaves
  <2>1. OnePlace' /\ InTurn'
    BY <1>1, <1>5, <1>9 DEF Inv, OnePlace, InTurn
  <2>2. NotYet'
    BY <1>2, <1>9, <1>7 DEF Inv, NotYet
  <2>3. Newer' /\ Ahead'
    BY <1>2, <1>9, <1>8 DEF Inv, Newer, Ahead
  <2> QED BY <1>4, <2>0, <2>1, <2>2, <2>3 DEF Core
<1>10. CASE saves' = Append(saves, NewSave(b, c)) /\ buffer'.parts = {}
  <2> DEFINE k == Len(saves) + 1
  <2>1. /\ Len(saves) \in Nat /\ Len(saves') = k
        /\ saves' \in Seq({saves'[i] : i \in 1..Len(saves')})
        /\ DOMAIN saves = 1..Len(saves) /\ DOMAIN saves' = 1..k
        /\ \A i \in DOMAIN saves : saves'[i] = saves[i]
        /\ DOMAIN saves'[k] = SaveFields
        /\ saves'[k].parts = b.parts /\ saves'[k].content \in {NotSent, c}
        /\ saves'[k].state \in {"waiting", "failed"}
    BY <1>10, NewSaveFacts
  <2>2. /\ k \in DOMAIN saves' /\ k \in Nat
        /\ \A i \in DOMAIN saves' : i = k \/ (i \in DOMAIN saves /\ i < k)
    BY <2>1
  <2> HIDE DEF k
  <2>3. ChainOfSaves'
    BY <1>1, <1>5, <2>1, <2>2 DEF ChainOfSaves, NotSent
  <2>4. OnePlace'
    BY <1>5, <1>10, <2>1, <2>2 DEF Inv, OnePlace
  <2>5. NotYet'
    <3>1. ASSUME NEW i \in DOMAIN saves', Unserved(saves'[i]), NEW m \in saves'[i].parts
          PROVE  recorded'[m] = 0
      <4>1. CASE i = k
        BY <1>2, <1>6, <2>1, <3>1, <4>1
      <4>2. CASE i # k
        BY <1>2, <2>1, <2>2, <3>1, <4>2 DEF Inv, NotYet
      <4> QED BY <4>1, <4>2
    <3> QED BY <1>7, <3>1 DEF NotYet
  <2>6. InTurn'
    BY <2>1, <2>2 DEF Inv, InTurn
  <2>7. Newer' /\ Ahead'
    <3>1. \A i \in DOMAIN saves : saves[i].content > started => c >= saves[i].content
      BY <1>8 DEF Inv, Newer
    <3>2. ASSUME NEW i \in DOMAIN saves', saves'[i].content > started'
          PROVE  content' >= saves'[i].content
      <4>1. CASE i = k
        BY <1>2, <1>8, <2>1, <3>2, <4>1 DEF NotSent
      <4>2. CASE i # k
        BY <1>2, <2>1, <2>2, <3>1, <3>2, <4>2
      <4> QED BY <4>1, <4>2
    <3>3. ASSUME NEW i \in DOMAIN saves', NEW j \in DOMAIN saves', i < j,
                 saves'[i].content > started', saves'[j].content # NotSent
          PROVE  saves'[j].content >= saves'[i].content
      <4>1. i # k /\ i \in DOMAIN saves
        BY <2>1, <2>2, <3>3
      <4>2. CASE j = k
        BY <1>2, <2>1, <3>1, <3>3, <4>1, <4>2
      <4>3. CASE j # k
        BY <1>2, <2>1, <2>2, <3>3, <4>1, <4>3 DEF Inv, Newer
      <4> QED BY <4>2, <4>3
    <3>4. ASSUME stored' > started', NEW i \in DOMAIN saves', Unserved(saves'[i]),
                 saves'[i].content # NotSent
          PROVE  saves'[i].content >= stored'
      <4>1. CASE i = k
        BY <1>2, <1>8, <2>1, <3>4, <4>1 DEF Inv, Ahead
      <4>2. CASE i # k
        BY <1>2, <2>1, <2>2, <3>4, <4>2 DEF Inv, Ahead
      <4> QED BY <4>1, <4>2
    <3>5. stored' > started' => content' >= stored'
      BY <1>2, <1>8 DEF Inv, Ahead
    <3> QED BY <3>2, <3>3, <3>4, <3>5 DEF Newer, Ahead
  <2> QED BY <1>4, <2>3, <2>4, <2>5, <2>6, <2>7 DEF Core
<1> QED BY <1>1, <1>9, <1>10

\* A later call goes into a later save than the one that a repeat waits for.
LEMMA PageKeepsFlushed ==
    ASSUME Inv, NEW n, NEW b, NEW c, PageMoves(n, b, c), again' \in {0, again}
    PROVE  Flushed'
<1> SUFFICES ASSUME again # 0, again' = again PROVE Flushed'
  BY DEF Flushed
<1>1. /\ calls \in Nat /\ b.parts \subseteq 1..calls'
      /\ \A m \in b.parts : m \in buffer.parts \/ m > calls
      /\ buffer'.parts \subseteq b.parts
      /\ \/ saves' = saves
         \/ saves' = Append(saves, NewSave(b, c)) /\ buffer'.parts = {}
  BY PageFacts
<1>2. again \in 1..calls /\ again \in Calls /\ calls' \in Nat
  BY <1>1, CallBound, PageFacts DEF Inv, PageOK, Calls
<1>3. /\ waits[again] \in 0..Len(saves) /\ Len(saves) \in Nat
      /\ \A m \in stack : m > again
      /\ \A m \in buffer.parts : m > again
      /\ \A i \in DOMAIN saves : i > waits[again] => \A m \in saves[i].parts : m > again
  BY DEF Inv, Flushed, ChainOfSaves
<1>4. \A m \in b.parts : m > again
  BY <1>1, <1>2, <1>3
<1>5. PICK d : /\ Deferred(n, d)
               /\ \/ UNCHANGED <<saves, waits>> /\ buffer' = b /\ stack' = d
                  \/ Flushes(b, c, d)
  BY DEF PageMoves
<1>6. \A m \in d : m > again
  <2>1. n \in {calls, calls + 1}
    BY DEF PageMoves, Unsaved
  <2> QED BY <1>1, <1>2, <1>3, <1>5, <2>1 DEF Deferred
<1>7. waits'[again] = waits[again] /\ \A m \in stack' : m > again
  BY <1>2, <1>5, <1>6 DEF Flushes
<1>8. CASE saves' = saves
  BY <1>1, <1>3, <1>4, <1>7, <1>8 DEF Flushed
<1>9. CASE saves' = Append(saves, NewSave(b, c))
  <2> DEFINE k == Len(saves) + 1
  <2>1. /\ Len(saves') = k /\ DOMAIN saves = 1..Len(saves) /\ DOMAIN saves' = 1..k
        /\ \A i \in DOMAIN saves : saves'[i] = saves[i]
        /\ saves'[k].parts = b.parts
    BY <1>9, NewSaveFacts
  <2>2. ASSUME NEW i \in DOMAIN saves', i > waits[again], NEW m \in saves'[i].parts
        PROVE  m > again
    <3>1. CASE i = k
      BY <1>4, <2>1, <2>2, <3>1
    <3>2. CASE i # k
      <4>1. i \in DOMAIN saves
        BY <1>3, <2>1, <3>2
      <4> QED BY <1>3, <2>1, <2>2, <4>1
    <3> QED BY <3>1, <3>2
  <2>3. waits[again] \in 0..Len(saves')
    BY <1>3, <2>1
  <2> QED BY <1>1, <1>4, <1>7, <2>2, <2>3 DEF Flushed
<1> QED BY <1>1, <1>8, <1>9

\* A repeat waits for all the saves there are, with nothing left unsaved.
LEMMA RepeatKeepsFlushed ==
    ASSUME Inv, Repeat
    PROVE  Flushed'
<1>1. PICK b, c : /\ PageMoves(Next1, b, c)
                  /\ again' = Next1 /\ Next1 = calls + 1
                  /\ Flushes(b, c, stack \cup {Next1}) /\ buffer' = Emptied
  BY RepeatStep
<1>2. /\ calls' = Next1 /\ calls' \in Nat /\ calls \in Nat /\ calls' <= NumCalls
  BY <1>1, PageFacts DEF PageMoves
<1>3. Next1 \in Calls
  BY <1>1, <1>2, CallBound DEF Calls
<1>4. waits'[again'] = Len(saves') /\ stack' = {} /\ buffer'.parts = {}
  BY <1>1, <1>3 DEF Flushes, Emptied
<1>5. ChainOfSaves'
  BY <1>1, PageKeeps DEF Core
<1>6. Len(saves') \in Nat /\ DOMAIN saves' = 1..Len(saves')
  BY <1>5, LenProperties DEF ChainOfSaves
<1> QED BY <1>4, <1>6 DEF Flushed

-----------------------------------------------------------------------------
(* The theorems.                                                           *)

\* A page starts with nothing unsaved and no saves.
LEMMA InitInv == Init => Inv
<1> SUFFICES ASSUME Init PROVE Inv
  OBVIOUS
<1>1. /\ saves = <<>> /\ calls = 0 /\ here = TRUE /\ content = 0 /\ stored = 0 /\ started = 0
      /\ again = 0 /\ waits = [n \in Calls |-> -1] /\ recorded = [n \in Calls |-> 0]
      /\ buffer = Emptied /\ DOMAIN buffer = BufferFields /\ buffer.parts = {}
      /\ DOMAIN post = {"state", "session", "progress", "content", "attempts"} /\ post.content = 0
  BY DEF Init, None, Unsettled, Emptied, BufferFields
<1>2. Len(saves) = 0 /\ DOMAIN saves = {} /\ saves \in Seq({saves[i] : i \in 1..Len(saves)})
  BY <1>1
<1>3. ChainOfSaves /\ OnePlace /\ InTurn /\ Newer
  BY <1>2 DEF ChainOfSaves, OnePlace, InTurn, Newer
<1>4. PageOK
  BY <1>1, CallBound DEF PageOK, BufferFields
<1>5. NotYet
  BY <1>1, <1>2 DEF NotYet
<1>6. Ahead /\ Flushed
  BY <1>1 DEF Ahead, Flushed
<1> QED BY <1>3, <1>4, <1>5, <1>6 DEF Inv

\* Every step keeps the invariant, and puts back no state of this session.
LEMMA NextInv ==
    ASSUME Inv, [Next]_vars
    PROVE  Inv' /\ (stored > started => stored' >= stored)
<1>1. stored \in Nat
  BY DEF Inv, PageOK
<1>2. CASE \/ Tick \/ (\E to \in 1..Full : ReachProgress(to)) \/ AddProgress
           \/ SaveContentState \/ (\E item \in Items : Answer(item))
           \/ Stop \/ Unmount \/ DebounceFires
  <2>1. PICK n, b, c : PageMoves(n, b, c) /\ again' \in {0, again}
    BY <1>2, PageStep
  <2>2. Core' /\ Flushed' /\ stored' = stored
    BY <2>1, PageKeeps, PageKeepsFlushed DEF PageMoves
  <2> QED BY <1>1, <2>2 DEF Core, Inv
<1>3. CASE Repeat
  <2>1. PICK b, c : PageMoves(Next1, b, c)
    BY <1>3, RepeatStep
  <2>2. Core' /\ Flushed' /\ stored' = stored
    BY <1>3, <2>1, PageKeeps, RepeatKeepsFlushed DEF PageMoves
  <2> QED BY <1>1, <2>2 DEF Core, Inv
<1>4. CASE StartTracking \/ StartSession \/ ServeSession \/ SessionStarted \/ SessionLost
              \/ UNCHANGED vars
  <2>1. SessionMoves
    BY <1>4, SessionStep
  <2> QED BY <1>1, <2>1, SessionKeeps DEF SessionMoves
<1>5. ASSUME NEW i \in DOMAIN saves, Save(i)
      PROVE  Inv' /\ (stored > started => stored' >= stored)
  BY <1>1, <1>5, SaveKeepsInv, SaveStep
<1>6. ASSUME NEW i \in DOMAIN saves, ServeSave(i)
      PROVE  Inv' /\ (stored > started => stored' >= stored)
  BY <1>6, ServeKeepsInv
<1> QED BY <1>2, <1>3, <1>4, <1>5, <1>6 DEF Next

\* The invariant holds in every state.
THEOREM ProgressInvariant == Spec => []Inv
<1>1. Inv /\ [Next]_vars => Inv'
  BY NextInv
<1> QED BY InitInv, <1>1, PTL DEF Spec

\* A call is recorded at most once, with any number of retries and lost answers.
THEOREM CallsAreRecordedOnce == Spec => []RecordedOnce
<1>1. Inv => RecordedOnce
  BY DEF Inv, NotYet, RecordedOnce
<1> QED BY ProgressInvariant, <1>1, PTL

\* A content state of the session is never overwritten by an older one.
THEOREM ContentStatesInOrder == Spec => StatesInOrder
<1>1. Inv /\ [Next]_vars => [stored > started => stored' >= stored]_stored
  BY NextInv
<1> QED BY ProgressInvariant, <1>1, PTL DEF Spec, StatesInOrder

\* When the stop that a repeat waits for has succeeded, its saves are done, and
\* with them all before: the next try starts with all that was done saved.
LEMMA StoppedIsSaved ==
    ASSUME Inv, StartSession, ~Poisoned
    PROVE  AllSavedUpTo(again)
<1>1. again # 0 /\ waits[again] # Unsettled /\ \A i \in {waits[again]} \ {0} : Finished(saves[i])
  BY DEF StartSession, Settled
<1>2. /\ waits[again] \in 0..Len(saves) /\ Len(saves) \in Nat /\ DOMAIN saves = 1..Len(saves)
      /\ \A m \in buffer.parts : m > again
      /\ \A i \in DOMAIN saves : i > waits[again] => \A m \in saves[i].parts : m > again
  BY <1>1, LenProperties DEF Inv, Flushed, ChainOfSaves
<1>3. again \in Nat
  BY DEF Inv, PageOK
<1>4. ASSUME NEW m \in 1..again, NEW i \in DOMAIN saves, m \in saves[i].parts
      PROVE  saves[i].state = "done"
  <2>1. i <= waits[again]
    BY <1>2, <1>3, <1>4
  <2>2. waits[again] \in DOMAIN saves /\ saves[waits[again]].state = "done"
    <3>1. waits[again] \in DOMAIN saves /\ waits[again] # 0
      BY <1>2, <2>1
    <3>2. saves[waits[again]].state \in {"done", "failed"}
      BY <1>1, <3>1 DEF Finished
    <3> QED BY <3>1, <3>2 DEF Poisoned
  <2>3. i = waits[again] \/ i < waits[again]
    BY <1>2, <2>1
  <2> QED BY <2>2, <2>3 DEF Inv, InTurn
<1>5. \A m \in 1..again : m \notin buffer.parts
  BY <1>2, <1>3
<1> QED BY <1>4, <1>5 DEF AllSavedUpTo

\* The next try of what is done only begins when all that was done before the
\* stop is on the server, unless a save failed.
THEOREM StopIsSaved == Spec => StopMeansSaved
<1>1. Inv /\ [Next]_vars => [(StartSession /\ ~Poisoned) => AllSavedUpTo(again)]_vars
  BY StoppedIsSaved
<1> QED BY ProgressInvariant, <1>1, PTL DEF Spec, StopMeansSaved

-----------------------------------------------------------------------------
(* What was done arrives: the parts of PromisesSettle and LeftIsSaved that *)
(* are not about fairness.                                                 *)

\* A save that nothing before it holds up: its request can be sent, or is under way.
MovesOn(i) ==
    \/ saves[i].state \in {"sent", "applied", "delayed"}
    \/ saves[i].state = "waiting" /\ MyTurn(i)

Going(k) == \E i \in 1..k : MovesOn(i)

\* The promise of a call waits for the debounce, whose timer is set, or for saves
\* of which one can move on.
PromisesAreComing ==
    \A n \in 1..calls :
        \/ waits[n] = Unsettled /\ n \in stack /\ armed
        \/ waits[n] \in 0..Len(saves) /\ (Settled(n) \/ Going(waits[n]))

\* Of what the learner did on a page that was left nothing is unsaved, and each of
\* the saves is recorded, or can still be, or one was rejected.
LeavingIsSaving ==
    ~here => /\ buffer.parts = {}
             /\ \A i \in DOMAIN saves :
                    Poisoned \/ Going(i) \/ \A n \in saves[i].parts : recorded[n] = 1

\* Every promise is on the stack of the timer that is set, or knows its saves.
Listed ==
    /\ stack # {} => armed
    /\ stack \subseteq 1..calls
    /\ \A n \in Calls : n > calls => waits[n] = Unsettled
    /\ \A n \in 1..calls : \/ waits[n] = Unsettled /\ n \in stack
                           \/ waits[n] \in 0..Len(saves)

\* A rejected save takes all after it along; one that was served is recorded.
Delivered ==
    /\ \A i \in DOMAIN saves :
         saves[i].state \in {"waiting", "sent", "applied", "delayed", "done", "failed"}
    /\ \A i, j \in DOMAIN saves :
         i < j /\ saves[i].state = "failed" => saves[j].state = "failed"
    /\ \A i \in DOMAIN saves :
         saves[i].state \in {"applied", "done"} => \A n \in saves[i].parts : recorded[n] = 1

LeftEmpty == ~here => buffer.parts = {}

Delivery == Listed /\ Delivered /\ LeftEmpty

\* What a step of the page does to the promises and the saves.
Lists(m) ==
    /\ calls' = m /\ m \in {calls, calls + 1} /\ UNCHANGED recorded
    /\ \/ /\ UNCHANGED <<saves, waits>> /\ armed' = TRUE
          /\ stack' = stack \cup ((calls + 1)..m)
       \/ /\ stack' = {}
          /\ waits' = [n \in Calls |-> IF n \in stack \cup ((calls + 1)..m)
                                       THEN Len(saves') ELSE waits[n]]
          /\ saves' = saves \/ \E b, c : saves' = Append(saves, NewSave(b, c))

LEMMA FlushLists ==
    ASSUME NEW m, NEW b, NEW p, NEW c, Flush(b, p, c, stack \cup ((calls + 1)..m)),
           calls' = m, m \in {calls, calls + 1}, UNCHANGED recorded
    PROVE  Lists(m)
<1>1. /\ waits' = [n \in Calls |-> IF n \in stack \cup ((calls + 1)..m)
                                   THEN Len(saves') ELSE waits[n]]
      /\ stack' = {}
      /\ saves' = IF Worth(b, p) /\ HasData(b) THEN Append(saves, NewSave(b, c)) ELSE saves
  BY DEF Flush, Awaited
<1>2. saves' = saves \/ saves' = Append(saves, NewSave(b, c))
  BY <1>1
<1> QED BY <1>1, <1>2 DEF Lists

LEMMA FinishLists ==
    ASSUME calls \in Nat, NEW b, NEW p, NEW c, NEW immediate,
           Finish(Next1, b, p, c, immediate), UNCHANGED recorded
    PROVE  Lists(Next1)
<1>1. (calls + 1)..Next1 = {Next1} /\ Next1 = calls + 1
  BY DEF Next1
<1>2. /\ calls' = Next1
      /\ \/ Flush(b, p, c, stack \cup {Next1})
         \/ armed' = TRUE /\ stack' = stack \cup {Next1} /\ UNCHANGED <<saves, waits>>
  BY DEF Finish, Defer
<1>3. CASE Flush(b, p, c, stack \cup {Next1})
  BY <1>1, <1>2, <1>3, FlushLists
<1>4. CASE armed' = TRUE /\ stack' = stack \cup {Next1} /\ UNCHANGED <<saves, waits>>
  BY <1>1, <1>2, <1>4 DEF Lists
<1> QED BY <1>2, <1>3, <1>4

\* The steps of the page do that, and leave nothing unsaved behind.
LEMMA PageLists ==
    ASSUME Inv, LeftEmpty,
           \/ Tick \/ (\E to \in 1..Full : ReachProgress(to)) \/ AddProgress
           \/ SaveContentState \/ (\E item \in Items : Answer(item))
           \/ Stop \/ Unmount \/ DebounceFires \/ Repeat
    PROVE  Lists(calls') /\ LeftEmpty'
<1>1. calls \in Nat
  BY DEF Inv, PageOK
<1>2. ASSUME NEW b, NEW p, NEW c, NEW immediate, Finish(Next1, b, p, c, immediate),
             UNCHANGED recorded
      PROVE  Lists(calls')
  <2>1. calls' = Next1
    BY <1>2 DEF Finish
  <2> QED BY <1>1, <1>2, <2>1, FinishLists
<1>3. CASE Tick
  BY <1>2, <1>3 DEF Tick, Elsewhere, page, server, MayCall, LeftEmpty
<1>4. ASSUME NEW to \in 1..Full, ReachProgress(to) PROVE Lists(calls') /\ LeftEmpty'
  BY <1>2, <1>4 DEF ReachProgress, Elsewhere, page, server, MayCall, LeftEmpty
<1>5. CASE AddProgress
  BY <1>2, <1>5 DEF AddProgress, Elsewhere, page, server, MayCall, LeftEmpty
<1>6. CASE SaveContentState
  BY <1>2, <1>6 DEF SaveContentState, Elsewhere, page, server, MayCall, LeftEmpty
<1>7. ASSUME NEW item \in Items, Answer(item) PROVE Lists(calls') /\ LeftEmpty'
  BY <1>2, <1>7 DEF Answer, Elsewhere, page, server, MayCall, LeftEmpty
<1>8. CASE Stop
  BY <1>2, <1>8 DEF Stop, StopWith, server, MayCall, LeftEmpty
<1>9. CASE Repeat
  BY <1>2, <1>9 DEF Repeat, StopWith, server, MayCall, LeftEmpty
<1>10. CASE Unmount
  <2> DEFINE b == [buffer EXCEPT !.force = TRUE]
  <2>1. Finish(Next1, b, progress, content, TRUE) /\ UNCHANGED recorded
    BY <1>10 DEF Unmount, StopWith, server
  <2>2. b.force = TRUE
    BY DEF Inv, PageOK
  <2> HIDE DEF b
  <2>3. Worth(b, progress) /\ Flush(b, progress, content, Defer(Next1))
    BY <2>1, <2>2 DEF Worth, Finish
  <2>4. buffer' = Emptied
    BY <2>3 DEF Flush, Cleared
  <2> QED BY <1>2, <2>1, <2>4 DEF LeftEmpty, Emptied
<1>11. CASE DebounceFires
  <2>1. /\ Flush(buffer, progress, content, stack) /\ calls' = calls /\ here' = here
        /\ UNCHANGED recorded
    BY <1>11 DEF DebounceFires, Elsewhere, page, server
  <2>2. stack \cup ((calls + 1)..calls) = stack
    BY <1>1
  <2>3. Lists(calls')
    BY <2>1, <2>2, FlushLists
  <2>4. buffer' = Emptied \/ buffer' = buffer
    BY <2>1 DEF Flush, Cleared
  <2> QED BY <2>1, <2>3, <2>4 DEF LeftEmpty, Emptied
<1> QED BY <1>3, <1>4, <1>5, <1>6, <1>7, <1>8, <1>9, <1>10, <1>11

LEMMA PageDelivers ==
    ASSUME Inv, Listed, Delivered, Lists(calls'), calls' <= NumCalls
    PROVE  Listed' /\ Delivered'
<1> DEFINE new == (calls + 1)..calls'
<1>1. calls \in Nat /\ ChainOfSaves /\ waits \in [Calls -> Int] /\ NumCalls \in Nat
      /\ Len(saves) \in Nat
  BY CallBound DEF Inv, PageOK, ChainOfSaves
<1>2. /\ calls' \in {calls, calls + 1} /\ recorded' = recorded
      /\ \/ UNCHANGED <<saves, waits>> /\ armed' = TRUE /\ stack' = stack \cup new
         \/ /\ stack' = {}
            /\ waits' = [n \in Calls |-> IF n \in stack \cup new THEN Len(saves') ELSE waits[n]]
            /\ saves' = saves \/ \E b, c : saves' = Append(saves, NewSave(b, c))
  BY DEF Lists
<1>3. /\ 1..calls' \subseteq Calls
      /\ new \subseteq 1..calls' /\ 1..calls \subseteq 1..calls'
      /\ \A n \in 1..calls' : n \in 1..calls \/ n \in new
      /\ \A n \in new : n \in Calls /\ n > calls
      /\ \A n \in Calls : n > calls' => n > calls /\ n \notin 1..calls'
  BY <1>1, <1>2 DEF Calls
<1> HIDE DEF new
<1>4. CASE UNCHANGED <<saves, waits>> /\ armed' = TRUE /\ stack' = stack \cup new
  <2>1. Listed'
    <3>1. \A n \in 1..calls' : (waits'[n] = Unsettled /\ n \in stack') \/ waits'[n] \in 0..Len(saves')
      BY <1>3, <1>4 DEF Listed
    <3>2. \A n \in Calls : n > calls' => waits'[n] = Unsettled
      BY <1>3, <1>4 DEF Listed
    <3>3. stack' \subseteq 1..calls'
      BY <1>3, <1>4 DEF Listed
    <3> QED BY <1>4, <3>1, <3>2, <3>3 DEF Listed, Unsettled
  <2> QED BY <1>2, <1>4, <2>1 DEF Delivered
<1>5. ASSUME stack' = {},
             waits' = [n \in Calls |-> IF n \in stack \cup new THEN Len(saves') ELSE waits[n]],
             Len(saves') \in Nat, Len(saves) <= Len(saves')
      PROVE  Listed'
  <2>1. ASSUME NEW n \in 1..calls' PROVE waits'[n] \in 0..Len(saves')
    <3>1. CASE n \in stack \cup new
      BY <1>3, <1>5, <2>1, <3>1
    <3>2. CASE n \notin stack \cup new
      <4>1. n \in 1..calls /\ waits'[n] = waits[n] /\ waits[n] \in 0..Len(saves)
        BY <1>3, <1>5, <2>1, <3>2 DEF Listed
      <4> QED BY <1>1, <1>5, <4>1
    <3> QED BY <3>1, <3>2
  <2>2. \A n \in Calls : n > calls' => waits'[n] = Unsettled
    BY <1>3, <1>5 DEF Listed
  <2> QED BY <1>5, <2>1, <2>2 DEF Listed, Unsettled
<1>6. CASE stack' = {} /\ saves' = saves
  BY <1>1, <1>2, <1>5, <1>6 DEF Delivered, Listed
<1>7. ASSUME NEW b, NEW c, saves' = Append(saves, NewSave(b, c)), stack' = {},
             waits' = [n \in Calls |-> IF n \in stack \cup new THEN Len(saves') ELSE waits[n]]
      PROVE  Listed' /\ Delivered'
  <2>1. /\ Len(saves') = Len(saves) + 1 /\ DOMAIN saves = 1..Len(saves)
        /\ DOMAIN saves' = 1..(Len(saves) + 1) /\ saves'[Len(saves) + 1] = NewSave(b, c)
        /\ \A i \in DOMAIN saves : saves'[i] = saves[i]
    BY <1>1, <1>7, AppendedSave
  <2>2. NewSave(b, c).state = IF Poisoned THEN "failed" ELSE "waiting"
    BY DEF NewSave
  <2>3. \A i \in DOMAIN saves' : i \in DOMAIN saves \/ i = Len(saves) + 1
    BY <1>1, <2>1
  <2>4. \A i \in DOMAIN saves : i < Len(saves) + 1 /\ i # Len(saves) + 1 /\ ~(Len(saves) + 1 < i)
    BY <1>1, <2>1
  <2>5. \A i \in DOMAIN saves' : saves'[i].state \in
            {"waiting", "sent", "applied", "delayed", "done", "failed"}
    BY <2>1, <2>2, <2>3 DEF Delivered
  <2>6. ASSUME NEW i \in DOMAIN saves', NEW j \in DOMAIN saves', i < j, saves'[i].state = "failed"
        PROVE  saves'[j].state = "failed"
    <3>1. i \in DOMAIN saves /\ saves[i].state = "failed"
      BY <1>1, <2>1, <2>3, <2>4, <2>6
    <3> QED BY <2>1, <2>2, <2>3, <2>6, <3>1 DEF Delivered, Poisoned
  <2>7. \A i \in DOMAIN saves' : saves'[i].state \in {"applied", "done"}
            => \A n \in saves'[i].parts : recorded'[n] = 1
    BY <1>2, <2>1, <2>2, <2>3 DEF Delivered
  <2>8. Listed'
    BY <1>1, <1>5, <1>7, <2>1
  <2> QED BY <2>5, <2>6, <2>7, <2>8 DEF Delivered
<1> QED BY <1>2, <1>4, <1>6, <1>7

\* What a step of save i does to the states of the saves.
Turns(i) ==
    /\ SavesKept /\ UNCHANGED <<here, buffer, calls, waits, stack, armed>>
    /\ \/ /\ saves[i].state # "failed"
          /\ saves'[i].state \in {"sent", "delayed", "applied", "done"}
          /\ saves'[i].state \in {"applied", "done"}
                => \A n \in saves[i].parts : recorded'[n] = 1
          /\ \A j \in DOMAIN saves : j # i => saves'[j] = saves[j]
       \/ /\ saves[i].state \in {"sent", "applied"}
          /\ \A j \in DOMAIN saves :
               saves'[j].state = IF j = i \/ (j > i /\ saves[j].state = "waiting")
                                 THEN "failed" ELSE saves[j].state

LEMMA RejectedTurns ==
    ASSUME Inv, NEW i \in DOMAIN saves, saves' = Rejected(i),
           saves[i].state \in {"sent", "applied"},
           UNCHANGED <<here, buffer, calls, waits, stack, armed>>
    PROVE  Turns(i)
<1>1. SavesKept
  BY RejectedMoves
<1>2. \A j \in DOMAIN saves : DOMAIN saves[j] = SaveFields
  BY DEF Inv, ChainOfSaves
<1>3. \A j \in DOMAIN saves :
        saves'[j].state = IF j = i \/ (j > i /\ saves[j].state = "waiting")
                          THEN "failed" ELSE saves[j].state
  BY <1>2 DEF Rejected, SaveFields
<1> QED BY <1>1, <1>3 DEF Turns

LEMMA SaveTurns ==
    ASSUME Inv, Delivered, NEW i \in DOMAIN saves, Save(i)
    PROVE  Turns(i) /\ recorded' = recorded
<1>1. DOMAIN saves[i] = SaveFields
  BY DEF Inv, ChainOfSaves
<1>2. UNCHANGED <<here, buffer, calls, waits, stack, recorded>>
  BY SaveStep DEF SavesMove
<1>3. armed' = armed
  BY DEF Save, SendSave, SaveBusy, SaveLost, SaveRefused, SaveAnswered, Quiet, unsent
<1>4. ASSUME NEW s, SaveIs(i, s), s \in {[saves[i] EXCEPT !.state = "delayed"],
                                         [saves[i] EXCEPT !.state = "done"],
                                         [saves[i] EXCEPT !.state = "sent", !.session = sid,
                                                          !.tries = @ + 1]},
             saves[i].state # "failed",
             s.state = "done" => saves[i].state = "applied"
      PROVE  Turns(i)
  <2>1. /\ DOMAIN s = SaveFields /\ s.parts = saves[i].parts /\ s.content = saves[i].content
        /\ s.state \in {"sent", "delayed", "done"}
    BY <1>1, <1>4 DEF SaveFields
  <2>2. /\ SavesKept /\ saves'[i] = s
        /\ \A j \in DOMAIN saves : j # i => saves'[j] = saves[j]
    BY <1>4, <2>1, KeptByExcept DEF Inv
  <2>3. s.state \in {"applied", "done"} => \A n \in saves[i].parts : recorded'[n] = 1
    BY <1>2, <1>4, <2>1 DEF Delivered
  <2> QED BY <1>2, <1>3, <1>4, <2>1, <2>2, <2>3 DEF Turns
<1>5. CASE SendSave(i)
  <2> DEFINE s == [saves[i] EXCEPT !.state = "sent", !.session = sid, !.tries = @ + 1]
  <2>1. SaveIs(i, s) /\ saves[i].state # "failed" /\ s.state = "sent"
    BY <1>1, <1>5 DEF SendSave, SaveFields
  <2> QED BY <1>2, <1>4, <2>1
<1>6. CASE SaveBusy(i)
  <2>1. saves[i].state = "sent"
        /\ (SaveIs(i, [saves[i] EXCEPT !.state = "delayed"]) \/ saves' = Rejected(i))
    BY <1>6 DEF SaveBusy, SaveIs
  <2>2. [saves[i] EXCEPT !.state = "delayed"].state = "delayed"
    BY <1>1 DEF SaveFields
  <2> QED BY <1>2, <1>3, <1>4, <2>1, <2>2, RejectedTurns
<1>7. CASE SaveLost(i) \/ SaveRefused(i)
  <2>1. saves[i].state \in {"sent", "applied"} /\ saves' = Rejected(i)
    BY <1>7 DEF SaveLost, SaveRefused
  <2> QED BY <1>2, <1>3, <2>1, RejectedTurns
<1>8. CASE SaveAnswered(i)
  <2>1. saves[i].state = "applied"
        /\ (SaveIs(i, [saves[i] EXCEPT !.state = "done"]) \/ saves' = Rejected(i))
    BY <1>8 DEF SaveAnswered
  <2> QED BY <1>2, <1>3, <1>4, <2>1, RejectedTurns
<1> QED BY <1>2, <1>5, <1>6, <1>7, <1>8 DEF Save

LEMMA ServeTurns ==
    ASSUME Inv, NEW i \in DOMAIN saves, ServeSave(i)
    PROVE  /\ Turns(i)
           /\ \A n \in Calls : recorded[n] = 1 => recorded'[n] = 1
<1> DEFINE done == summary' = Full
           out == Attempted(saves[i]).out
           s == [saves[i] EXCEPT !.state = "applied", !.complete = done, !.out = out]
<1>1. /\ SaveIs(i, s) /\ saves[i].state = "sent"
      /\ recorded' = [n \in Calls |-> recorded[n] + IF n \in saves[i].parts THEN 1 ELSE 0]
      /\ UNCHANGED <<here, buffer, calls, waits, stack, armed>>
  BY DEF ServeSave, Quiet, page, shown, unsent, past
<1> HIDE DEF done, out
<1>2. DOMAIN saves[i] = SaveFields /\ saves[i].parts \subseteq Calls
  BY CallBound DEF Inv, ChainOfSaves, PageOK, Calls
<1>3. /\ DOMAIN s = SaveFields /\ s.parts = saves[i].parts /\ s.content = saves[i].content
      /\ s.state = "applied"
  BY <1>2 DEF SaveFields
<1> HIDE DEF s
<1>4. /\ SavesKept /\ saves'[i] = s
      /\ \A j \in DOMAIN saves : j # i => saves'[j] = saves[j]
  BY <1>1, <1>3, KeptByExcept DEF Inv
<1>5. \A n \in saves[i].parts : recorded[n] = 0
  BY <1>1 DEF Inv, NotYet, Unserved
<1>6. \A n \in saves[i].parts : recorded'[n] = 1
  BY <1>1, <1>2, <1>5
<1>7. \A n \in Calls : recorded[n] = 1 => recorded'[n] = 1
  BY <1>1, <1>5
<1> QED BY <1>1, <1>3, <1>4, <1>6, <1>7 DEF Turns

\* A save that moves on keeps what is known of the others.
LEMMA TurnsDeliver ==
    ASSUME Inv, Delivery, NEW i \in DOMAIN saves, Turns(i),
           \A n \in Calls : recorded[n] = 1 => recorded'[n] = 1
    PROVE  Delivery'
<1>1. /\ DOMAIN saves' = DOMAIN saves /\ Len(saves') = Len(saves)
      /\ DOMAIN saves = 1..Len(saves) /\ Len(saves) \in Nat
      /\ \A j \in DOMAIN saves : saves'[j].parts = saves[j].parts /\ saves[j].parts \subseteq Calls
  <2>1. SavesKept
    BY DEF Turns
  <2>2. saves \in Seq({saves[j] : j \in 1..Len(saves)})
    BY DEF Inv, ChainOfSaves
  <2>3. DOMAIN saves = 1..Len(saves) /\ Len(saves) \in Nat
    BY <2>2, LenProperties
  <2>4. \A j \in DOMAIN saves : saves[j].parts \subseteq Calls
    BY CallBound DEF Inv, ChainOfSaves, PageOK, Calls
  <2> QED BY <2>1, <2>3, <2>4 DEF SavesKept
<1>2. Listed' /\ LeftEmpty'
  BY <1>1 DEF Turns, Delivery, Listed, LeftEmpty
<1>3. ASSUME saves[i].state # "failed",
             saves'[i].state \in {"sent", "delayed", "applied", "done"},
             saves'[i].state \in {"applied", "done"} => \A n \in saves[i].parts : recorded'[n] = 1,
             \A j \in DOMAIN saves : j # i => saves'[j] = saves[j]
      PROVE  Delivered'
  <2>1. \A j \in DOMAIN saves : saves'[j].state = "failed" => j # i /\ saves[j].state = "failed"
    BY <1>3
  <2>2. ASSUME NEW j \in DOMAIN saves, NEW k \in DOMAIN saves, j < k, saves'[j].state = "failed"
        PROVE  saves'[k].state = "failed"
    <3>1. saves[j].state = "failed" /\ saves[k].state = "failed"
      BY <2>1, <2>2 DEF Delivery, Delivered
    <3>2. k # i
      BY <1>3, <3>1
    <3> QED BY <1>3, <3>1, <3>2
  <2>3. ASSUME NEW j \in DOMAIN saves, saves'[j].state \in {"applied", "done"},
               NEW n \in saves'[j].parts
        PROVE  recorded'[n] = 1
    <3>1. CASE j = i
      BY <1>1, <1>3, <2>3, <3>1
    <3>2. CASE j # i
      <4>1. recorded[n] = 1 /\ n \in Calls
        BY <1>1, <1>3, <2>3, <3>2 DEF Delivery, Delivered
      <4> QED BY <4>1
    <3> QED BY <3>1, <3>2
  <2>4. \A j \in DOMAIN saves : saves'[j].state \in
            {"waiting", "sent", "applied", "delayed", "done", "failed"}
    BY <1>3 DEF Delivery, Delivered
  <2> QED BY <1>1, <2>2, <2>3, <2>4 DEF Delivered
<1>4. ASSUME saves[i].state \in {"sent", "applied"},
             \A j \in DOMAIN saves :
               saves'[j].state = IF j = i \/ (j > i /\ saves[j].state = "waiting")
                                 THEN "failed" ELSE saves[j].state
      PROVE  Delivered'
  <2>1. ASSUME NEW k \in DOMAIN saves, i < k PROVE saves'[k].state = "failed"
    <3>1. saves[k].state \in {"waiting", "failed"}
      BY <1>4, <2>1 DEF Inv, InTurn
    <3> QED BY <1>4, <2>1, <3>1
  <2>2. ASSUME NEW j \in DOMAIN saves, NEW k \in DOMAIN saves, j < k, saves'[j].state = "failed"
        PROVE  saves'[k].state = "failed"
    <3>1. CASE j = i \/ j > i
      BY <1>1, <2>1, <2>2, <3>1
    <3>2. CASE ~(j = i \/ j > i)
      <4>1. saves[j].state = "failed" /\ saves[k].state = "failed"
        BY <1>4, <2>2, <3>2 DEF Delivery, Delivered
      <4> QED BY <1>4, <4>1
    <3> QED BY <3>1, <3>2
  <2>3. ASSUME NEW j \in DOMAIN saves, saves'[j].state \in {"applied", "done"},
               NEW n \in saves'[j].parts
        PROVE  recorded'[n] = 1
    <3>1. saves[j].state \in {"applied", "done"}
      BY <1>4, <2>3
    <3>2. recorded[n] = 1 /\ n \in Calls
      BY <1>1, <2>3, <3>1 DEF Delivery, Delivered
    <3> QED BY <3>2
  <2>4. \A j \in DOMAIN saves : saves'[j].state \in
            {"waiting", "sent", "applied", "delayed", "done", "failed"}
    BY <1>4 DEF Delivery, Delivered
  <2> QED BY <1>1, <2>2, <2>3, <2>4 DEF Delivered
<1> QED BY <1>2, <1>3, <1>4 DEF Delivery, Turns

LEMMA SessionDelivers ==
    ASSUME Inv, Delivery,
           StartTracking \/ StartSession \/ ServeSession \/ SessionStarted \/ SessionLost
              \/ UNCHANGED vars
    PROVE  Delivery'
<1>1. SessionMoves
  BY SessionStep
<1>2. armed' = armed
  BY DEF StartTracking, StartSession, ServeSession, SessionStarted, SessionLost, unsent, vars
<1>3. Listed' /\ Delivered'
  BY <1>1, <1>2 DEF SessionMoves, Delivery, Listed, Delivered
<1>4. LeftEmpty'
  BY <1>1 DEF SessionMoves, Delivery, LeftEmpty
<1> QED BY <1>3, <1>4 DEF Delivery

LEMMA DeliveryAlways == Spec => []Delivery
<1>1. Init => Delivery
  <2> SUFFICES ASSUME Init PROVE Delivery
    OBVIOUS
  <2>1. saves = <<>> /\ stack = {} /\ calls = 0 /\ here = TRUE /\ waits = [n \in Calls |-> Unsettled]
    BY DEF Init
  <2>2. DOMAIN saves = {} /\ 1..calls = {}
    BY <2>1
  <2> QED BY <2>1, <2>2 DEF Delivery, Listed, Delivered, LeftEmpty
<1>2. ASSUME Inv, Inv', Delivery, [Next]_vars PROVE Delivery'
  <2>1. CASE \/ Tick \/ (\E to \in 1..Full : ReachProgress(to)) \/ AddProgress
             \/ SaveContentState \/ (\E item \in Items : Answer(item))
             \/ Stop \/ Unmount \/ DebounceFires \/ Repeat
    <3>1. Lists(calls') /\ LeftEmpty'
      BY <1>2, <2>1, PageLists DEF Delivery
    <3>2. calls' <= NumCalls
      BY <1>2 DEF Inv, PageOK
    <3> QED BY <1>2, <3>1, <3>2, PageDelivers DEF Delivery
  <2>2. CASE StartTracking \/ StartSession \/ ServeSession \/ SessionStarted \/ SessionLost
             \/ UNCHANGED vars
    BY <1>2, <2>2, SessionDelivers
  <2>3. ASSUME NEW i \in DOMAIN saves, Save(i) PROVE Delivery'
    <3>1. Turns(i) /\ recorded' = recorded
      BY <1>2, <2>3, SaveTurns DEF Delivery
    <3> QED BY <1>2, <3>1, TurnsDeliver
  <2>4. ASSUME NEW i \in DOMAIN saves, ServeSave(i) PROVE Delivery'
    BY <1>2, <2>4, ServeTurns, TurnsDeliver
  <2> QED BY <1>2, <2>1, <2>2, <2>3, <2>4 DEF Next
<1> QED BY <1>1, <1>2, ProgressInvariant, PTL DEF Spec

\* Of some saves one is the first.
LEMMA FirstSave ==
    ASSUME NEW N \in Nat, NEW T \in SUBSET (1..N), T # {}
    PROVE  \E i \in T : \A j \in T : i <= j
<1> DEFINE Before == {1..i : i \in T}
<1>1. IsWellFoundedOn(StrictSubsetOrdering(1..N), SUBSET (1..N))
  <2>1. IsFiniteSet(1..N)
    BY FS_Interval
  <2> DEFINE All == 1..N
  <2> HIDE DEF All
  <2>2. IsFiniteSet(All)
    BY <2>1 DEF All
  <2>3. FiniteSubsetsOf(All) = SUBSET All
    BY <2>2, FS_FiniteSubsetsOfFinite
  <2>4. IsWellFoundedOn(StrictSubsetOrdering(All), SUBSET All)
    BY <2>2, <2>3, FS_StrictSubsetOrderingWellFounded
  <2> QED BY <2>4 DEF All
<1>2. Before \subseteq SUBSET (1..N) /\ Before # {}
  <2>1. ASSUME NEW i \in T PROVE 1..i \in SUBSET (1..N)
    OBVIOUS
  <2> QED BY <2>1
<1>3. PICK b \in Before : \A a \in Before : <<a, b>> \notin StrictSubsetOrdering(1..N)
  <2> HIDE DEF Before
  <2> QED BY <1>1, <1>2, WFMin
<1>4. PICK i \in T : b = 1..i
  BY <1>3
<1>5. ASSUME NEW j \in T, j < i PROVE FALSE
  <2>1. 1..j \in Before
    OBVIOUS
  <2>2. 1..j \in SUBSET (1..N) /\ b \in SUBSET (1..N)
    <3> HIDE DEF Before
    <3> QED BY <1>2, <1>3, <2>1
  <2>3. 1..j \subseteq b /\ i \in b /\ i \notin 1..j
    BY <1>4, <1>5
  <2>4. <<1..j, b>> \in StrictSubsetOrdering(1..N)
    BY <2>2, <2>3 DEF StrictSubsetOrdering
  <2> QED BY <1>3, <2>1, <2>4
<1> QED BY <1>5

\* While a save is not over, it or one before it can move on.
LEMMA ChainGoesOn ==
    ASSUME Inv, Delivered, NEW k \in DOMAIN saves, ~Finished(saves[k])
    PROVE  Going(k)
<1> DEFINE T == {i \in 1..k : ~Finished(saves[i])}
<1>1. DOMAIN saves = 1..Len(saves) /\ Len(saves) \in Nat
  BY LenProperties DEF Inv, ChainOfSaves
<1>2. k \in Nat /\ T \in SUBSET (1..k) /\ k \in T
  BY <1>1
<1>3. PICK i \in T : \A j \in T : i <= j
  <2> HIDE DEF T
  <2> QED BY <1>2, FirstSave
<1>4. i \in 1..k /\ i \in DOMAIN saves /\ ~Finished(saves[i])
  BY <1>1, <1>3
<1>5. ASSUME NEW j \in 1..(i - 1) PROVE saves[j].state = "done"
  <2>1. j \in 1..k /\ j < i /\ j \in DOMAIN saves
    BY <1>1, <1>4
  <2>2. j \notin T
    BY <1>3, <2>1
  <2>3. Finished(saves[j])
    BY <2>1, <2>2
  <2>4. saves[j].state # "failed"
    BY <1>4, <2>1 DEF Delivered, Finished
  <2> QED BY <2>3, <2>4 DEF Finished
<1>6. saves[i].state \in {"waiting", "sent", "applied", "delayed"}
  BY <1>4 DEF Delivered, Finished
<1> QED BY <1>4, <1>5, <1>6 DEF Going, MovesOn, MyTurn

\* PromisesAreComing: no promise of updateContentSession is forgotten, by a timer
\* that was revoked or by a save that waits for one that is not coming.
THEOREM PromisesComing == Spec => []PromisesAreComing
<1>1. ASSUME Inv, Delivery PROVE PromisesAreComing
  <2> SUFFICES ASSUME NEW n \in 1..calls
               PROVE  \/ waits[n] = Unsettled /\ n \in stack /\ armed
                      \/ waits[n] \in 0..Len(saves) /\ (Settled(n) \/ Going(waits[n]))
    BY DEF PromisesAreComing
  <2>1. CASE waits[n] = Unsettled /\ n \in stack
    BY <1>1, <2>1 DEF Delivery, Listed
  <2>2. CASE waits[n] \in 0..Len(saves)
    <3>1. waits[n] = 0 \/ waits[n] \in DOMAIN saves
      BY <1>1, <2>2, LenProperties DEF Inv, ChainOfSaves
    <3>2. waits[n] # Unsettled
      BY <1>1, <2>2 DEF Unsettled, Inv, ChainOfSaves
    <3>3. CASE waits[n] = 0 \/ Finished(saves[waits[n]])
      BY <2>2, <3>2, <3>3 DEF Settled
    <3>4. CASE waits[n] # 0 /\ ~Finished(saves[waits[n]])
      BY <1>1, <2>2, <3>1, <3>4, ChainGoesOn DEF Delivery
    <3> QED BY <3>3, <3>4
  <2> QED BY <1>1, <2>1, <2>2 DEF Delivery, Listed
<1> QED BY <1>1, ProgressInvariant, DeliveryAlways, PTL

\* LeavingIsSaving: what the learner did on a page that was left is out of the
\* buffer (onBeforeUnmount forces a flush), and as long as no save was rejected
\* each of its saves is recorded or still comes.
THEOREM LeftIsComing == Spec => []LeavingIsSaving
<1>1. ASSUME Inv, Delivery PROVE LeavingIsSaving
  <2>1. ASSUME NEW i \in DOMAIN saves, ~Poisoned, ~Going(i)
        PROVE  \A n \in saves[i].parts : recorded[n] = 1
    <3>1. Finished(saves[i])
      BY <1>1, <2>1, ChainGoesOn DEF Delivery
    <3>2. saves[i].state = "done"
      BY <2>1, <3>1 DEF Finished, Poisoned
    <3> QED BY <1>1, <3>2 DEF Delivery, Delivered
  <2> QED BY <1>1, <2>1 DEF LeavingIsSaving, Delivery, LeftEmpty
<1> QED BY <1>1, ProgressInvariant, DeliveryAlways, PTL

-----------------------------------------------------------------------------
(* The progress of the first session.  If no save fails, the progress that  *)
(* the page shows is what the server has, with the deltas of the saves that *)
(* it has not taken yet and the one of the buffer added, up to Full, and up *)
(* to what was rounded.  Sums over a sequence being out of reach, the       *)
(* invariant has the sums of the deltas as a function that exists.          *)

\* The amounts have their range, and a delta comes with the call that made it.
AmountsOK ==
    /\ progress \in 0..Full /\ summary \in 0..Full /\ post.progress \in 0..Full
    /\ buffer.delta \in 0..Full /\ (buffer.parts = {} => buffer.delta = 0)
    /\ \A i \in DOMAIN saves : saves[i].delta \in 0..Full
    /\ rounded \in Nat

\* Before its first session the page did nothing.
Starting ==
    /\ sessions \in Nat /\ sid \in Nat /\ (sid # 0 => sessions # 0)
    /\ sid = 0 => /\ progress = 0 /\ buffer.delta = 0 /\ buffer.parts = {}
                  /\ saves = <<>> /\ summary = 0 /\ again = 0
                  /\ ~buffer.dirty
    /\ post.state = "served" =>
         /\ sessions # 0 /\ post.session = sessions
         /\ sessions = 1 => sid = 0 /\ post.progress = 0

\* f[i] is the sum of the deltas of the first i saves.
SumsOfDeltas(f) ==
    /\ \A i \in 1..Len(saves) : f[i] = f[i - 1] + saves[i].delta
    /\ \A i, j \in 0..Len(saves) : i <= j => f[i] <= f[j]

\* The server has the first k saves, and none failed.
Taken(k) ==
    \A i \in 1..Len(saves) : /\ i <= k => saves[i].state \in {"applied", "done"}
                             /\ i > k => Unserved(saves[i])

LevelFits ==
    /\ \A i \in 1..Len(saves) : saves[i].complete => summary = Full
    /\ \E f \in [0..Len(saves) -> Nat], k \in 0..Len(saves) :
         /\ SumsOfDeltas(f) /\ Taken(k)
         /\ Near(progress, Lower(Full, summary + (f[Len(saves)] - f[k]) + buffer.delta), rounded)

LevelInv ==
    /\ AmountsOK /\ Starting
    /\ sid # 0 /\ sessions = 1 /\ ~Poisoned => LevelFits

\* With l before it, b leaves the page as near to its progress as it was.
StaysNear(b, p, r) ==
    \A l \in Nat : Near(progress, Lower(Full, l + buffer.delta), rounded)
                     => Near(p, Lower(Full, l + b.delta), r)

\* What a call, or the debounce, does to the progress: b is unsaved before it flushes.
LevelMoves(b, p) ==
    /\ b.delta \in 0..Full /\ (b.parts = {} => b.delta = 0)
    /\ p \in 0..Full /\ progress' = p
    /\ rounded' \in Nat /\ StaysNear(b, p, rounded')
    /\ UNCHANGED <<sid, sessions, summary, post>>
    /\ sid # 0 \/ (b = buffer /\ again' = again /\ p = progress)
    /\ \/ /\ saves' = saves /\ buffer'.delta = b.delta
          /\ buffer'.parts \subseteq b.parts /\ (buffer'.parts = {} => b.delta = 0)
          /\ buffer'.dirty => b.dirty
       \/ /\ HasData(b) /\ buffer'.delta = 0 /\ ~buffer'.dirty
          /\ \E c : saves' = Append(saves, NewSave(b, c))

\* A flush loses no delta: it leaves all of them, or puts all into a save.
LEMMA FlushLevels ==
    ASSUME NEW b, NEW p, NEW c, NEW d, Flush(b, p, c, d), b.parts = {} => b.delta = 0
    PROVE  \/ /\ saves' = saves /\ buffer'.delta = b.delta
              /\ buffer'.parts \subseteq b.parts /\ (buffer'.parts = {} => b.delta = 0)
              /\ buffer'.dirty => b.dirty
           \/ /\ HasData(b) /\ buffer'.delta = 0 /\ ~buffer'.dirty
              /\ \E e : saves' = Append(saves, NewSave(b, e))
<1>1. /\ saves' = IF Worth(b, p) /\ HasData(b) THEN Append(saves, NewSave(b, c)) ELSE saves
      /\ buffer' = IF Worth(b, p) THEN Emptied ELSE b
  BY DEF Flush, Cleared
<1>2. Emptied.delta = 0 /\ Emptied.parts = {} /\ ~Emptied.dirty
  BY DEF Emptied
<1>3. CASE Worth(b, p) /\ HasData(b)
  BY <1>1, <1>2, <1>3
<1>4. CASE Worth(b, p) /\ ~HasData(b)
  BY <1>1, <1>2, <1>4 DEF HasData
<1>5. CASE ~Worth(b, p)
  BY <1>1, <1>5
<1> QED BY <1>3, <1>4, <1>5

\* So does a call of updateContentSession.
LEMMA FinishLevels ==
    ASSUME NEW b, NEW p, NEW c, NEW immediate, Finish(Next1, b, p, c, immediate),
           sid # 0, UNCHANGED <<sid, sessions, summary, post>>,
           b.delta \in 0..Full, b.parts = {} => b.delta = 0, p \in 0..Full,
           rounded' \in Nat, StaysNear(b, p, rounded')
    PROVE  LevelMoves(b, p)
<1>1. /\ progress' = p
      /\ \/ saves' = saves /\ buffer' = b
         \/ Flush(b, p, c, stack \cup {Next1})
  BY DEF Finish, Defer
<1>2. CASE saves' = saves /\ buffer' = b
  BY <1>1, <1>2 DEF LevelMoves
<1>3. CASE Flush(b, p, c, stack \cup {Next1})
  BY <1>1, <1>3, FlushLevels DEF LevelMoves
<1> QED BY <1>1, <1>2, <1>3

\* Progress that is added to both, each rounded up or not, stays near.
LEMMA AddedStaysNear ==
    ASSUME Full \in Nat, NEW P \in 0..Full, NEW D \in 0..Full, NEW l \in Nat, NEW r \in Nat,
           Near(P, Lower(Full, l + D), r), NEW x \in Nat, NEW d \in {0, 1}, NEW e \in {0, 1}
    PROVE  Near(Lower(Full, P + x + e), Lower(Full, l + Lower(Full, D + x + d)), r + d + e)
BY DEF Near, Lower

\* What is left of a sum, with the one before it and the one after it.
LEMMA SameSum ==
    ASSUME NEW F \in Int, NEW a \in Int, NEW A \in Int, NEW d \in Int, NEW left \in Int,
           NEW S \in Int, NEW D \in Int
    PROVE  /\ A = a + d /\ left = F - A => S + (F - a) + D = S + d + left + D
           /\ S + d + left + D = S + d + (left + D)
OBVIOUS

\* A delta that the server takes, rounded up or not, keeps it near what the page shows.
LEMMA ServedStaysNear ==
    ASSUME Full \in Nat, NEW S \in 0..Full, NEW d \in 0..Full, NEW e \in {0, 1}
    PROVE  /\ S = Full => Lower(Full, S + d + e) = Full
           /\ \A P, rest, r \in Nat :
                Near(P, Lower(Full, S + d + rest), r)
                  => Near(P, Lower(Full, Lower(Full, S + d + e) + rest), r + e)
BY DEF Near, Lower

\* Every call of the page, and the debounce.
LEMMA PageLevels ==
    ASSUME Inv, AmountsOK,
           \/ Tick \/ (\E to \in 1..Full : ReachProgress(to)) \/ AddProgress
           \/ SaveContentState \/ (\E item \in Items : Answer(item))
           \/ Stop \/ Unmount \/ Repeat \/ DebounceFires
    PROVE  \E b, p : LevelMoves(b, p)
<1>1. /\ DOMAIN buffer = BufferFields /\ Full \in Nat
      /\ progress \in 0..Full /\ buffer.delta \in 0..Full /\ (buffer.parts = {} => buffer.delta = 0)
      /\ rounded \in Nat
  BY ProgressUnits DEF Inv, PageOK, BufferFields, AmountsOK
<1>2. ASSUME NEW b, DOMAIN b = BufferFields
      PROVE  /\ WithPart(b, Next1).delta = b.delta
             /\ WithPart(b, Next1).parts # {}
  BY <1>2 DEF WithPart, BufferFields
<1>3. \A x : /\ DOMAIN [buffer EXCEPT !.delta = x] = BufferFields
             /\ [buffer EXCEPT !.delta = x].delta = x
             /\ DOMAIN [buffer EXCEPT !.inter = x] = BufferFields
             /\ [buffer EXCEPT !.inter = x].delta = buffer.delta
             /\ DOMAIN [buffer EXCEPT !.dirty = x] = BufferFields
             /\ [buffer EXCEPT !.dirty = x].delta = buffer.delta
             /\ [buffer EXCEPT !.force = x].delta = buffer.delta
             /\ [buffer EXCEPT !.force = x].parts = buffer.parts
  BY <1>1 DEF BufferFields
\* a call that adds no progress
<1>4. ASSUME NEW b, b.delta = buffer.delta, b.parts = {} => b.delta = 0,
             NEW c, NEW immediate, Finish(Next1, b, progress, c, immediate),
             sid # 0, UNCHANGED <<sid, sessions, summary, post, rounded>>
      PROVE  LevelMoves(b, progress)
  <2>1. StaysNear(b, progress, rounded')
    BY <1>4 DEF StaysNear
  <2> QED BY <1>1, <1>4, <2>1, FinishLevels
<1>5. CASE Tick
  <2>1. /\ MayCall /\ Finish(Next1, WithPart(buffer, Next1), progress, content, FALSE)
        /\ UNCHANGED <<sid, sessions, summary, post, rounded>>
    BY <1>5 DEF Tick, Elsewhere, page, server, past
  <2> QED BY <1>1, <1>2, <1>4, <2>1 DEF MayCall
<1>6. ASSUME NEW to \in 1..Full, ReachProgress(to)
      PROVE  \E b, p : LevelMoves(b, p)
  <2>0. PICK e \in Excess :
          /\ Finish(Next1, WithPart([buffer EXCEPT !.delta = ProgressDelta(to, e)], Next1),
                    to, content, FALSE)
          /\ rounded' = rounded + e
    BY <1>6 DEF ReachProgress
  <2> DEFINE b == [buffer EXCEPT !.delta = ProgressDelta(to, e)]
             w == WithPart(b, Next1)
  <2>1. /\ MayCall /\ Finish(Next1, w, to, content, FALSE) /\ to > progress
        /\ UNCHANGED <<sid, sessions, summary, post>>
    BY <1>6, <2>0 DEF ReachProgress, page, server
  <2>2. w.delta = Lower(Full, buffer.delta + to - progress + e) /\ w.parts # {}
    BY <1>2, <1>3 DEF ProgressDelta, RoundUp
  <2> HIDE DEF b, w
  <2>3. w.delta \in 0..Full /\ to \in 0..Full /\ e \in {0, 1} /\ rounded' \in Nat
    BY <1>1, <2>0, <2>1, <2>2 DEF Lower, Excess
  <2>4. ASSUME NEW l \in Nat, Near(progress, Lower(Full, l + buffer.delta), rounded)
        PROVE  Near(to, Lower(Full, l + w.delta), rounded')
    <3>1. Near(to, Lower(Full, l + Lower(Full, buffer.delta + (to - progress) + e)), rounded + e)
      BY <1>1, <2>1, <2>3, <2>4 DEF Lower, Near
    <3> QED BY <1>1, <2>0, <2>2, <2>3, <3>1
  <2>5. StaysNear(w, to, rounded')
    BY <2>4 DEF StaysNear
  <2> QED BY <2>1, <2>2, <2>3, <2>5, FinishLevels DEF MayCall
<1>7. CASE AddProgress
  <2>0. PICK d \in Excess, e \in Excess :
          /\ rounded' = rounded + d + e
          /\ Finish(Next1, WithPart([buffer EXCEPT !.delta = RoundUp(@ + 1, d)], Next1),
                    RoundUp(progress + 1, e), content, FALSE)
    BY <1>7 DEF AddProgress
  <2> DEFINE b == [buffer EXCEPT !.delta = RoundUp(@ + 1, d)]
             w == WithPart(b, Next1)
             p == RoundUp(progress + 1, e)
  <2>1. /\ MayCall /\ Finish(Next1, w, p, content, FALSE)
        /\ UNCHANGED <<sid, sessions, summary, post>>
    BY <1>7, <2>0 DEF AddProgress, page, server
  <2>2. w.delta = Lower(Full, buffer.delta + 1 + d) /\ w.parts # {}
    BY <1>2, <1>3 DEF RoundUp
  <2> HIDE DEF b, w
  <2>3. /\ w.delta \in 0..Full /\ p \in 0..Full /\ p = Lower(Full, progress + 1 + e)
        /\ d \in {0, 1} /\ e \in {0, 1} /\ rounded' \in Nat
    BY <1>1, <2>0, <2>2 DEF Lower, Excess, RoundUp
  <2> HIDE DEF p
  <2>4. ASSUME NEW l \in Nat, Near(progress, Lower(Full, l + buffer.delta), rounded)
        PROVE  Near(p, Lower(Full, l + w.delta), rounded')
    BY <1>1, <2>0, <2>2, <2>3, <2>4, AddedStaysNear
  <2>5. StaysNear(w, p, rounded')
    BY <2>4 DEF StaysNear
  <2> QED BY <2>1, <2>2, <2>3, <2>5, FinishLevels DEF MayCall
<1>8. CASE SaveContentState
  <2> DEFINE b == [buffer EXCEPT !.dirty = TRUE]
  <2>1. /\ MayCall /\ Finish(Next1, WithPart(b, Next1), progress, Next1, FALSE)
        /\ UNCHANGED <<sid, sessions, summary, post, rounded>>
    BY <1>8 DEF SaveContentState, Elsewhere, page, server, past
  <2>2. DOMAIN b = BufferFields /\ b.delta = buffer.delta
    BY <1>3
  <2> HIDE DEF b
  <2> QED BY <1>2, <1>4, <2>1, <2>2 DEF MayCall
<1>9. ASSUME NEW item \in Items, Answer(item)
      PROVE  \E b, p : LevelMoves(b, p)
  <2> DEFINE id == IF attempts[item] = Local THEN None ELSE attempts[item]
             b == [buffer EXCEPT !.inter = Append(@, [item |-> item, id |-> id])]
  <2>1. /\ MayCall /\ Finish(Next1, WithPart(b, Next1), progress, content, id = None)
        /\ UNCHANGED <<sid, sessions, summary, post, rounded>>
    BY <1>9 DEF Answer, Elsewhere, page, server, past
  <2>2. DOMAIN b = BufferFields /\ b.delta = buffer.delta
    BY <1>3
  <2> HIDE DEF b, id
  <2> QED BY <1>2, <1>4, <2>1, <2>2 DEF MayCall
<1>10. CASE Stop \/ Unmount \/ Repeat
  <2> DEFINE b == [buffer EXCEPT !.force = TRUE]
  <2>1. /\ Finish(Next1, b, progress, content, TRUE) /\ sid # 0
        /\ UNCHANGED <<sid, sessions, summary, post, rounded>>
    BY <1>10 DEF Stop, Unmount, Repeat, StopWith, server, past, MayCall
  <2>2. b.parts = buffer.parts /\ b.delta = buffer.delta
    BY <1>3
  <2> HIDE DEF b
  <2> QED BY <1>1, <1>4, <2>1, <2>2
<1>11. CASE DebounceFires
  <2>1. /\ Flush(buffer, progress, content, stack)
        /\ UNCHANGED <<sid, sessions, summary, post, progress, again, rounded>>
    BY <1>11 DEF DebounceFires, shown, Elsewhere, page, server, past
  <2>2. LevelMoves(buffer, progress)
    BY <1>1, <2>1, FlushLevels DEF LevelMoves, StaysNear
  <2> QED BY <2>2
<1> QED BY <1>5, <1>6, <1>7, <1>8, <1>9, <1>10, <1>11

\* The deltas that the server has not taken add up to no less than nothing.
LEMMA SumsLeft ==
    ASSUME Len(saves) \in Nat, NEW f \in [0..Len(saves) -> Nat], NEW k \in 0..Len(saves), SumsOfDeltas(f)
    PROVE  f[Len(saves)] - f[k] \in Nat
<1>1. Len(saves) \in 0..Len(saves) /\ k <= Len(saves)
  OBVIOUS
<1>2. f[k] <= f[Len(saves)] /\ f[k] \in Nat /\ f[Len(saves)] \in Nat
  BY <1>1 DEF SumsOfDeltas
<1> QED BY <1>2

\* What the page does keeps the level.
LEMMA PageFits ==
    ASSUME Inv, LevelInv, NEW b, NEW p, LevelMoves(b, p)
    PROVE  LevelInv'
<1>0. /\ Full \in Nat /\ Len(saves) \in Nat /\ DOMAIN saves = 1..Len(saves) /\ ChainOfSaves
      /\ b.delta \in 0..Full /\ (b.parts = {} => b.delta = 0) /\ p \in 0..Full /\ progress' = p
      /\ UNCHANGED <<sid, sessions, summary, post>>
      /\ sid # 0 \/ (b = buffer /\ again' = again /\ p = progress)
      /\ rounded' \in Nat /\ StaysNear(b, p, rounded')
  BY ProgressUnits, LenProperties DEF Inv, ChainOfSaves, LevelMoves
<1>1. CASE /\ saves' = saves /\ buffer'.delta = b.delta
           /\ buffer'.parts \subseteq b.parts /\ (buffer'.parts = {} => b.delta = 0)
           /\ buffer'.dirty => b.dirty
  <2>1. AmountsOK'
    BY <1>0, <1>1 DEF LevelInv, AmountsOK
  <2>2. Starting'
    <3>1. ASSUME sid = 0
          PROVE  p = 0 /\ buffer'.delta = 0 /\ buffer'.parts = {} /\ ~buffer'.dirty
      <4>1. /\ b = buffer /\ progress = 0 /\ buffer.delta = 0 /\ buffer.parts = {}
            /\ ~buffer.dirty /\ p = progress
        BY <1>0, <3>1 DEF LevelInv, Starting
      <4> QED BY <1>1, <4>1
    <3> QED BY <1>0, <1>1, <3>1 DEF LevelInv, Starting
  <2>3. ASSUME sid # 0, sessions = 1, ~Poisoned'
        PROVE  LevelFits'
    <3>1. ~Poisoned
      BY <1>1, <2>3 DEF Poisoned
    <3>2. PICK f \in [0..Len(saves) -> Nat], k \in 0..Len(saves) :
            /\ SumsOfDeltas(f) /\ Taken(k)
            /\ Near(progress, Lower(Full, summary + (f[Len(saves)] - f[k]) + buffer.delta), rounded)
      BY <2>3, <3>1 DEF LevelInv, LevelFits
    <3>3. Near(p, Lower(Full, summary + (f[Len(saves)] - f[k]) + b.delta), rounded')
      <4>1. summary + (f[Len(saves)] - f[k]) \in Nat
        <5>1. f[Len(saves)] - f[k] \in Nat
          BY <1>0, <3>2, SumsLeft
        <5>2. summary \in Nat
          BY <1>0 DEF LevelInv, AmountsOK
        <5> QED BY <5>1, <5>2
      <4> QED BY <1>0, <3>2, <4>1 DEF StaysNear
    <3>4. SumsOfDeltas(f)' /\ Taken(k)'
      BY <1>1, <3>2 DEF SumsOfDeltas, Taken
    <3>5. \A i \in 1..Len(saves) : saves[i].complete => summary = Full
      BY <2>3, <3>1 DEF LevelInv, LevelFits
    <3>6. Near(progress', Lower(Full, summary + (f[Len(saves)] - f[k]) + buffer'.delta), rounded')
      BY <1>0, <1>1, <3>3
    <3> QED BY <1>0, <1>1, <3>2, <3>4, <3>5, <3>6 DEF LevelFits
  <2> QED BY <1>0, <2>1, <2>2, <2>3 DEF LevelInv
<1>2. ASSUME NEW c, HasData(b), buffer'.delta = 0, ~buffer'.dirty,
             saves' = Append(saves, NewSave(b, c))
      PROVE  LevelInv'
  <2> DEFINE n == Len(saves) + 1
             s == NewSave(b, c)
  <2>1. /\ Len(saves') = n /\ DOMAIN saves' = 1..n /\ saves'[n] = s
        /\ \A i \in 1..Len(saves) : saves'[i] = saves[i]
    BY <1>0, <1>2, AppendedSave
  <2>2. s.delta = b.delta /\ ~s.complete /\ s.state = (IF Poisoned THEN "failed" ELSE "waiting")
    BY DEF NewSave
  <2> HIDE DEF s
  <2>3. sid # 0
    BY <1>0, <1>2 DEF LevelInv, Starting, HasData
  <2>4. AmountsOK'
    BY <1>0, <1>2, <2>1, <2>2 DEF LevelInv, AmountsOK
  <2>5. Starting'
    BY <1>0, <2>3 DEF LevelInv, Starting
  <2>6. ASSUME sessions = 1, ~Poisoned'
        PROVE  LevelFits'
    <3>1. ~Poisoned
      <4>1. SUFFICES ASSUME NEW i \in DOMAIN saves, saves[i].state = "failed" PROVE FALSE
        BY DEF Poisoned
      <4>2. i \in DOMAIN saves' /\ saves'[i].state = "failed"
        BY <1>0, <2>1, <4>1
      <4> QED BY <2>6, <4>2 DEF Poisoned
    <3>2. PICK f \in [0..Len(saves) -> Nat], k \in 0..Len(saves) :
            /\ SumsOfDeltas(f) /\ Taken(k)
            /\ Near(progress, Lower(Full, summary + (f[Len(saves)] - f[k]) + buffer.delta), rounded)
      BY <2>3, <2>6, <3>1 DEF LevelInv, LevelFits
    <3>3. Near(p, Lower(Full, summary + (f[Len(saves)] - f[k]) + b.delta), rounded')
      <4>1. summary + (f[Len(saves)] - f[k]) \in Nat
        <5>1. f[Len(saves)] - f[k] \in Nat
          BY <1>0, <3>2, SumsLeft
        <5>2. summary \in Nat
          BY <1>0 DEF LevelInv, AmountsOK
        <5> QED BY <5>1, <5>2
      <4> QED BY <1>0, <3>2, <4>1 DEF StaysNear
    <3>0. PICK g : g = [i \in 0..n |-> IF i = n THEN f[Len(saves)] + b.delta ELSE f[i]]
      OBVIOUS
    <3>a. /\ n \in Nat /\ Len(saves) \in 0..Len(saves) /\ f[Len(saves)] \in Nat
          /\ f[Len(saves)] + b.delta \in Nat
      BY <1>0, <3>2
    <3>4. /\ g \in [0..n -> Nat] /\ g[n] = f[Len(saves)] + b.delta
          /\ \A i \in 0..Len(saves) : g[i] = f[i]
      <4>1. n \in 0..n /\ \A i \in 0..Len(saves) : i # n /\ i \in 0..n
        BY <1>0
      <4>2. \A i \in 0..n : i = n \/ i \in 0..Len(saves)
        BY <1>0
      <4>3. \A i \in 0..Len(saves) : f[i] \in Nat
        BY <3>2
      <4>4. \A i \in 0..n : g[i] = IF i = n THEN f[Len(saves)] + b.delta ELSE f[i]
        BY <3>0
      <4>5. g \in [0..n -> Nat]
        BY <3>0, <3>a, <4>2, <4>3
      <4> QED BY <4>1, <4>4, <4>5
    <3>5. n \in Nat /\ n - 1 = Len(saves) /\ \A i \in 0..n : i = n \/ i \in 0..Len(saves)
      BY <1>0
    <3> HIDE DEF n
    <3>6. \A i \in 1..n : g[i] = g[i - 1] + saves'[i].delta
      <4>1. \A i \in 1..Len(saves) : f[i] = f[i - 1] + saves[i].delta
        BY <3>2 DEF SumsOfDeltas
      <4>2. \A i \in 1..n : i = n \/ (i \in 1..Len(saves) /\ i - 1 \in 0..Len(saves) /\ i \in 0..Len(saves))
        BY <1>0, <3>5
      <4> QED BY <2>1, <2>2, <3>a, <3>4, <3>5, <4>1, <4>2
    <3>7. \A i, j \in 0..n : i <= j => g[i] <= g[j]
      <4>1. \A i, j \in 0..Len(saves) : i <= j => f[i] <= f[j]
        BY <3>2 DEF SumsOfDeltas
      <4>2. \A i \in 0..Len(saves) : f[i] <= g[n]
        <5>1. ASSUME NEW i \in 0..Len(saves) PROVE f[i] <= g[n]
          <6>1. f[i] <= f[Len(saves)] /\ f[i] \in Nat /\ f[Len(saves)] \in Nat
            BY <1>0, <3>2, <4>1
          <6> QED BY <1>0, <3>4, <6>1
        <5> QED BY <5>1
      <4>3. g[n] <= g[n]
        BY <3>a, <3>4
      <4>4. \A i \in 0..Len(saves) : ~(n <= i)
        BY <1>0, <3>5
      <4> QED BY <3>4, <3>5, <4>1, <4>2, <4>3, <4>4
    <3>8. \A i \in 1..n : saves'[i].complete => summary = Full
      <4>1. \A i \in 1..n : i = n \/ i \in 1..Len(saves)
        BY <1>0, <3>5
      <4>2. \A i \in 1..Len(saves) : saves[i].complete => summary = Full
        BY <2>3, <2>6, <3>1 DEF LevelInv, LevelFits
      <4>3. ASSUME NEW i \in 1..n, saves'[i].complete PROVE summary = Full
        <5>1. i # n
          BY <2>1, <2>2, <4>3
        <5>2. i \in 1..Len(saves)
          BY <4>1, <5>1
        <5>3. saves'[i] = saves[i]
          BY <2>1, <5>2
        <5> QED BY <4>2, <4>3, <5>2, <5>3
      <4> QED BY <4>3
    <3>9. SumsOfDeltas(g)'
      BY <2>1, <3>6, <3>7 DEF SumsOfDeltas
    <3>10. Taken(k)' /\ k \in 0..n /\ g[k] = f[k]
      <4>1. \A i \in 1..n : i = n \/ i \in 1..Len(saves)
        BY <1>0, <3>5
      <4>2. ~(n <= k) /\ k \in 0..n
        BY <1>0, <3>2, <3>5
      <4>3. Unserved(s)
        BY <2>2, <3>1 DEF Unserved
      <4>4. ASSUME NEW i \in 1..n
            PROVE  /\ i <= k => saves'[i].state \in {"applied", "done"}
                   /\ i > k => Unserved(saves'[i])
        <5>1. CASE i = n
          BY <2>1, <4>2, <4>3, <5>1
        <5>2. CASE i # n
          BY <2>1, <3>2, <4>1, <5>2 DEF Taken
        <5> QED BY <5>1, <5>2
      <4>5. Taken(k)'
        BY <2>1, <4>4 DEF Taken, Unserved
      <4> QED BY <3>2, <3>4, <4>2, <4>5
    <3>11. Near(p, Lower(Full, summary + (g[n] - g[k]) + 0), rounded')
      <4>1. /\ summary \in Nat /\ f[k] \in Nat /\ b.delta \in Nat
            /\ summary + (g[n] - g[k]) + 0 = summary + (f[Len(saves)] - f[k]) + b.delta
        <5>1. summary \in Nat
          BY <1>0 DEF LevelInv, AmountsOK
        <5>2. b.delta \in Nat /\ f[k] \in Nat
          BY <1>0, <3>2
        <5>3. g[n] = f[Len(saves)] + b.delta /\ g[k] = f[k]
          BY <3>4, <3>10
        <5> QED BY <3>a, <5>1, <5>2, <5>3
      <4> QED BY <3>3, <4>1
    <3> QED BY <1>0, <1>2, <2>1, <3>4, <3>8, <3>9, <3>10, <3>11 DEF LevelFits
  <2> QED BY <1>0, <2>4, <2>5, <2>6 DEF LevelInv
<1> QED BY <1>1, <1>2 DEF LevelMoves

\* What a step of a save does to the progress: the amounts stay, and the save goes
\* on as one that the server has, or has not, or it fails.
SaveLevel(i) ==
    /\ Len(saves') = Len(saves) /\ DOMAIN saves' = DOMAIN saves
    /\ \A j \in DOMAIN saves : saves'[j].delta = saves[j].delta
    /\ UNCHANGED <<sid, sessions, summary, buffer, post, again, rounded>>
    /\ \/ Poisoned' /\ progress' = progress
       \/ /\ \A j \in DOMAIN saves : j # i => saves'[j] = saves[j]
          /\ saves'[i].complete <=> saves[i].complete
          /\ \/ Unserved(saves[i]) /\ Unserved(saves'[i]) /\ progress' = progress
             \/ /\ saves[i].state = "applied" /\ saves'[i].state = "done"
                /\ progress' = progress \/ (saves[i].complete /\ progress' = Full)

\* A save that is replaced by one with the same amounts.
LEMMA SaveIsLevel ==
    ASSUME Inv, NEW i \in DOMAIN saves, NEW s, SaveIs(i, s), DOMAIN s = SaveFields,
           s.parts = saves[i].parts, s.content = saves[i].content, s.delta = saves[i].delta
    PROVE  /\ Len(saves') = Len(saves) /\ DOMAIN saves' = DOMAIN saves
           /\ saves'[i] = s
           /\ \A j \in DOMAIN saves : j # i => saves'[j] = saves[j]
           /\ \A j \in DOMAIN saves : saves'[j].delta = saves[j].delta
<1>1. SavesKept /\ saves'[i] = s /\ \A j \in DOMAIN saves : j # i => saves'[j] = saves[j]
  BY KeptByExcept DEF Inv
<1>2. \A j \in DOMAIN saves : saves'[j].delta = saves[j].delta
  BY <1>1
<1> QED BY <1>1, <1>2 DEF SavesKept

\* A save that is rejected keeps its amounts, and has failed.
LEMMA RejectedLevel ==
    ASSUME Inv, NEW i \in DOMAIN saves, saves' = Rejected(i), saves[i].state # "done",
           progress' = progress, UNCHANGED <<sid, sessions, summary, buffer, post, again, rounded>>
    PROVE  SaveLevel(i)
<1>1. Len(saves') = Len(saves) /\ DOMAIN saves' = DOMAIN saves
  BY RejectedMoves DEF SavesKept
<1>2. \A j \in DOMAIN saves : DOMAIN saves[j] = SaveFields
  BY DEF Inv, ChainOfSaves
<1>3. \A j \in DOMAIN saves :
        saves'[j] = saves[j] \/ saves'[j] = [saves[j] EXCEPT !.state = "failed"]
  BY DEF Rejected
<1>4. \A j \in DOMAIN saves : saves'[j].delta = saves[j].delta
  BY <1>2, <1>3 DEF SaveFields
<1>5. saves'[i].state = "failed"
  <2>1. saves'[i] = [saves[i] EXCEPT !.state = "failed"]
    BY DEF Rejected
  <2> QED BY <1>2, <2>1 DEF SaveFields
<1>6. Poisoned'
  BY <1>1, <1>5 DEF Poisoned
<1> QED BY <1>1, <1>4, <1>6 DEF SaveLevel

\* Every step of a save but the one of the server.
LEMMA SaveLevels ==
    ASSUME Inv, NEW i \in DOMAIN saves, Save(i)
    PROVE  SaveLevel(i)
<1>1. DOMAIN saves[i] = SaveFields
  BY DEF Inv, ChainOfSaves
\* one that goes on unserved
<1>2. ASSUME NEW s, SaveIs(i, s), DOMAIN s = SaveFields,
             s.parts = saves[i].parts, s.content = saves[i].content, s.delta = saves[i].delta,
             s.complete = saves[i].complete, Unserved(saves[i]), Unserved(s), progress' = progress,
             UNCHANGED <<sid, sessions, summary, buffer, post, again, rounded>>
      PROVE  SaveLevel(i)
  <2>1. /\ Len(saves') = Len(saves) /\ DOMAIN saves' = DOMAIN saves
        /\ saves'[i] = s
        /\ \A j \in DOMAIN saves : j # i => saves'[j] = saves[j]
        /\ \A j \in DOMAIN saves : saves'[j].delta = saves[j].delta
    BY <1>2, SaveIsLevel
  <2>2. Unserved(saves'[i]) /\ (saves'[i].complete <=> saves[i].complete)
    BY <1>2, <2>1
  <2> QED BY <1>2, <2>1, <2>2 DEF SaveLevel
<1>3. CASE SendSave(i)
  <2> DEFINE s == [saves[i] EXCEPT !.state = "sent", !.session = sid, !.tries = @ + 1]
  <2>1. /\ SaveIs(i, s) /\ saves[i].state \in {"waiting", "delayed"} /\ progress' = progress
        /\ UNCHANGED <<sid, sessions, summary, buffer, post, again, rounded>>
    BY <1>3 DEF SendSave, Quiet, page, shown, unsent, server, past
  <2>2. /\ DOMAIN s = SaveFields /\ s.parts = saves[i].parts /\ s.content = saves[i].content
        /\ s.delta = saves[i].delta /\ s.complete = saves[i].complete /\ s.state = "sent"
    BY <1>1 DEF SaveFields
  <2> HIDE DEF s
  <2> QED BY <1>2, <2>1, <2>2 DEF Unserved
<1>4. CASE SaveBusy(i)
  <2> DEFINE s == [saves[i] EXCEPT !.state = "delayed"]
  <2>1. /\ SaveIs(i, s) \/ saves' = Rejected(i)
        /\ saves[i].state = "sent" /\ progress' = progress
        /\ UNCHANGED <<sid, sessions, summary, buffer, post, again, rounded>>
    BY <1>4 DEF SaveBusy, SaveIs, Quiet, page, shown, unsent, server, past
  <2>2. /\ DOMAIN s = SaveFields /\ s.parts = saves[i].parts /\ s.content = saves[i].content
        /\ s.delta = saves[i].delta /\ s.complete = saves[i].complete /\ s.state = "delayed"
    BY <1>1 DEF SaveFields
  <2> HIDE DEF s
  <2>3. Unserved(saves[i]) /\ Unserved(s)
    BY <2>1, <2>2 DEF Unserved
  <2> QED BY <1>2, <2>1, <2>2, <2>3, RejectedLevel
<1>5. CASE SaveLost(i) \/ SaveRefused(i)
  <2>1. /\ saves' = Rejected(i) /\ saves[i].state # "done" /\ progress' = progress
        /\ UNCHANGED <<sid, sessions, summary, buffer, post, again, rounded>>
    BY <1>5 DEF SaveLost, SaveRefused, Quiet, page, shown, unsent, server, past
  <2> QED BY <2>1, RejectedLevel
<1>6. CASE SaveAnswered(i)
  <2> DEFINE s == [saves[i] EXCEPT !.state = "done"]
  <2>1. /\ \/ saves' = Rejected(i) /\ progress' = progress
           \/ SaveIs(i, s) /\ progress' = IF saves[i].complete THEN Full ELSE progress
        /\ saves[i].state = "applied"
        /\ UNCHANGED <<sid, sessions, summary, buffer, post, again, rounded>>
    BY <1>6 DEF SaveAnswered, page, unsent, server, past
  <2>2. /\ DOMAIN s = SaveFields /\ s.parts = saves[i].parts /\ s.content = saves[i].content
        /\ s.delta = saves[i].delta /\ s.complete = saves[i].complete /\ s.state = "done"
    BY <1>1 DEF SaveFields
  <2> HIDE DEF s
  <2>3. CASE SaveIs(i, s) /\ progress' = IF saves[i].complete THEN Full ELSE progress
    <3>1. /\ Len(saves') = Len(saves) /\ DOMAIN saves' = DOMAIN saves
          /\ saves'[i] = s
          /\ \A j \in DOMAIN saves : j # i => saves'[j] = saves[j]
          /\ \A j \in DOMAIN saves : saves'[j].delta = saves[j].delta
      BY <2>2, <2>3, SaveIsLevel
    <3>2. saves'[i].state = "done" /\ (saves'[i].complete <=> saves[i].complete)
      BY <2>2, <3>1
    <3>3. progress' = progress \/ (saves[i].complete /\ progress' = Full)
      BY <2>3
    <3> QED BY <2>1, <3>1, <3>2, <3>3 DEF SaveLevel
  <2> QED BY <2>1, <2>3, RejectedLevel
<1> QED BY <1>3, <1>4, <1>5, <1>6 DEF Save

\* A save that goes on, or fails, keeps the level.
LEMMA SaveFits ==
    ASSUME Inv, LevelInv, NEW i \in DOMAIN saves, SaveLevel(i)
    PROVE  LevelInv'
<1>0. /\ Full \in Nat /\ Len(saves) \in Nat /\ DOMAIN saves = 1..Len(saves)
      /\ Len(saves') = Len(saves) /\ DOMAIN saves' = DOMAIN saves
      /\ \A j \in DOMAIN saves : saves'[j].delta = saves[j].delta
      /\ UNCHANGED <<sid, sessions, summary, buffer, post, again, rounded>>
  BY ProgressUnits, LenProperties DEF Inv, ChainOfSaves, SaveLevel
<1>1. progress' = progress \/ progress' = Full
  BY DEF SaveLevel
<1>2. AmountsOK'
  BY <1>0, <1>1 DEF LevelInv, AmountsOK
<1>3. sid # 0
  BY <1>0 DEF LevelInv, Starting
<1>4. Starting'
  BY <1>0, <1>3 DEF LevelInv, Starting
<1>5. ASSUME sessions = 1, ~Poisoned'
      PROVE  LevelFits'
  <2>1. /\ \A j \in DOMAIN saves : j # i => saves'[j] = saves[j]
        /\ saves'[i].complete <=> saves[i].complete
        /\ \/ Unserved(saves[i]) /\ Unserved(saves'[i]) /\ progress' = progress
           \/ /\ saves[i].state = "applied" /\ saves'[i].state = "done"
              /\ progress' = progress \/ (saves[i].complete /\ progress' = Full)
    BY <1>5 DEF SaveLevel
  <2>2. ~Poisoned
    <3>1. SUFFICES ASSUME NEW j \in DOMAIN saves, saves[j].state = "failed" PROVE FALSE
      BY DEF Poisoned
    <3>2. j # i
      BY <2>1, <3>1 DEF Unserved
    <3>3. j \in DOMAIN saves' /\ saves'[j].state = "failed"
      BY <1>0, <2>1, <3>1, <3>2
    <3> QED BY <1>5, <3>3 DEF Poisoned
  <2>3. PICK f \in [0..Len(saves) -> Nat], k \in 0..Len(saves) :
          /\ SumsOfDeltas(f) /\ Taken(k)
          /\ Near(progress, Lower(Full, summary + (f[Len(saves)] - f[k]) + buffer.delta), rounded)
    BY <1>3, <1>5, <2>2 DEF LevelInv, LevelFits
  <2>3a. \A j \in 1..Len(saves) : saves[j].complete => summary = Full
    BY <1>3, <1>5, <2>2 DEF LevelInv, LevelFits
  <2>4. \A j \in 1..Len(saves) : saves'[j].complete => summary' = Full
    <3>1. ASSUME NEW j \in 1..Len(saves), saves'[j].complete PROVE saves[j].complete
      <4>1. CASE j = i
        BY <2>1, <3>1, <4>1
      <4>2. CASE j # i
        BY <1>0, <2>1, <3>1, <4>2
      <4> QED BY <4>1, <4>2
    <3> QED BY <1>0, <2>3a, <3>1
  <2>5. SumsOfDeltas(f)'
    BY <1>0, <2>3 DEF SumsOfDeltas
  <2>6. Taken(k)'
    <3>1. ASSUME NEW j \in 1..Len(saves)
          PROVE  /\ j <= k => saves'[j].state \in {"applied", "done"}
                 /\ j > k => Unserved(saves'[j])
      <4>1. CASE j = i
        BY <2>1, <2>3, <3>1, <4>1 DEF Taken, Unserved
      <4>2. CASE j # i
        BY <1>0, <2>1, <2>3, <3>1, <4>2 DEF Taken
      <4> QED BY <4>1, <4>2
    <3> QED BY <1>0, <3>1 DEF Taken, Unserved
  <2>7. Near(progress', Lower(Full, summary + (f[Len(saves)] - f[k]) + buffer.delta), rounded)
    <3>1. CASE progress' = progress
      BY <2>3, <3>1
    <3>2. CASE saves[i].complete /\ progress' = Full
      <4>1. summary = Full
        BY <1>0, <2>3a, <3>2
      <4>2. f[Len(saves)] - f[k] \in Nat
        BY <1>0, <2>3, SumsLeft
      <4>3. buffer.delta \in 0..Full /\ rounded \in Nat
        BY DEF LevelInv, AmountsOK
      <4> HIDE DEF LevelInv
      <4>4. Lower(Full, summary + (f[Len(saves)] - f[k]) + buffer.delta) = Full
        BY <1>0, <4>1, <4>2, <4>3 DEF Lower
      <4> QED BY <1>0, <3>2, <4>3, <4>4 DEF Near
    <3> QED BY <2>1, <3>1, <3>2
  <2> QED BY <1>0, <2>3, <2>4, <2>5, <2>6, <2>7 DEF LevelFits
<1> QED BY <1>0, <1>2, <1>4, <1>5 DEF LevelInv

\* The server adds the delta of the first save that it has not taken.
LEMMA ServeFits ==
    ASSUME Inv, LevelInv, NEW i \in DOMAIN saves, ServeSave(i)
    PROVE  LevelInv'
<1> DEFINE done == summary' = Full
           out == Attempted(saves[i]).out
           s == [saves[i] EXCEPT !.state = "applied", !.complete = done, !.out = out]
<1>0. PICK e \in Excess :
        summary' = RoundUp(summary + saves[i].delta, e) /\ rounded' = rounded + e
  BY DEF ServeSave
<1>1. /\ SaveIs(i, s) /\ saves[i].state = "sent"
      /\ summary' = Lower(Full, summary + saves[i].delta + e)
      /\ e \in {0, 1} /\ rounded' = rounded + e
      /\ UNCHANGED <<sid, sessions, progress, buffer, post, again>>
  BY <1>0 DEF ServeSave, page, shown, unsent, RoundUp, Excess
<1> HIDE DEF done, out
<1>2. DOMAIN saves[i] = SaveFields /\ \A j \in 1..(i - 1) : saves[j].state = "done"
  BY <1>1, BeforeIsDone DEF Inv, ChainOfSaves
<1>3. /\ DOMAIN s = SaveFields /\ s.parts = saves[i].parts /\ s.content = saves[i].content
      /\ s.delta = saves[i].delta /\ s.state = "applied" /\ s.complete = done
  BY <1>2 DEF SaveFields
<1> HIDE DEF s
<1>4. /\ Full \in Nat /\ Len(saves) \in Nat /\ DOMAIN saves = 1..Len(saves)
      /\ Len(saves') = Len(saves) /\ DOMAIN saves' = DOMAIN saves
      /\ saves'[i] = s
      /\ \A j \in DOMAIN saves : j # i => saves'[j] = saves[j]
      /\ \A j \in DOMAIN saves : saves'[j].delta = saves[j].delta
  BY <1>1, <1>3, SaveIsLevel, ProgressUnits, LenProperties DEF Inv, ChainOfSaves
<1>5. AmountsOK'
  <2>1. summary' \in 0..Full /\ rounded' \in Nat
    BY <1>1, <1>4 DEF LevelInv, AmountsOK, Lower
  <2> QED BY <1>1, <1>4, <2>1 DEF LevelInv, AmountsOK
<1>6. sid # 0
  BY <1>4 DEF LevelInv, Starting
<1>7. Starting'
  BY <1>1, <1>6 DEF LevelInv, Starting
<1>8. ASSUME sessions = 1, ~Poisoned'
      PROVE  LevelFits'
  <2>1. ~Poisoned
    <3>1. SUFFICES ASSUME NEW j \in DOMAIN saves, saves[j].state = "failed" PROVE FALSE
      BY DEF Poisoned
    <3>2. j \in DOMAIN saves' /\ saves'[j].state = "failed"
      BY <1>1, <1>4, <3>1
    <3> QED BY <1>8, <3>2 DEF Poisoned
  <2>2. PICK f \in [0..Len(saves) -> Nat], k \in 0..Len(saves) :
          /\ SumsOfDeltas(f) /\ Taken(k)
          /\ Near(progress, Lower(Full, summary + (f[Len(saves)] - f[k]) + buffer.delta), rounded)
    BY <1>6, <1>8, <2>1 DEF LevelInv, LevelFits
  <2>3. k = i - 1
    <3>1. ~(i <= k)
      BY <1>1, <1>4, <2>2 DEF Taken
    <3>2. ~(k < i - 1)
      <4>1. SUFFICES ASSUME k + 1 \in 1..(i - 1) PROVE FALSE
        BY <1>4, <2>2
      <4>2. k + 1 \in 1..Len(saves) /\ k + 1 > k
        BY <1>4, <2>2, <4>1
      <4>3. Unserved(saves[k + 1]) /\ saves[k + 1].state = "done"
        BY <1>2, <2>2, <4>1, <4>2 DEF Taken
      <4> QED BY <4>3 DEF Unserved
    <3> QED BY <1>4, <2>2, <3>1, <3>2
  <2>4. /\ f[i] = f[k] + saves[i].delta /\ saves[i].delta \in 0..Full /\ summary \in 0..Full
        /\ progress \in 0..Full /\ buffer.delta \in 0..Full /\ rounded \in Nat
        /\ i \in 0..Len(saves) /\ f[k] \in Nat /\ f[i] \in Nat /\ f[Len(saves)] \in Nat
    <3>1. i \in 1..Len(saves) /\ i \in 0..Len(saves) /\ Len(saves) \in 0..Len(saves)
      BY <1>4
    <3>2. f[i] = f[i - 1] + saves[i].delta
      BY <2>2, <3>1 DEF SumsOfDeltas
    <3>3. f[k] \in Nat /\ f[i] \in Nat /\ f[Len(saves)] \in Nat
      BY <2>2, <3>1
    <3>4. /\ saves[i].delta \in 0..Full /\ summary \in 0..Full
          /\ progress \in 0..Full /\ buffer.delta \in 0..Full /\ rounded \in Nat
      BY DEF LevelInv, AmountsOK
    <3> QED BY <2>3, <3>1, <3>2, <3>3, <3>4
  <2>5. \A j \in 1..Len(saves) : saves'[j].complete => summary' = Full
    <3>1. \A j \in 1..Len(saves) : saves[j].complete => summary = Full
      BY <1>6, <1>8, <2>1 DEF LevelInv, LevelFits
    <3>2. saves'[i].complete => summary' = Full
      BY <1>3, <1>4 DEF done
    <3>3. summary = Full => summary' = Full
      BY <1>1, <1>4, <2>4, ServedStaysNear
    <3> QED BY <1>4, <3>1, <3>2, <3>3
  <2>6. SumsOfDeltas(f)'
    BY <1>4, <2>2 DEF SumsOfDeltas
  <2>7. Taken(i)'
    <3>1. ASSUME NEW j \in 1..Len(saves)
          PROVE  /\ j <= i => saves'[j].state \in {"applied", "done"}
                 /\ j > i => Unserved(saves'[j])
      <4>1. CASE j = i
        BY <1>3, <1>4, <4>1
      <4>2. CASE j < i
        BY <1>2, <1>4, <3>1, <4>2
      <4>3. CASE j > i
        BY <1>4, <2>2, <2>3, <3>1, <4>3 DEF Taken
      <4> QED BY <1>4, <3>1, <4>1, <4>2, <4>3
    <3> QED BY <1>4, <3>1 DEF Taken, Unserved
  <2>8. Near(progress, Lower(Full, summary' + (f[Len(saves)] - f[i]) + buffer.delta), rounded')
    <3>0. saves[i].delta \in Nat /\ summary \in Nat /\ buffer.delta \in Nat
      BY <1>4, <2>4
    <3>1. f[Len(saves)] - f[i] \in Nat
      BY <1>4, <2>2, <2>4, SumsLeft
    <3>2. PICK left \in Nat : left = f[Len(saves)] - f[i]
      BY <3>1
    <3>3. Near(progress, Lower(Full, summary + saves[i].delta + left + buffer.delta), rounded)
      <4>1. summary + (f[Len(saves)] - f[k]) + buffer.delta
              = summary + saves[i].delta + left + buffer.delta
        BY <2>4, <3>0, <3>2, SameSum
      <4> QED BY <2>2, <4>1
    <3>4. left + buffer.delta \in Nat /\ progress \in Nat
      BY <1>4, <2>4, <3>2
    <3>5. Near(progress, Lower(Full, summary + saves[i].delta + (left + buffer.delta)), rounded)
      <4>1. summary + saves[i].delta + left + buffer.delta
              = summary + saves[i].delta + (left + buffer.delta)
        BY <3>0, <3>2, SameSum
      <4> QED BY <3>3, <4>1
    <3>6. Near(progress, Lower(Full, Lower(Full, summary + saves[i].delta + e) + (left + buffer.delta)),
               rounded + e)
      BY <1>1, <1>4, <2>4, <3>4, <3>5, ServedStaysNear
    <3>7. summary' \in Int
      BY <1>5 DEF AmountsOK
    <3>8. summary' + (left + buffer.delta) = summary' + (f[Len(saves)] - f[i]) + buffer.delta
      <4>1. /\ f[Len(saves)] \in Int /\ f[i] \in Int /\ buffer.delta \in Int
            /\ left = f[Len(saves)] - f[i]
        BY <2>4, <3>0, <3>2
      <4>2. PICK F, A, D, S \in Int :
              F = f[Len(saves)] /\ A = f[i] /\ D = buffer.delta /\ S = summary'
        BY <3>7, <4>1
      <4>3. left = F - A
        BY <4>1, <4>2
      <4>4. S + (left + D) = S + (F - A) + D
        BY <4>3
      <4> QED BY <4>2, <4>4
    <3> QED BY <1>1, <3>6, <3>8
  <2> QED BY <1>1, <1>4, <2>2, <2>4, <2>5, <2>6, <2>7, <2>8 DEF LevelFits
<1> QED BY <1>1, <1>5, <1>7, <1>8 DEF LevelInv

\* A session begins with what the server has, and the second one is another matter.
LEMMA SessionFits ==
    ASSUME Inv, LevelInv,
           StartTracking \/ StartSession \/ ServeSession \/ SessionStarted \/ SessionLost
              \/ UNCHANGED vars
    PROVE  LevelInv'
<1>1. /\ DOMAIN post = {"state", "session", "progress", "content", "attempts"}
      /\ DOMAIN buffer = BufferFields /\ Full \in Nat
  BY ProgressUnits DEF Inv, PageOK, BufferFields
\* what leaves the amounts alone
<1>2. ASSUME UNCHANGED <<progress, summary, buffer, saves, sid, sessions, rounded>>,
             post'.progress = post.progress, post'.session = post.session,
             post'.state # "served" \/ post' = post, again' \in {0, again}
      PROVE  LevelInv'
  <2>1. AmountsOK' /\ Starting'
    BY <1>2 DEF LevelInv, AmountsOK, Starting
  <2>2. LevelFits => LevelFits'
    BY <1>2 DEF LevelFits, SumsOfDeltas, Taken, Unserved
  <2>3. Poisoned' = Poisoned
    BY <1>2 DEF Poisoned
  <2> QED BY <1>2, <2>1, <2>2, <2>3 DEF LevelInv
<1>3. CASE StartTracking \/ UNCHANGED vars
  <2>1. UNCHANGED <<progress, summary, buffer, saves, sid, sessions, post, again, rounded>>
    BY <1>3 DEF StartTracking, vars, page, shown, unsent, server, past
  <2> QED BY <1>2, <2>1
<1>4. CASE StartSession \/ SessionLost
  <2>1. /\ UNCHANGED <<progress, summary, buffer, saves, sid, sessions, rounded>>
        /\ again' \in {0, again}
        /\ post' = [post EXCEPT !.state = "sent"] \/ post' = [post EXCEPT !.state = "none"]
    BY <1>4 DEF StartSession, SessionLost, page, shown, unsent, server, past
  <2>2. post'.progress = post.progress /\ post'.session = post.session /\ post'.state # "served"
    BY <1>1, <2>1
  <2> QED BY <1>2, <2>1, <2>2
<1>5. CASE ServeSession
  <2>1. /\ sessions' = sessions + 1 /\ UNCHANGED <<progress, buffer, saves, sid, again, rounded>>
        /\ summary' = IF sessions = 0 THEN summary ELSE 0
        /\ post'.state = "served" /\ post'.session = sessions + 1 /\ post'.progress = summary'
    BY <1>5 DEF ServeSession, page, shown, unsent, past
  <2>2. AmountsOK'
    BY <1>1, <2>1 DEF LevelInv, AmountsOK
  <2>3. Starting'
    BY <2>1 DEF LevelInv, Starting
  <2>4. ~(sid' # 0 /\ sessions' = 1)
    BY <2>1 DEF LevelInv, Starting
  <2> QED BY <2>2, <2>3, <2>4 DEF LevelInv
<1>6. CASE SessionStarted
  <2>1. /\ post.state = "served" /\ UNCHANGED <<saves, sessions, summary, again, rounded>>
        /\ post' = [post EXCEPT !.state = "none"] /\ sid' = post.session
        /\ progress' = post.progress
        /\ buffer' = [buffer EXCEPT !.delta = 0, !.parts = {}, !.inter = <<>>]
    BY <1>6 DEF SessionStarted, server
  <2>2. post'.state = "none" /\ post'.progress = post.progress
        /\ buffer'.delta = 0 /\ buffer'.parts = {}
    BY <1>1, <2>1 DEF BufferFields
  <2>3. AmountsOK'
    BY <1>1, <2>1, <2>2 DEF LevelInv, AmountsOK
  <2>4. sid' = sessions /\ sessions # 0 /\ sessions \in Nat
        /\ (sessions = 1 => sid = 0 /\ post.progress = 0)
    BY <2>1 DEF LevelInv, Starting
  <2>5. Starting'
    BY <2>1, <2>2, <2>4 DEF Starting
  <2>6. ASSUME sessions = 1
        PROVE  LevelFits'
    <3>1. saves' = <<>> /\ summary' = 0 /\ progress' = 0
      BY <2>1, <2>4, <2>6 DEF LevelInv, Starting
    <3>2. Len(saves') = 0
      BY <3>1
    <3>3. PICK f : f = [j \in 0..0 |-> 0]
      OBVIOUS
    <3>4. f \in [0..0 -> Nat] /\ f[0] = 0 /\ 0 \in 0..0
      BY <1>1, <3>3
    <3>5. SumsOfDeltas(f)' /\ Taken(0)'
      BY <3>2, <3>4 DEF SumsOfDeltas, Taken
    <3>6. Near(0, Lower(Full, 0 + (f[0] - f[0]) + 0), rounded')
      BY <1>1, <2>3, <3>4 DEF Lower, Near, AmountsOK
    <3> QED BY <2>2, <3>1, <3>2, <3>4, <3>5, <3>6 DEF LevelFits
  <2> QED BY <2>1, <2>3, <2>5, <2>6 DEF LevelInv
<1> QED BY <1>3, <1>4, <1>5, <1>6

\* The level holds in every state.
THEOREM ProgressLevel == Spec => []LevelInv
<1>1. Init => LevelInv
  <2> SUFFICES ASSUME Init PROVE LevelInv
    OBVIOUS
  <2>1. /\ progress = 0 /\ summary = 0 /\ sessions = 0 /\ sid = 0 /\ saves = <<>> /\ again = 0
        /\ post.progress = 0 /\ post.state = "sent" /\ buffer.delta = 0 /\ buffer.parts = {}
        /\ Full \in Nat /\ rounded = 0 /\ ~buffer.dirty
    BY ProgressUnits DEF Init, Emptied
  <2> QED BY <2>1 DEF LevelInv, AmountsOK, Starting
<1>2. Inv /\ LevelInv /\ [Next]_vars => LevelInv'
  <2> SUFFICES ASSUME Inv, LevelInv, [Next]_vars PROVE LevelInv'
    OBVIOUS
  <2>1. CASE \/ Tick \/ (\E to \in 1..Full : ReachProgress(to)) \/ AddProgress
             \/ SaveContentState \/ (\E item \in Items : Answer(item))
             \/ Stop \/ Unmount \/ Repeat \/ DebounceFires
    <3>1. AmountsOK
      BY DEF LevelInv
    <3> QED BY <2>1, <3>1, PageLevels, PageFits
  <2>2. CASE StartTracking \/ StartSession \/ ServeSession \/ SessionStarted \/ SessionLost
              \/ UNCHANGED vars
    BY <2>2, SessionFits
  <2>3. ASSUME NEW i \in DOMAIN saves, Save(i) PROVE LevelInv'
    BY <2>3, SaveLevels, SaveFits
  <2>4. ASSUME NEW i \in DOMAIN saves, ServeSave(i) PROVE LevelInv'
    BY <2>4, ServeFits
  <2> QED BY <2>1, <2>2, <2>3, <2>4 DEF Next
<1> QED BY <1>1, <1>2, ProgressInvariant, PTL DEF Spec

\* When all saves of the first session are done and nothing is unsaved, the server
\* has the progress that the page shows, but for what was rounded up on the way,
\* whatever was debounced, held back under the thresholds, capped or sent again.
THEOREM ProgressArrives == Spec => []ServerKnowsProgress
<1>1. LevelInv /\ Inv => ServerKnowsProgress
  <2> SUFFICES ASSUME LevelInv, Inv, sid = 1, sessions = 1, buffer.delta = 0,
                      \A i \in DOMAIN saves : saves[i].state = "done"
               PROVE  Near(summary, progress, rounded)
    BY DEF ServerKnowsProgress
  <2>1. Full \in Nat /\ Len(saves) \in Nat /\ DOMAIN saves = 1..Len(saves)
    BY ProgressUnits, LenProperties DEF Inv, ChainOfSaves
  <2>2. ~Poisoned
    BY DEF Poisoned
  <2>3. PICK f \in [0..Len(saves) -> Nat], k \in 0..Len(saves) :
          /\ SumsOfDeltas(f) /\ Taken(k)
          /\ Near(progress, Lower(Full, summary + (f[Len(saves)] - f[k]) + buffer.delta), rounded)
    <3>1. sid # 0
      OBVIOUS
    <3>2. LevelFits
      BY <2>2, <3>1 DEF LevelInv
    <3> QED BY <3>2 DEF LevelFits
  <2>4. k = Len(saves)
    <3>1. ASSUME k < Len(saves) PROVE FALSE
      <4>1. Len(saves) \in 1..Len(saves) /\ Len(saves) > k
        BY <2>1, <2>3, <3>1
      <4>2. Unserved(saves[Len(saves)]) /\ saves[Len(saves)].state = "done"
        BY <2>1, <2>3, <4>1 DEF Taken
      <4> QED BY <4>2 DEF Unserved
    <3>2. ASSUME NEW n \in Nat, k \in 0..n, ~(k < n) PROVE k = n
      BY <3>2
    <3> QED BY <2>1, <2>3, <3>1, <3>2
  <2>5. summary \in 0..Full /\ progress \in 0..Full /\ rounded \in Nat /\ f[Len(saves)] \in Nat
    BY <2>1, <2>3 DEF LevelInv, AmountsOK
  <2>6. Lower(Full, summary + (f[Len(saves)] - f[k]) + buffer.delta) = summary
    BY <2>1, <2>4, <2>5 DEF Lower
  <2> QED BY <2>1, <2>3, <2>5, <2>6 DEF Near
<1> QED BY <1>1, ProgressLevel, ProgressInvariant, PTL
=============================================================================
