------------------------- MODULE HashiSandboxProofs -------------------------
(***************************************************************************)
(* Theorems about the sandbox of HTML5 apps.                               *)
(*                                                                         *)
(* That the window of the page has the data of the app (InStep), and that  *)
(* an app starts with all it left (StartsFromNewest), rest on where the    *)
(* three signals of the start can be: while a client has an IFRAMEREADY    *)
(* or a MAINREADY under way, no other of them is, and no app runs in its   *)
(* frame.  So data are only sent in one direction at a time, and the last  *)
(* that is under way in a direction is the newest.  That holds when one    *)
(* client is open at a time (~Overlays), for the clients that heard of     *)
(* their environment once.  The same condition makes the open client the   *)
(* last that tells the host what to save.                                  *)
(*                                                                         *)
(* That what is waited for is under way (StartIsComing, AnswersAreComing)  *)
(* needs no condition.  The last theorem says when the app reads what it   *)
(* has written (ReadsAreRight).                                            *)
(***************************************************************************)
EXTENDS HashiSandbox, SequenceTheorems, TLAPS

-----------------------------------------------------------------------------
(* The inductive invariant.                                                *)

\* The clients are opened one at a time, and nothing of another client is under
\* way to the window then.
Alone ==
    \A c, d \in Clients : open[c] \in {"mounting", "open"} /\ d # c
        => open[d] \in {"no", "left"} /\ toMain[d] = <<>>

\* The clients that listen are those that were made.
Made == \A c \in Clients : c \in Listening <=> open[c] \in {"open", "left"}

\* What has not begun yet, and what has ended, has no frame and no messages.
Phases ==
    \A c \in Clients :
        /\ open[c] \in {"no", "left"} => frame[c] = "none"
        /\ open[c] = "mounting" => frame[c] \in {"none", "env"}
        /\ open[c] # "open" => toFrame[c] = <<>>
        /\ open[c] = "no" => toMain[c] = <<>>
        /\ open[c] = "mounting" => toMain[c] \in {<<>>, <<IframeReady>>}
        /\ open[c] = "mounting" /\ frame[c] = "none" => toMain[c] = <<>>
        /\ open[c] \in {"no", "mounting"} => saved[c] = written[c]

Ready == {"stateUpdate", "iframeReady", "mainReady"}

\* no message with data, nor a second such signal, comes after the signal e
Ends(msgs, e) ==
    \A m, n \in DOMAIN msgs : m < n /\ msgs[m].event = e => msgs[n].event \notin Ready

Quiet(msgs) == \A n \in DOMAIN msgs : msgs[n].event \notin Ready

Told(msgs, e) == \E n \in DOMAIN msgs : msgs[n].event = e

\* The signals of the start of a client are under way one at a time: f is what its
\* frame does, down and up are what is under way to the frame and to the window.
Signals(f, down, up) ==
    /\ f \in {"page", "app"} => Quiet(down)
    /\ f \in {"page", "app"} \/ Told(down, "mainReady") => ~Told(up, "iframeReady")
    /\ Ends(down, "mainReady") /\ Ends(up, "iframeReady")

\* What the client has, m, or is being told, is what the app left, w; so is what
\* the frame has, d, or is being told, when the app is about to run, and what it
\* has when the app runs, but for what refused sets left.
Newest(f, down, up, m, d, w) ==
    /\ \A s \in Names : Settles(up, s, m[s], w[s])
    /\ f = "page" \/ (f = "env" /\ Told(down, "mainReady"))
         => \A s \in Names : Settles(down, s, d[s], w[s])
    /\ f = "app" => \A s \in Names : ButForRefused(s, d[s], w[s])

Fits(f, down, up, m, d, w) == Signals(f, down, up) /\ Newest(f, down, up, m, d, w)

OneStart ==
    \A c \in Clients : Live(c) /\ ~doubled[c]
        => Fits(frame[c], toFrame[c], toMain[c], main[c], data[c], written[c])

Quieted(msgs) == \A n \in DOMAIN msgs : ~Tells(msgs[n])

\* What the host saves, or will save when the messages to the window have arrived,
\* is what its client has, since that client is the last of those that listen and
\* tell the window; a host that mounts finds nothing of the others under way.
Follows ==
    /\ \A c \in Clients : Live(c) => order # <<>> /\ order[Len(order)] = c
    /\ \A c \in Clients : open[c] = "mounting" => Quieted(local)
    /\ \A c \in Clients : Live(c) /\ host[c] = "html5" => SettlesAll(local, saved[c], main[c])

IInv == TypeOK /\ Made /\ Alone /\ Phases /\ OneStart /\ Follows

-----------------------------------------------------------------------------
(* Messages.                                                               *)

\* What a message to a frame carries, by its event.
LEMMA FrameKinds ==
  ASSUME NEW m \in FrameMessages
  PROVE  /\ m.event \in {"stateUpdate", "dataReturned", "mainReady", "readyCheck", "navigateTo"}
         /\ m.event = "stateUpdate" => m.store \in Names /\ m.data \in Items
         /\ m.event = "dataReturned" => m.req \in Requests /\ m.status \in {"resolved", "rejected"}
         /\ m.event = "mainReady" <=> m = MainReady
BY DEF FrameMessages, States, Returns, State, DataReturned, MainReady, ReadyCheck, NavigateTo

\* What a message to the window carries, by its event.
LEMMA WindowKinds ==
  ASSUME NEW m \in WindowMessages
  PROVE  /\ m.event \in {"stateUpdate", "iframeReady", "dataRequested", "navigateTo"}
         /\ m.event = "stateUpdate" => m.store \in Names /\ m.data \in Items
         /\ m.event = "iframeReady" <=> m = IframeReady
         /\ m.event \in {"dataRequested", "navigateTo"} => m.req \in Requests
BY DEF WindowMessages, States, State, IframeReady, DataRequested, NavigateTo

\* What a message of the window to itself carries, by its event.
LEMMA LocalKinds ==
  ASSUME NEW m \in LocalMessages
  PROVE  /\ m.event = "stateUpdate" => m.data \in [Names -> Items]
         /\ m.event = "collectionRequested" => m.req \in Requests
         /\ m.event = "dataReturned" => m \in Returns
BY DEF LocalMessages, Returns, AllStates, CollectionRequested, DataReturned

\* What is sent is a message.
LEMMA Sent ==
  /\ \A s \in Names, d \in Items : State(s, d) \in FrameMessages /\ State(s, d) \in WindowMessages
  /\ MainReady \in FrameMessages /\ ReadyCheck \in FrameMessages /\ IframeReady \in WindowMessages
  /\ \A r \in Requests : /\ NavigateTo(r) \in FrameMessages /\ NavigateTo(r) \in WindowMessages
                         /\ DataRequested(r) \in WindowMessages
                         /\ CollectionRequested(r) \in LocalMessages
  /\ \A r \in Requests : \A status \in {"resolved", "rejected"} :
       DataReturned(r, status) \in FrameMessages /\ DataReturned(r, status) \in LocalMessages
  /\ \A d \in [Names -> Items] : AllStates(d) \in LocalMessages
BY DEF FrameMessages, WindowMessages, LocalMessages, States, Returns

\* A message goes to the end of a queue.
LEMMA OneMore ==
  ASSUME NEW S, NEW msgs \in Seq(S), NEW m \in S
  PROVE  /\ msgs \o <<m>> \in Seq(S)
         /\ DOMAIN (msgs \o <<m>>) = 1..(Len(msgs) + 1)
         /\ \A n \in DOMAIN msgs : n \in 1..Len(msgs) /\ (msgs \o <<m>>)[n] = msgs[n]
         /\ (msgs \o <<m>>)[Len(msgs) + 1] = m
         /\ DOMAIN msgs = 1..Len(msgs) /\ Len(msgs) \in Nat
<1>1. <<m>> \in Seq(S) /\ Len(<<m>>) = 1 /\ <<m>>[1] = m
  OBVIOUS
<1> QED
  BY <1>1, ConcatProperties, LenProperties

\* A message is taken from the front of a queue.
LEMMA OneLess ==
  ASSUME NEW S, NEW msgs \in Seq(S), msgs # <<>>
  PROVE  /\ Tail(msgs) \in Seq(S) /\ Head(msgs) \in S
         /\ Head(msgs) = msgs[1] /\ 1 \in DOMAIN msgs
         /\ \A n \in DOMAIN Tail(msgs) : n + 1 \in DOMAIN msgs /\ Tail(msgs)[n] = msgs[n + 1]
         /\ \A n \in DOMAIN msgs : n # 1 => n - 1 \in DOMAIN Tail(msgs) /\ Tail(msgs)[n - 1] = msgs[n]
         /\ DOMAIN msgs \subseteq Nat /\ DOMAIN Tail(msgs) \subseteq Nat
<1>1. Len(msgs) \in Nat \ {0} /\ DOMAIN msgs = 1..Len(msgs)
  BY EmptySeq, LenProperties
<1>2. /\ Tail(msgs) \in Seq(S) /\ Head(msgs) \in S
      /\ Len(Tail(msgs)) = Len(msgs) - 1
      /\ \A n \in 1..Len(Tail(msgs)) : Tail(msgs)[n] = msgs[n + 1]
  BY HeadTailProperties
<1>3. DOMAIN Tail(msgs) = 1..(Len(msgs) - 1)
  BY <1>2, LenProperties
<1>4. Head(msgs) = msgs[1]
  BY <1>1
<1> QED
  BY <1>1, <1>2, <1>3, <1>4

\* All the data of a client, with a last message, at the end of a queue.
LEMMA AllMore ==
  ASSUME NEW msgs \in Seq(FrameMessages), NEW d \in [Names -> Items],
         NEW n \in Nat, NEW ss \in [1..n -> Names], NEW m \in FrameMessages
  PROVE  /\ msgs \o (SetData(d, ss) \o <<m>>) \in Seq(FrameMessages)
         /\ DOMAIN (msgs \o (SetData(d, ss) \o <<m>>)) = 1..(Len(msgs) + n + 1)
         /\ \A i \in 1..Len(msgs) : (msgs \o (SetData(d, ss) \o <<m>>))[i] = msgs[i]
         /\ \A i \in 1..n :
              (msgs \o (SetData(d, ss) \o <<m>>))[Len(msgs) + i] = State(ss[i], d[ss[i]])
         /\ (msgs \o (SetData(d, ss) \o <<m>>))[Len(msgs) + n + 1] = m
         /\ Len(msgs) \in Nat /\ DOMAIN msgs = 1..Len(msgs)
         /\ SetData(d, ss) \o <<m>> \in Seq(FrameMessages)
<1> DEFINE sent == SetData(d, ss)
<1>1. sent \in [1..n -> FrameMessages] /\ \A i \in 1..n : sent[i] = State(ss[i], d[ss[i]])
  BY Sent DEF SetData
<1>2. sent \in Seq(FrameMessages)
  BY <1>1, SeqDef
<1>3. Len(sent) = n
  BY <1>1, <1>2, LenProperties
<1>4. <<m>> \in Seq(FrameMessages) /\ Len(<<m>>) = 1 /\ <<m>>[1] = m
  OBVIOUS
<1> HIDE DEF sent
<1> DEFINE all == sent \o <<m>>
<1>5. /\ all \in Seq(FrameMessages) /\ Len(all) = n + 1
      /\ \A i \in 1..n : all[i] = sent[i]
      /\ all[n + 1] = m
  BY <1>2, <1>3, <1>4, ConcatProperties
<1> HIDE DEF all
<1>6. Len(msgs) \in Nat /\ DOMAIN msgs = 1..Len(msgs)
  BY LenProperties
<1>7. /\ msgs \o all \in Seq(FrameMessages) /\ Len(msgs \o all) = Len(msgs) + n + 1
      /\ \A i \in 1..Len(msgs) : (msgs \o all)[i] = msgs[i]
      /\ \A i \in 1..(n + 1) : (msgs \o all)[Len(msgs) + i] = all[i]
  <2>1. /\ msgs \o all \in Seq(FrameMessages) /\ Len(msgs \o all) = Len(msgs) + Len(all)
        /\ \A i \in 1..(Len(msgs) + Len(all)) : (msgs \o all)[i] =
             IF i <= Len(msgs) THEN msgs[i] ELSE all[i - Len(msgs)]
    BY <1>5, ConcatProperties
  <2>2. ASSUME NEW i \in 1..(n + 1)
        PROVE  (msgs \o all)[Len(msgs) + i] = all[i]
    <3>1. Len(msgs) + i \in 1..(Len(msgs) + Len(all)) /\ ~(Len(msgs) + i <= Len(msgs))
          /\ (Len(msgs) + i) - Len(msgs) = i
      BY <1>5, <1>6
    <3> QED
      BY <2>1, <3>1
  <2> QED
    BY <2>1, <2>2, <1>5, <1>6
<1>8. DOMAIN (msgs \o all) = 1..(Len(msgs) + n + 1)
  BY <1>7, LenProperties
<1>9. \A i \in 1..n : (msgs \o all)[Len(msgs) + i] = State(ss[i], d[ss[i]])
  BY <1>1, <1>5, <1>7
<1>10. (msgs \o all)[Len(msgs) + n + 1] = m
  <2>1. n + 1 \in 1..(n + 1) /\ Len(msgs) + (n + 1) = Len(msgs) + n + 1
    BY <1>6
  <2> QED
    BY <2>1, <1>5, <1>7
<1>11. msgs \o all = msgs \o (SetData(d, ss) \o <<m>>) /\ all = SetData(d, ss) \o <<m>>
  BY DEF all, sent
<1> QED
  BY <1>5, <1>6, <1>7, <1>8, <1>9, <1>10, <1>11

-----------------------------------------------------------------------------
(* What is said of a queue, when a message goes to its end or is taken.    *)

\* Nothing of the start follows a last message that is not of the start, or when
\* the signal was not there before.
LEMMA SayMore ==
  ASSUME NEW S, NEW msgs \in Seq(S), NEW m \in S, NEW e
  PROVE  /\ Told(msgs \o <<m>>, e) <=> Told(msgs, e) \/ m.event = e
         /\ Quiet(msgs \o <<m>>) <=> Quiet(msgs) /\ m.event \notin Ready
         /\ Ends(msgs, e) /\ (m.event \notin Ready \/ ~Told(msgs, e)) => Ends(msgs \o <<m>>, e)
<1> DEFINE all == msgs \o <<m>>
<1>1. /\ DOMAIN all = 1..(Len(msgs) + 1) /\ DOMAIN msgs = 1..Len(msgs) /\ Len(msgs) \in Nat
      /\ \A n \in 1..Len(msgs) : all[n] = msgs[n]
      /\ all[Len(msgs) + 1] = m
  BY OneMore
<1> HIDE DEF all
<1>2. Told(all, e) <=> Told(msgs, e) \/ m.event = e
  BY <1>1 DEF Told
<1>3. Quiet(all) <=> Quiet(msgs) /\ m.event \notin Ready
  BY <1>1 DEF Quiet
<1>4. ASSUME Ends(msgs, e), m.event \notin Ready \/ ~Told(msgs, e)
      PROVE  Ends(all, e)
  <2> SUFFICES ASSUME NEW i \in DOMAIN all, NEW j \in DOMAIN all, i < j, all[i].event = e
               PROVE  all[j].event \notin Ready
    BY DEF Ends
  <2>1. i \in DOMAIN msgs /\ all[i] = msgs[i]
    BY <1>1
  <2>2. CASE j \in DOMAIN msgs
    BY <2>1, <2>2, <1>1, <1>4 DEF Ends
  <2>3. CASE j = Len(msgs) + 1
    BY <2>1, <2>3, <1>1, <1>4 DEF Told
  <2> QED
    BY <2>2, <2>3, <1>1
<1> QED
  BY <1>2, <1>3, <1>4 DEF all

\* A queue without its first message says no more than before; after the signal
\* nothing of the start is left.
LEMMA SayLess ==
  ASSUME NEW S, NEW msgs \in Seq(S), msgs # <<>>, NEW e
  PROVE  /\ Told(Tail(msgs), e) => Told(msgs, e)
         /\ Quiet(msgs) => Quiet(Tail(msgs)) /\ Head(msgs).event \notin Ready
         /\ Ends(msgs, e) => Ends(Tail(msgs), e)
         /\ Ends(msgs, e) /\ Head(msgs).event = e => Quiet(Tail(msgs))
         /\ Head(msgs).event = e => Told(msgs, e)
         /\ Told(msgs, e) /\ Head(msgs).event # e => Told(Tail(msgs), e)
<1> DEFINE rest == Tail(msgs)
<1>1. /\ Head(msgs) = msgs[1] /\ 1 \in DOMAIN msgs
      /\ \A n \in DOMAIN rest : n + 1 \in DOMAIN msgs /\ rest[n] = msgs[n + 1]
      /\ \A n \in DOMAIN msgs : n # 1 => n - 1 \in DOMAIN rest /\ rest[n - 1] = msgs[n]
      /\ DOMAIN msgs \subseteq Nat /\ DOMAIN rest \subseteq Nat
  BY OneLess
<1>2. \A n \in DOMAIN rest : 1 < n + 1
  <2>1. DOMAIN rest = 1..Len(rest)
    BY OneLess, LenProperties
  <2> QED
    BY <2>1, <1>1
<1> HIDE DEF rest
<1>3. Told(rest, e) => Told(msgs, e)
  BY <1>1 DEF Told
<1>4. Quiet(msgs) => Quiet(rest) /\ Head(msgs).event \notin Ready
  BY <1>1 DEF Quiet
<1>5. ASSUME Ends(msgs, e)
      PROVE  Ends(rest, e)
  BY <1>1, <1>5 DEF Ends
<1>6. ASSUME Ends(msgs, e), Head(msgs).event = e
      PROVE  Quiet(rest)
  BY <1>1, <1>2, <1>6 DEF Ends, Quiet
<1>7. Head(msgs).event = e => Told(msgs, e)
  BY <1>1 DEF Told
<1>8. Told(msgs, e) /\ Head(msgs).event # e => Told(rest, e)
  BY <1>1 DEF Told
<1> QED
  BY <1>3, <1>4, <1>5, <1>6, <1>7, <1>8 DEF rest

\* A quiet queue brings no data: what is there is what was there.
LEMMA QuietSettles ==
  ASSUME NEW msgs, NEW s, NEW before, NEW d, Quiet(msgs)
  PROVE  Settles(msgs, s, before, d) <=> d = before
BY DEF Settles, Quiet, Says, Ready

\* A quiet queue tells of no signal.
LEMMA QuietTold ==
  ASSUME NEW msgs, Quiet(msgs)
  PROVE  /\ ~Told(msgs, "mainReady") /\ ~Told(msgs, "iframeReady")
         /\ Ends(msgs, "mainReady") /\ Ends(msgs, "iframeReady")
BY DEF Quiet, Told, Ends, Ready

\* What a queue brings does not change with a message about something else, and
\* is the data of a message about the store.
LEMMA SettlesMore ==
  ASSUME NEW S, NEW msgs \in Seq(S), NEW m \in S, NEW s, NEW before, NEW d
  PROVE  /\ Settles(msgs, s, before, d) /\ ~Says(m, s) => Settles(msgs \o <<m>>, s, before, d)
         /\ Says(m, s) => Settles(msgs \o <<m>>, s, before, m.data)
<1> DEFINE all == msgs \o <<m>>
<1>1. /\ DOMAIN all = 1..(Len(msgs) + 1) /\ DOMAIN msgs = 1..Len(msgs) /\ Len(msgs) \in Nat
      /\ \A n \in 1..Len(msgs) : all[n] = msgs[n]
      /\ all[Len(msgs) + 1] = m
  BY OneMore
<1> HIDE DEF all
<1>2. ASSUME Settles(msgs, s, before, d), ~Says(m, s)
      PROVE  Settles(all, s, before, d)
  <2>1. CASE d = before /\ \A n \in DOMAIN msgs : ~Says(msgs[n], s)
    BY <2>1, <1>1, <1>2 DEF Settles
  <2>2. ASSUME NEW n \in DOMAIN msgs, Says(msgs[n], s), msgs[n].data = d,
               \A k \in DOMAIN msgs : k > n => ~Says(msgs[k], s)
        PROVE  Settles(all, s, before, d)
    <3>1. n \in DOMAIN all /\ Says(all[n], s) /\ all[n].data = d
      BY <2>2, <1>1
    <3>2. \A k \in DOMAIN all : k > n => ~Says(all[k], s)
      BY <2>2, <1>1, <1>2
    <3> QED
      BY <3>1, <3>2 DEF Settles
  <2> QED
    BY <2>1, <2>2, <1>2 DEF Settles
<1>3. ASSUME Says(m, s)
      PROVE  Settles(all, s, before, m.data)
  <2>1. Len(msgs) + 1 \in DOMAIN all /\ \A k \in DOMAIN all : ~(k > Len(msgs) + 1)
    BY <1>1
  <2> QED
    BY <2>1, <1>1, <1>3 DEF Settles
<1> QED
  BY <1>2, <1>3 DEF all

\* What is brought stays the same when the first message is taken and heeded.
LEMMA SettlesLess ==
  ASSUME NEW S, NEW msgs \in Seq(S), msgs # <<>>, NEW s, NEW before, NEW d,
         Settles(msgs, s, before, d)
  PROVE  /\ ~Says(Head(msgs), s) => Settles(Tail(msgs), s, before, d)
         /\ Says(Head(msgs), s) => Settles(Tail(msgs), s, Head(msgs).data, d)
<1> DEFINE rest == Tail(msgs)
<1>1. /\ Head(msgs) = msgs[1] /\ 1 \in DOMAIN msgs
      /\ \A n \in DOMAIN rest : n + 1 \in DOMAIN msgs /\ rest[n] = msgs[n + 1]
      /\ \A n \in DOMAIN msgs : n # 1 => n - 1 \in DOMAIN rest /\ rest[n - 1] = msgs[n]
      /\ DOMAIN msgs \subseteq Nat /\ DOMAIN rest \subseteq Nat
  BY OneLess
<1>2. \A n \in DOMAIN rest : 1 < n + 1
  <2>1. DOMAIN rest = 1..Len(rest)
    BY OneLess, LenProperties
  <2> QED
    BY <2>1, <1>1
<1> HIDE DEF rest
<1>3. ASSUME d = before, \A n \in DOMAIN msgs : ~Says(msgs[n], s)
      PROVE  ~Says(Head(msgs), s) /\ Settles(rest, s, before, d)
  BY <1>1, <1>3 DEF Settles
<1>4. ASSUME NEW n \in DOMAIN msgs, n # 1, Says(msgs[n], s), msgs[n].data = d,
             \A k \in DOMAIN msgs : k > n => ~Says(msgs[k], s)
      PROVE  \A any : Settles(rest, s, any, d)
  <2>1. n - 1 \in DOMAIN rest /\ Says(rest[n - 1], s) /\ rest[n - 1].data = d
    BY <1>1, <1>4
  <2>2. \A k \in DOMAIN rest : k > n - 1 => ~Says(rest[k], s)
    <3> SUFFICES ASSUME NEW k \in DOMAIN rest, k > n - 1
                 PROVE  ~Says(rest[k], s)
      OBVIOUS
    <3>1. k + 1 \in DOMAIN msgs /\ k + 1 > n /\ rest[k] = msgs[k + 1]
      BY <1>1
    <3> QED
      BY <3>1, <1>4
  <2> QED
    BY <2>1, <2>2 DEF Settles
<1>5. ASSUME Says(msgs[1], s), msgs[1].data = d,
             \A k \in DOMAIN msgs : k > 1 => ~Says(msgs[k], s)
      PROVE  Says(Head(msgs), s) /\ Settles(rest, s, Head(msgs).data, d)
  <2>1. \A k \in DOMAIN rest : ~Says(rest[k], s)
    BY <1>1, <1>2, <1>5
  <2> QED
    BY <2>1, <1>1, <1>5 DEF Settles
<1>6. ASSUME NEW n \in DOMAIN msgs, Says(msgs[n], s), msgs[n].data = d,
             \A k \in DOMAIN msgs : k > n => ~Says(msgs[k], s)
      PROVE  /\ ~Says(Head(msgs), s) => Settles(rest, s, before, d)
             /\ Says(Head(msgs), s) => Settles(rest, s, Head(msgs).data, d)
  <2>1. CASE n # 1
    BY <2>1, <1>4, <1>6
  <2>2. CASE n = 1
    BY <2>2, <1>5, <1>6
  <2> QED
    BY <2>1, <2>2
<1>7. \/ d = before /\ \A n \in DOMAIN msgs : ~Says(msgs[n], s)
      \/ \E n \in DOMAIN msgs :
           /\ Says(msgs[n], s) /\ msgs[n].data = d
           /\ \A m \in DOMAIN msgs : m > n => ~Says(msgs[m], s)
  BY DEF Settles
<1>8. /\ ~Says(Head(msgs), s) => Settles(rest, s, before, d)
      /\ Says(Head(msgs), s) => Settles(rest, s, Head(msgs).data, d)
  BY <1>3, <1>6, <1>7
<1> QED
  BY <1>8 DEF rest

\* All the data of a client, with MAINREADY at the end: what is brought is what
\* the client has.
LEMMA AnswerSettles ==
  ASSUME NEW msgs \in Seq(FrameMessages), NEW d \in [Names -> Items]
  PROVE  LET all == msgs \o (SetData(d, Stores) \o <<MainReady>>) IN
         /\ all \in Seq(FrameMessages)
         /\ \A s \in Names : \A before : Settles(all, s, before, d[s])
         /\ ~Told(msgs, "mainReady") => Ends(all, "mainReady")
         /\ Told(all, "mainReady")
<1> DEFINE N == Len(Stores)
           L == Len(msgs)
           all == msgs \o (SetData(d, Stores) \o <<MainReady>>)
<1>1. /\ Stores \in [1..N -> Names] /\ N \in Nat
      /\ \A i, j \in 1..N : Stores[i] = Stores[j] => i = j
      /\ \A s \in Names : \E i \in 1..N : Stores[i] = s
  <2>1. Stores \in [1..N -> ToSet(Stores)] /\ N \in Nat /\ DOMAIN Stores = 1..N
    BY StoresDiffer, LenProperties
  <2> QED
    BY <2>1, StoresDiffer DEF IsInjective, Names, ToSet
<1>2. /\ all \in Seq(FrameMessages)
      /\ DOMAIN all = 1..(L + N + 1)
      /\ \A i \in 1..L : all[i] = msgs[i]
      /\ \A i \in 1..N : all[L + i] = State(Stores[i], d[Stores[i]])
      /\ all[L + N + 1] = MainReady
      /\ L \in Nat /\ DOMAIN msgs = 1..L
  <2>1. MainReady \in FrameMessages
    BY Sent
  <2>2. N \in Nat /\ Stores \in [1..N -> Names]
    BY <1>1
  <2> HIDE DEF N
  <2>3. \A n \in Nat : \A ss \in [1..n -> Names] :
          LET more == msgs \o (SetData(d, ss) \o <<MainReady>>) IN
            /\ more \in Seq(FrameMessages)
            /\ DOMAIN more = 1..(Len(msgs) + n + 1)
            /\ \A i \in 1..Len(msgs) : more[i] = msgs[i]
            /\ \A i \in 1..n : more[Len(msgs) + i] = State(ss[i], d[ss[i]])
            /\ more[Len(msgs) + n + 1] = MainReady
            /\ Len(msgs) \in Nat /\ DOMAIN msgs = 1..Len(msgs)
    BY <2>1, AllMore
  <2> QED
    BY <2>2, <2>3, Zenon
<1> HIDE DEF all, N, L
<1>3. ASSUME NEW s \in Names, NEW before
      PROVE  Settles(all, s, before, d[s])
  <2>1. PICK i \in 1..N : Stores[i] = s
    BY <1>1
  <2>2. L + i \in DOMAIN all /\ Says(all[L + i], s) /\ all[L + i].data = d[s]
    <3>1. L + i \in 1..(L + N + 1)
      BY <1>1, <1>2
    <3>2. all[L + i] = State(s, d[s])
      BY <2>1, <1>2
    <3>3. Says(State(s, d[s]), s) /\ State(s, d[s]).data = d[s]
      BY DEF Says, State
    <3> QED
      BY <3>1, <3>2, <3>3, <1>2
  <2>3. ASSUME NEW k \in DOMAIN all, k > L + i
        PROVE  ~Says(all[k], s)
    <3>1. CASE k = L + N + 1
      BY <3>1, <1>2 DEF Says, MainReady
    <3>2. ASSUME k # L + N + 1
          PROVE  ~Says(all[k], s)
      <4>1. k - L \in 1..N /\ L + (k - L) = k /\ k - L # i
        BY <3>2, <2>3, <1>1, <1>2
      <4>2. all[k] = State(Stores[k - L], d[Stores[k - L]]) /\ Stores[k - L] # s
        BY <4>1, <2>1, <1>1, <1>2
      <4> QED
        BY <4>2 DEF Says, State
    <3> QED
      BY <3>1, <3>2
  <2> QED
    BY <2>2, <2>3 DEF Settles
<1>4. ASSUME ~Told(msgs, "mainReady")
      PROVE  Ends(all, "mainReady")
  <2> SUFFICES ASSUME NEW i \in DOMAIN all, NEW j \in DOMAIN all, i < j,
                      all[i].event = "mainReady"
               PROVE  FALSE
    BY DEF Ends
  <2>1. CASE i \in 1..L
    BY <2>1, <1>2, <1>4 DEF Told
  <2>2. CASE i \notin 1..L
    <3>1. i - L \in 1..N /\ L + (i - L) = i
      BY <2>2, <1>1, <1>2
    <3> QED
      <4>1. all[i] = State(Stores[i - L], d[Stores[i - L]])
        BY <3>1, <1>2
      <4> QED
        BY <4>1 DEF State
  <2> QED
    BY <2>1, <2>2
<1>5. Told(all, "mainReady")
  <2>1. L + N + 1 \in DOMAIN all
    BY <1>1, <1>2
  <2> QED
    BY <2>1, <1>2 DEF Told, MainReady
<1> QED
  BY <1>2, <1>3, <1>4, <1>5 DEF all

-----------------------------------------------------------------------------
(* Types.                                                                  *)

\* The items that the shim can have: none is a method of it.
Shims == {p \in Items : \A k \in Internal : p[k] = Absent}

\* What the operations of the apps make of items are items.
LEMMA ItemsKept ==
  /\ NoItems \in Shims /\ Shims \subseteq Items
  /\ NoData \in [Names -> Items] /\ Shimmed \in Names
  /\ \A i \in Items, k \in Keys, v \in Values \cup {Absent} : [i EXCEPT ![k] = v] \in Items
  /\ \A i \in Items : ToShim(i) \in Shims
  /\ \A p \in Shims, k \in Keys, v \in Values \cup {Absent} : Put(p, k, v) \in Shims
<1>1. NoItems \in Shims /\ Shims \subseteq Items
  BY ItemsDiffer DEF NoItems, Shims, Items
<1>2. Shimmed \in Names
  <2>1. Stores # <<>> /\ Stores \in Seq(ToSet(Stores))
    BY StoresDiffer
  <2>2. 1 \in 1..Len(Stores) /\ DOMAIN Stores = 1..Len(Stores)
    BY <2>1, EmptySeq, LenProperties
  <2> QED
    BY <2>1, <2>2, ElementOfSeq DEF Shimmed, Names
<1>3. NoData \in [Names -> Items]
  BY <1>1 DEF NoData
<1>4. \A i \in Items, k \in Keys, v \in Values \cup {Absent} : [i EXCEPT ![k] = v] \in Items
  BY DEF Items
<1>5. \A i \in Items : ToShim(i) \in Shims
  BY ItemsDiffer DEF ToShim, Shims, Items
<1>6. \A p \in Shims, k \in Keys, v \in Values \cup {Absent} : Put(p, k, v) \in Shims
  BY ItemsDiffer DEF Put, Shims, Items
<1> QED
  BY <1>1, <1>2, <1>3, <1>4, <1>5, <1>6

\* The queue of one client grows, or loses its first message.
LEMMA QueuesKept ==
  ASSUME NEW S, NEW q \in [Clients -> Seq(S)], NEW c \in Clients
  PROVE  /\ \A msgs \in Seq(S) : [q EXCEPT ![c] = @ \o msgs] \in [Clients -> Seq(S)]
         /\ q[c] # <<>> => [q EXCEPT ![c] = Tail(@)] \in [Clients -> Seq(S)]
         /\ [q EXCEPT ![c] = <<>>] \in [Clients -> Seq(S)]
<1>1. \A msgs \in Seq(S) : q[c] \o msgs \in Seq(S)
  BY ConcatProperties
<1>2. q[c] # <<>> => Tail(q[c]) \in Seq(S)
  BY OneLess
<1> QED
  BY <1>1, <1>2, EmptySeq

\* A single message is a queue.
LEMMA Single ==
  ASSUME NEW S, NEW m \in S
  PROVE  <<m>> \in Seq(S)
OBVIOUS

\* What a client answers to IFRAMEREADY are messages to its frame.
LEMMA AnswerType ==
  ASSUME NEW d \in [Names -> Items]
  PROVE  SetData(d, Stores) \o <<MainReady>> \in Seq(FrameMessages)
<1>1. Stores \in [1..Len(Stores) -> Names] /\ Len(Stores) \in Nat
  BY StoresDiffer, LenProperties DEF Names
<1>2. MainReady \in FrameMessages /\ <<>> \in Seq(FrameMessages)
  BY Sent, EmptySeq
<1>3. \A n \in Nat : \A ss \in [1..n -> Names] :
        SetData(d, ss) \o <<MainReady>> \in Seq(FrameMessages)
  BY <1>2, AllMore
<1> QED
  BY <1>1, <1>3

Kept == /\ open \in [Clients -> {"no", "mounting", "open", "left"}]
        /\ host \in HostChoices /\ order \in Seq(Clients) /\ IsInjective(order)
        /\ main \in [Clients -> [Names -> Items]]
DataTypes == /\ data \in [Clients -> [Names -> Items]] /\ shim \in [Clients -> Shims]
             /\ saved \in [Clients -> [Names -> Items]]
             /\ written \in [Clients -> [Names -> Items]] /\ meant \in [Clients -> Items]
FrameTypes == /\ frame \in [Clients -> {"none", "env", "page", "app"}]
              /\ doubled \in [Clients -> BOOLEAN]
              /\ acts \in 0..MaxActs /\ loads \in 0..MaxLoads
WireTypes == /\ toFrame \in [Clients -> Seq(FrameMessages)]
             /\ toMain \in [Clients -> Seq(WindowMessages)] /\ local \in Seq(LocalMessages)
AskedTypes == /\ promise \in [Requests ->
                     [of : Clients \cup {Absent}, kind : Kinds \cup {"none"},
                      state : {"none", "pending", "resolved", "rejected", "gone"}]]
              /\ fetches \subseteq Clients \X Requests

\* The parts of the type invariant.
LEMMA TypeParts == TypeOK <=> Kept /\ DataTypes /\ FrameTypes /\ WireTypes /\ AskedTypes
BY DEF TypeOK, Kept, DataTypes, FrameTypes, WireTypes, AskedTypes, Shims

\* The requests of a client whose document is gone.
LEMMA Forsaken ==
  ASSUME AskedTypes, NEW c
  PROVE  [r \in Requests |-> IF promise[r].of = c
                             THEN [promise[r] EXCEPT !.state = "gone"] ELSE promise[r]]
         \in [Requests -> [of : Clients \cup {Absent}, kind : Kinds \cup {"none"},
                           state : {"none", "pending", "resolved", "rejected", "gone"}]]
<1>1. ASSUME NEW p \in [of : Clients \cup {Absent}, kind : Kinds \cup {"none"},
                        state : {"none", "pending", "resolved", "rejected", "gone"}]
      PROVE  [p EXCEPT !.state = "gone"] \in
                [of : Clients \cup {Absent}, kind : Kinds \cup {"none"},
                 state : {"none", "pending", "resolved", "rejected", "gone"}]
  OBVIOUS
<1> QED
  BY <1>1 DEF AskedTypes

\* Nothing has begun.
LEMMA TypeInit == Init => TypeOK /\ Made
<1> SUFFICES ASSUME Init PROVE TypeOK /\ Made
  OBVIOUS
<1>1. order = <<>> /\ IsInjective(order) /\ order \in Seq(Clients) /\ Listening = {}
  BY EmptySeq DEF Init, IsInjective, Listening, ToSet
<1>2. Kept
  BY <1>1, ItemsKept DEF Init, Kept
<1>3. saved \in [Clients -> [Names -> Items]]
  <2>1. \A d \in [Keys -> Values \cup {Absent}] :
          [s \in Names |-> IF s = Shimmed THEN d ELSE NoItems] \in [Names -> Items]
    BY ItemsKept DEF Items
  <2> QED
    BY <2>1 DEF Init
<1>4. DataTypes
  BY <1>3, ItemsKept DEF Init, DataTypes
<1>5. FrameTypes
  BY BoundsAreNumbers DEF Init, FrameTypes
<1>6. WireTypes
  BY EmptySeq DEF Init, WireTypes
<1>7. AskedTypes
  BY DEF Init, AskedTypes, NotAsked
<1>8. Made
  BY <1>1 DEF Init, Made
<1> QED
  BY <1>2, <1>4, <1>5, <1>6, <1>7, <1>8, TypeParts

\* Types are kept while nothing of a part changes.
LEMMA TypeSame ==
  /\ UNCHANGED <<open, host, order, main>> /\ Kept => Kept'
  /\ UNCHANGED <<data, shim, saved, written, meant>> /\ DataTypes => DataTypes'
  /\ UNCHANGED <<frame, doubled, acts, loads>> /\ FrameTypes => FrameTypes'
  /\ UNCHANGED <<toFrame, toMain, local>> /\ WireTypes => WireTypes'
  /\ UNCHANGED <<promise, fetches>> /\ AskedTypes => AskedTypes'
  /\ UNCHANGED <<open, order>> /\ Made => Made'
<1>1. UNCHANGED <<open, host, order, main>> /\ Kept => Kept'
  BY DEF Kept
<1>2. UNCHANGED <<data, shim, saved, written, meant>> /\ DataTypes => DataTypes'
  BY DEF DataTypes
<1>3. UNCHANGED <<frame, doubled, acts, loads>> /\ FrameTypes => FrameTypes'
  BY DEF FrameTypes
<1>4. UNCHANGED <<toFrame, toMain, local>> /\ WireTypes => WireTypes'
  BY DEF WireTypes
<1>5. UNCHANGED <<promise, fetches>> /\ AskedTypes => AskedTypes'
  BY DEF AskedTypes
<1>6. UNCHANGED <<open, order>> /\ Made => Made'
  BY DEF Made, Listening
<1> QED
  BY <1>1, <1>2, <1>3, <1>4, <1>5, <1>6

Typed == Kept /\ DataTypes /\ FrameTypes /\ WireTypes /\ AskedTypes /\ Made

\* The host mounts, the client is made, the host is destroyed.
LEMMA TypeHost ==
  ASSUME Typed, NEW c \in Clients, Mount(c) \/ Initialize(c) \/ Leave(c)
  PROVE  Typed'
<1> USE DEF Typed, mains, frames, wires, asked, history
<1>1. CASE Mount(c)
  <2>1. Kept'
    BY <1>1 DEF Mount, Kept
  <2>2. Made'
    BY <1>1 DEF Mount, Made, Listening, Kept
  <2> QED
    BY <2>1, <2>2, <1>1, TypeSame DEF Mount
<1>2. CASE Initialize(c)
  <2>1. order' = Append(order, c) /\ order \in Seq(Clients) /\ c \notin Listening
    BY <1>2 DEF Initialize, Kept, Made
  <2>2. /\ order' \in Seq(Clients) /\ DOMAIN order' = 1..(Len(order) + 1)
        /\ DOMAIN order = 1..Len(order) /\ Len(order) \in Nat
        /\ \A n \in 1..Len(order) : order'[n] = order[n]
        /\ order'[Len(order) + 1] = c
    BY <2>1, AppendProperties, LenProperties
  <2>3. Listening' = Listening \cup {c}
    BY <2>2 DEF Listening, ToSet
  <2>4. \A n \in DOMAIN order : order[n] # c
    BY <2>1 DEF Listening, ToSet
  <2>5. IsInjective(order')
    BY <2>2, <2>4 DEF IsInjective, Kept
  <2>6. Kept'
    BY <2>2, <2>5, <1>2 DEF Initialize, Kept, DataTypes
  <2>7. Made'
    BY <2>3, <1>2 DEF Initialize, Made, Kept
  <2>8. PICK ss \in WithData(saved[c]) : ToFrame(c, SetData(saved[c], ss) \o <<ReadyCheck>>)
    BY <1>2 DEF Initialize
  <2>9. SetData(saved[c], ss) \o <<ReadyCheck>> \in Seq(FrameMessages)
    <3>1. PICK n \in Nat : ss \in [1..n -> Names]
      <4>1. PICK n \in 0..Len(Stores) : ss \in [1..n -> Names]
        BY <2>8 DEF WithData
      <4>2. Len(Stores) \in Nat
        BY StoresDiffer, LenProperties
      <4> QED
        BY <4>1, <4>2
    <3>2. saved[c] \in [Names -> Items] /\ <<>> \in Seq(FrameMessages) /\ ReadyCheck \in FrameMessages
      BY Sent, EmptySeq DEF DataTypes
    <3> QED
      BY <3>1, <3>2, AllMore
  <2>10. WireTypes'
    BY <2>8, <2>9, <1>2, QueuesKept DEF Initialize, ToFrame, WireTypes
  <2> QED
    BY <2>6, <2>7, <2>10, <1>2, TypeSame DEF Initialize
<1>3. CASE Leave(c)
  <2>1. Kept' /\ Made'
    BY <1>3 DEF Leave, Kept, Made, Listening, Live
  <2>2. DataTypes'
    BY <1>3, ItemsKept DEF Leave, DataTypes
  <2>3. FrameTypes'
    BY <1>3 DEF Leave, FrameTypes
  <2>4. WireTypes'
    BY <1>3, QueuesKept DEF Leave, WireTypes
  <2>5. AskedTypes'
    BY <1>3, Forsaken DEF Leave, AskedTypes
  <2> QED
    BY <2>1, <2>2, <2>3, <2>4, <2>5
<1> QED
  BY <1>1, <1>2, <1>3

\* The documents of the frame.
LEMMA TypeDocuments ==
  ASSUME Typed, NEW c \in Clients, FrameLoads(c) \/ FrameReloads(c) \/ StartApp(c)
  PROVE  Typed'
<1> USE DEF Typed, mains, frames, wires, asked, history
<1>1. CASE FrameLoads(c)
  <2>1. PICK msgs \in Heard(toFrame[c]) :
          /\ toFrame' = [toFrame EXCEPT ![c] = msgs]
          /\ doubled' = [doubled EXCEPT ![c] = @ \/ Announced(toMain[c])
                           \/ \E n \in DOMAIN msgs : msgs[n] = MainReady]
    BY <1>1 DEF FrameLoads
  <2>2. msgs \in Seq(FrameMessages)
    <3>1. toFrame[c] \in Seq(FrameMessages)
      BY DEF WireTypes
    <3>2. PICK n \in 1..(Len(toFrame[c]) + 1) : msgs = SubSeq(toFrame[c], n, Len(toFrame[c]))
      BY <2>1 DEF Heard
    <3>3. Len(toFrame[c]) \in Nat
      BY <3>1, LenProperties
    <3>4. \A i \in n..Len(toFrame[c]) : i \in 1..Len(toFrame[c])
      BY <3>2, <3>3
    <3> QED
      BY <3>1, <3>2, <3>3, <3>4, SubSeqProperties
  <2>3. WireTypes'
    <3>1. <<IframeReady>> \in Seq(WindowMessages)
      BY Sent, Single
    <3>2. toMain' \in [Clients -> Seq(WindowMessages)]
      BY <3>1, <1>1, QueuesKept DEF FrameLoads, ToMain, WireTypes
    <3>3. toFrame' \in [Clients -> Seq(FrameMessages)] /\ local' = local
      BY <2>1, <2>2, <1>1 DEF FrameLoads, WireTypes
    <3> QED
      BY <3>2, <3>3 DEF WireTypes
  <2>4. FrameTypes'
    BY <2>1, <1>1, BoundsAreNumbers DEF FrameLoads, FrameTypes
  <2>5. DataTypes'
    BY <1>1, ItemsKept DEF FrameLoads, DataTypes
  <2> QED
    BY <2>3, <2>4, <2>5, <1>1, TypeSame DEF FrameLoads
<1>2. CASE FrameReloads(c)
  <2>1. FrameTypes'
    BY <1>2 DEF FrameReloads, FrameTypes
  <2>2. DataTypes'
    BY <1>2, ItemsKept DEF FrameReloads, DataTypes
  <2>3. AskedTypes'
    BY <1>2, Forsaken DEF FrameReloads, AskedTypes
  <2> QED
    BY <2>1, <2>2, <2>3, <1>2, TypeSame DEF FrameReloads
<1>3. CASE StartApp(c)
  <2>1. data[c][Shimmed] \in Items
    BY ItemsKept DEF DataTypes
  <2>2. DataTypes'
    BY <2>1, <1>3, ItemsKept DEF StartApp, DataTypes
  <2>3. FrameTypes'
    BY <1>3 DEF StartApp, FrameTypes
  <2> QED
    BY <2>2, <2>3, <1>3, TypeSame DEF StartApp
<1> QED
  BY <1>1, <1>2, <1>3

\* A message arrives at the frame.
LEMMA TypeFrameReceives ==
  ASSUME Typed, NEW c \in Clients, FrameReceives(c)
  PROVE  Typed'
<1> USE DEF Typed, mains, frames, wires, asked, history
<1> DEFINE m == Head(toFrame[c])
<1>1. /\ m \in FrameMessages /\ toFrame[c] # <<>>
      /\ toFrame' \in [Clients -> Seq(FrameMessages)] /\ local' = local
      /\ UNCHANGED <<open, host, order, main, saved, fetches, acts, loads, written, meant>>
  <2>1. toFrame[c] # <<>> /\ toFrame \in [Clients -> Seq(FrameMessages)]
        /\ toFrame' = [toFrame EXCEPT ![c] = Tail(@)]
    BY DEF FrameReceives, WireTypes
  <2> QED
    BY <2>1, QueuesKept, OneLess DEF FrameReceives
<1>2. \/ m.event = "stateUpdate" /\ ReceiveState(c, m)
      \/ m.event = "mainReady" /\ ReceiveMainReady(c)
      \/ m.event = "readyCheck" /\ ReceiveReadyCheck(c)
      \/ m.event = "dataReturned" /\ ReceiveReply(c, m)
      \/ m.event = "navigateTo" /\ UNCHANGED <<frames, toMain, promise, doubled>>
  BY DEF FrameReceives
<1> HIDE DEF m
<1>3. Kept' /\ Made'
  BY <1>1, TypeSame
<1>4. CASE m.event = "stateUpdate" /\ ReceiveState(c, m)
  <2>1. m.store \in Names /\ m.data \in Items
    BY <1>1, <1>4, FrameKinds
  <2>2. data' \in [Clients -> [Names -> Items]]
    BY <2>1, <1>4 DEF ReceiveState, DataTypes
  <2>3. shim' \in [Clients -> Shims]
    BY <2>1, <1>4, ItemsKept DEF ReceiveState, DataTypes
  <2>4. DataTypes'
    BY <2>2, <2>3, <1>1 DEF DataTypes
  <2>5. FrameTypes' /\ AskedTypes' /\ WireTypes'
    BY <1>1, <1>4 DEF ReceiveState, FrameTypes, AskedTypes, WireTypes
  <2> QED
    BY <1>3, <2>4, <2>5
<1>5. CASE m.event = "mainReady" /\ ReceiveMainReady(c)
  <2>1. DataTypes'
    BY <1>1, <1>5, ItemsKept DEF ReceiveMainReady, DataTypes
  <2>2. FrameTypes' /\ AskedTypes' /\ WireTypes'
    BY <1>1, <1>5 DEF ReceiveMainReady, FrameTypes, AskedTypes, WireTypes
  <2> QED
    BY <1>3, <2>1, <2>2
<1>6. CASE m.event = "readyCheck" /\ ReceiveReadyCheck(c)
  <2>1. <<IframeReady>> \in Seq(WindowMessages)
    BY Sent, Single
  <2>2. WireTypes'
    BY <2>1, <1>1, <1>6, QueuesKept DEF ReceiveReadyCheck, ToMain, WireTypes
  <2>3. FrameTypes'
    BY <1>1, <1>6 DEF ReceiveReadyCheck, FrameTypes
  <2>4. DataTypes' /\ AskedTypes'
    BY <1>1, <1>6 DEF ReceiveReadyCheck, DataTypes, AskedTypes
  <2> QED
    BY <1>3, <2>2, <2>3, <2>4
<1>7. CASE m.event = "dataReturned" /\ ReceiveReply(c, m)
  <2>1. m.req \in Requests /\ m.status \in {"resolved", "rejected"}
    BY <1>1, <1>7, FrameKinds
  <2>2. AskedTypes'
    BY <2>1, <1>1, <1>7 DEF ReceiveReply, AskedTypes
  <2>3. FrameTypes' /\ DataTypes' /\ WireTypes'
    BY <1>1, <1>7 DEF ReceiveReply, FrameTypes, DataTypes, WireTypes
  <2> QED
    BY <1>3, <2>2, <2>3
<1>8. CASE UNCHANGED <<frames, toMain, promise, doubled>>
  BY <1>1, <1>3, <1>8 DEF FrameTypes, AskedTypes, DataTypes, WireTypes
<1> QED
  BY <1>2, <1>4, <1>5, <1>6, <1>7, <1>8

\* An operation of the app on the items of a store.
LEMMA TypeChange ==
  ASSUME Typed, NEW c \in Clients, NEW s \in Names, NEW d \in Items, NEW p \in Shims,
         NEW w \in Items, NEW tells, Change(c, s, d, p, w, tells), acts' \in 0..MaxActs
  PROVE  Typed'
<1> USE DEF Typed, mains, frames, wires, asked, history
<1>1. DataTypes'
  BY DEF Change, DataTypes
<1>2. WireTypes'
  <2>1. State(s, d) \in WindowMessages
    BY Sent
  <2>2. toMain' \in [Clients -> Seq(WindowMessages)]
    <3>1. toMain' = [toMain EXCEPT ![c] = @ \o <<State(s, d)>>] \/ toMain' = toMain
      BY DEF Change, ToMain
    <3>2. PICK m \in WindowMessages :
            toMain' = [toMain EXCEPT ![c] = @ \o <<m>>] \/ toMain' = toMain
      BY <2>1, <3>1
    <3>3. <<m>> \in Seq(WindowMessages) /\ toMain \in [Clients -> Seq(WindowMessages)]
      BY Single DEF WireTypes
    <3>4. [toMain EXCEPT ![c] = @ \o <<m>>] \in [Clients -> Seq(WindowMessages)]
      BY <3>3, QueuesKept
    <3> QED
      BY <3>2, <3>3, <3>4
  <2> QED
    BY <2>2 DEF Change, WireTypes
<1>3. FrameTypes'
  BY DEF Change, FrameTypes
<1> QED
  BY <1>1, <1>2, <1>3, TypeSame DEF Change

\* What the app does.
LEMMA TypeOperate ==
  ASSUME Typed, NEW c \in Clients, Operate(c)
  PROVE  Typed'
<1> DEFINE Own == data[c][Shimmed]
<1>1. /\ Own \in Items /\ shim[c] \in Shims /\ meant[c] \in Items /\ NoItems \in Items
      /\ Shimmed \in Names /\ acts \in 0..MaxActs
  BY ItemsKept DEF Typed, DataTypes, FrameTypes
<1>2. Acts(c) => acts' \in 0..MaxActs
  BY <1>1, BoundsAreNumbers DEF Acts
<1>3. \A k \in Keys, v \in Values \cup {Absent} :
        /\ [Own EXCEPT ![k] = v] \in Items /\ [meant[c] EXCEPT ![k] = v] \in Items
        /\ Put(shim[c], k, v) \in Shims
  BY <1>1, ItemsKept
<1> HIDE DEF Own
<1>4. ASSUME NEW k \in Keys, NEW v \in Values, SetItem(c, k, v)
      PROVE  Typed'
  <2>1. Change(c, Shimmed, [Own EXCEPT ![k] = v], Put(shim[c], k, v),
               [meant[c] EXCEPT ![k] = v], TRUE) /\ acts' \in 0..MaxActs
    BY <1>2, <1>4 DEF SetItem, Own
  <2> QED
    BY <2>1, <1>1, <1>3, TypeChange
<1>5. ASSUME NEW k \in Keys, RemoveItem(c, k)
      PROVE  Typed'
  <2>1. Change(c, Shimmed, [Own EXCEPT ![k] = Absent], Put(shim[c], k, Absent),
               [meant[c] EXCEPT ![k] = Absent], TRUE) /\ acts' \in 0..MaxActs
    BY <1>2, <1>5 DEF RemoveItem, Own
  <2> QED
    BY <2>1, <1>1, <1>3, TypeChange
<1>6. ASSUME Clear(c)
      PROVE  Typed'
  BY <1>1, <1>2, <1>6, TypeChange DEF Clear
<1>7. ASSUME NEW k \in Keys, NEW v \in Values \cup {Absent}, SetProperty(c, k, v)
      PROVE  Typed'
  <2>1. Change(c, Shimmed, Own, Put(shim[c], k, v), [meant[c] EXCEPT ![k] = v], FALSE)
        /\ acts' \in 0..MaxActs
    BY <1>2, <1>7 DEF SetProperty, Own
  <2> QED
    BY <2>1, <1>1, <1>3, TypeChange
<1>8. ASSUME Look(c)
      PROVE  Typed'
  <2>1. FromShim(c) \in Items
    BY <1>1 DEF FromShim, Shims, Items, Own
  <2>2. ToShim(FromShim(c)) \in Shims
    BY <2>1, ItemsKept
  <2>3. acts' \in 0..MaxActs
    BY <1>1, <1>8 DEF Look
  <2>4. CASE FromShim(c) = data[c][Shimmed]
    <3>1. /\ UNCHANGED <<data, shim, meant, written, toMain, acts>>
          /\ UNCHANGED <<mains, frame, toFrame, local, saved, asked, loads, doubled>>
      BY <1>8, <2>4 DEF Look
    <3> QED
      BY <3>1, TypeSame DEF Typed, mains, asked
  <2>5. CASE FromShim(c) # data[c][Shimmed]
    <3>1. Change(c, Shimmed, FromShim(c), ToShim(FromShim(c)), meant[c], TRUE)
      BY <1>8, <2>5 DEF Look
    <3> QED
      BY <3>1, <2>1, <2>2, <2>3, <1>1, TypeChange
  <2> QED
    BY <2>4, <2>5
<1>9. ASSUME NEW s \in Names, NEW k \in Keys, NEW v \in Values, SetValue(c, s, k, v)
      PROVE  Typed'
  <2>1. [data[c][s] EXCEPT ![k] = v] \in Items
    BY ItemsKept DEF Typed, DataTypes
  <2>2. Change(c, s, [data[c][s] EXCEPT ![k] = v], shim[c], meant[c], TRUE)
        /\ acts' \in 0..MaxActs
    BY <1>2, <1>9 DEF SetValue
  <2> QED
    BY <2>1, <2>2, <1>1, TypeChange
<1>12. ASSUME NEW s \in Names, NEW k \in Keys, RefuseValue(c, s, k)
       PROVE  Typed'
  <2>1. data[c][s] \in Items /\ data \in [Clients -> [Names -> Items]]
    BY DEF Typed, DataTypes
  <2>2. [data[c][s] EXCEPT ![k] = Partial] \in Items
    BY <2>1 DEF Items
  <2>3. data' \in [Clients -> [Names -> Items]]
    BY <2>1, <2>2, <1>12 DEF RefuseValue
  <2>4. DataTypes' /\ FrameTypes'
    BY <2>3, <1>2, <1>12 DEF RefuseValue, Typed, DataTypes, FrameTypes, mains, history
  <2> QED
    BY <2>4, <1>12, TypeSame DEF RefuseValue, Typed, mains, wires, asked
<1>10. ASSUME NavigateApp(c)
       PROVE  Typed'
  <2>1. ToShim(data[c][Shimmed]) \in Shims
    BY <1>1, ItemsKept DEF Own
  <2>2. DataTypes'
    BY <2>1, <1>10 DEF NavigateApp, Typed, DataTypes, history
  <2> QED
    BY <2>2, <1>10, TypeSame DEF NavigateApp, Typed, mains, wires, asked, history
<1>11. ASSUME NEW r \in Requests, NEW kind \in Kinds, Ask(c, r, kind)
       PROVE  Typed'
  <2>1. PICK m \in WindowMessages : ToMain(c, <<m>>)
    BY <1>11, Sent DEF Ask
  <2>2. WireTypes'
    <3>1. <<m>> \in Seq(WindowMessages)
      BY Single
    <3> QED
      BY <2>1, <3>1, <1>11, QueuesKept DEF Ask, ToMain, Typed, WireTypes
  <2>3. AskedTypes'
    BY <1>11 DEF Ask, Typed, AskedTypes
  <2>4. FrameTypes'
    BY <1>2, <1>11 DEF Ask, Typed, FrameTypes, frames, history
  <2> QED
    BY <2>2, <2>3, <2>4, <1>11, TypeSame DEF Ask, Typed, mains, frames, history
<1> QED
  BY <1>4, <1>5, <1>6, <1>7, <1>8, <1>9, <1>10, <1>11, <1>12 DEF Operate

\* What is sent to every client that is open.
LEMMA TypeToLive ==
  ASSUME WireTypes, NEW f \in [Clients -> Seq(FrameMessages)],
         NEW p, p = [c \in Clients |-> IF c \in Listening /\ Live(c)
                                       THEN toFrame[c] \o f[c] ELSE toFrame[c]]
  PROVE  p \in [Clients -> Seq(FrameMessages)]
<1>1. \A c \in Clients : toFrame[c] \o f[c] \in Seq(FrameMessages)
  BY ConcatProperties DEF WireTypes
<1> QED
  BY <1>1 DEF WireTypes

\* What every client that listens tells the window.
LEMMA TypeLocal ==
  ASSUME NEW f, NEW q \in Seq(LocalMessages), NEW os \in Seq(Clients),
         \A n \in DOMAIN os : f[os[n]] \in LocalMessages
  PROVE  q \o [n \in DOMAIN os |-> f[os[n]]] \in Seq(LocalMessages)
<1>1. DOMAIN os = 1..Len(os) /\ Len(os) \in Nat
  BY LenProperties
<1>2. [n \in DOMAIN os |-> f[os[n]]] \in [1..Len(os) -> LocalMessages]
  BY <1>1
<1>3. [n \in DOMAIN os |-> f[os[n]]] \in Seq(LocalMessages)
  BY <1>1, <1>2, SeqDef
<1> QED
  BY <1>3, ConcatProperties

\* A message arrives at the window.
LEMMA TypeMainReceives ==
  ASSUME Typed, NEW c \in Clients, MainReceives(c)
  PROVE  Typed'
<1> USE DEF Typed, mains, frames, wires, asked, history
<1> DEFINE m == Head(toMain[c])
<1>1. /\ m \in WindowMessages
      /\ toMain' \in [Clients -> Seq(WindowMessages)]
      /\ UNCHANGED <<open, host, order, frames, saved, promise, acts, loads, history>>
  <2>1. toMain[c] # <<>> /\ toMain \in [Clients -> Seq(WindowMessages)]
        /\ toMain' = [toMain EXCEPT ![c] = Tail(@)]
    BY DEF MainReceives, WireTypes
  <2> QED
    BY <2>1, QueuesKept, OneLess DEF MainReceives
<1>2. \/ m.event = "stateUpdate" /\ HearState(m)
      \/ m.event = "iframeReady" /\ HearReady
      \/ m.event = "dataRequested" /\ HearRequest(m)
      \/ m.event = "navigateTo" /\ HearNavigate(m)
  BY DEF MainReceives
<1> HIDE DEF m
<1>3. Made' /\ DataTypes' /\ FrameTypes'
  BY <1>1, TypeSame
<1>4. order \in Seq(Clients) /\ local \in Seq(LocalMessages)
      /\ \A n \in DOMAIN order : order[n] \in Clients
  <2>1. order \in Seq(Clients)
    BY DEF Kept
  <2> QED
    BY <2>1, LenProperties, ElementOfSeq DEF WireTypes
<1>5. CASE m.event = "stateUpdate" /\ HearState(m)
  <2>1. m.store \in Names /\ m.data \in Items
    BY <1>1, <1>5, WindowKinds
  <2>2. main' = [e \in Clients |-> IF e \in Listening
                                   THEN [main[e] EXCEPT ![m.store] = m.data] ELSE main[e]]
    BY <1>5 DEF HearState
  <2>3. main' \in [Clients -> [Names -> Items]]
    BY <2>1, <2>2 DEF Kept
  <2>4. local' \in Seq(LocalMessages)
    <3> DEFINE f == [e \in Clients |-> AllStates(main'[e])]
    <3>1. \A n \in DOMAIN order : f[order[n]] = AllStates(main'[order[n]])
                                  /\ f[order[n]] \in LocalMessages
      BY <1>4, <2>3, Sent
    <3> HIDE DEF f
    <3>2. local \o [n \in DOMAIN order |-> f[order[n]]] \in Seq(LocalMessages)
      BY <3>1, <1>4, TypeLocal
    <3>3. [n \in DOMAIN order |-> f[order[n]]] = [n \in DOMAIN order |-> AllStates(main'[order[n]])]
      BY <3>1
    <3> QED
      BY <3>2, <3>3, <1>5 DEF HearState
  <2>5. Kept'
    BY <2>3, <1>1 DEF Kept
  <2>6. WireTypes' /\ AskedTypes'
    BY <2>4, <1>1, <1>5 DEF HearState, WireTypes, AskedTypes
  <2> QED
    BY <2>5, <2>6, <1>3
<1>6. CASE m.event = "iframeReady" /\ HearReady
  <2> DEFINE f == [e \in Clients |-> AnswerReady(e)]
  <2>1. f \in [Clients -> Seq(FrameMessages)]
    BY AnswerType DEF Kept, AnswerReady
  <2>2. toFrame' = [e \in Clients |-> IF e \in Listening /\ Live(e)
                                      THEN toFrame[e] \o f[e] ELSE toFrame[e]]
    BY <1>6 DEF HearReady, ToLive
  <2> HIDE DEF f
  <2>3. toFrame' \in [Clients -> Seq(FrameMessages)]
    BY <2>1, <2>2, TypeToLive
  <2>4. WireTypes' /\ AskedTypes' /\ Kept'
    BY <2>3, <1>1, <1>6 DEF HearReady, WireTypes, AskedTypes, Kept
  <2> QED
    BY <2>4, <1>3
<1>7. CASE m.event = "dataRequested" /\ HearRequest(m)
  <2>1. m.req \in Requests
    BY <1>1, <1>7, WindowKinds
  <2>2. local' \in Seq(LocalMessages)
    <3> DEFINE f == [e \in Clients |-> CollectionRequested(m.req)]
    <3>1. \A n \in DOMAIN order : f[order[n]] = CollectionRequested(m.req)
                                  /\ f[order[n]] \in LocalMessages
      BY <1>4, <2>1, Sent
    <3> HIDE DEF f
    <3>2. local \o [n \in DOMAIN order |-> f[order[n]]] \in Seq(LocalMessages)
      BY <3>1, <1>4, TypeLocal
    <3>3. [n \in DOMAIN order |-> f[order[n]]] = [n \in DOMAIN order |-> CollectionRequested(m.req)]
      BY <3>1
    <3> QED
      BY <3>2, <3>3, <1>7 DEF HearRequest
  <2>3. WireTypes' /\ AskedTypes' /\ Kept'
    BY <2>2, <1>1, <1>7 DEF HearRequest, WireTypes, AskedTypes, Kept
  <2> QED
    BY <2>3, <1>3
<1>8. CASE m.event = "navigateTo" /\ HearNavigate(m)
  <2>1. m.req \in Requests
    BY <1>1, <1>8, WindowKinds
  <2> DEFINE f == [e \in Clients |-> <<NavigateTo(m.req)>>]
  <2>2. f \in [Clients -> Seq(FrameMessages)]
    BY <2>1, Sent, Single
  <2>3. toFrame' = [e \in Clients |-> IF e \in Listening /\ Live(e)
                                      THEN toFrame[e] \o f[e] ELSE toFrame[e]]
    BY <1>8 DEF HearNavigate, ToLive
  <2> HIDE DEF f
  <2>4. toFrame' \in [Clients -> Seq(FrameMessages)]
    BY <2>2, <2>3, TypeToLive
  <2>5. Listening \subseteq Clients
    BY <1>4 DEF Listening, ToSet
  <2>6. fetches' \subseteq Clients \X Requests
    BY <2>1, <2>5, <1>8 DEF HearNavigate, ToLive, AskedTypes, Customs
  <2>7. main' = main /\ local' = local
    BY <1>8 DEF HearNavigate
  <2>8. WireTypes' /\ Kept'
    BY <2>4, <2>7, <1>1 DEF WireTypes, Kept
  <2>9. AskedTypes'
    BY <2>6, <1>1 DEF AskedTypes
  <2> QED
    BY <2>8, <2>9, <1>3
<1> QED
  BY <1>2, <1>5, <1>6, <1>7, <1>8

\* A message of the window to itself arrives.
LEMMA TypeLocalReceives ==
  ASSUME Typed, LocalReceives
  PROVE  Typed'
<1> USE DEF Typed, mains, frames, asked, history
<1> DEFINE m == Head(local)
<1>1. /\ m \in LocalMessages /\ local' \in Seq(LocalMessages)
      /\ UNCHANGED <<open, host, order, main, frame, data, shim, toMain, promise, acts, loads>>
      /\ UNCHANGED <<written, meant, doubled>>
  <2>1. local \in Seq(LocalMessages) /\ local # <<>> /\ local' = Tail(local)
    BY DEF LocalReceives, WireTypes
  <2> QED
    BY <2>1, OneLess DEF LocalReceives
<1>2. \/ m.event = "stateUpdate" /\ HearLocalState(m)
      \/ m.event = "collectionRequested" /\ HearLocalRequest(m)
      \/ m.event = "dataReturned" /\ HearLocalReply(m)
  BY DEF LocalReceives
<1> HIDE DEF m
<1>3. Kept' /\ Made' /\ FrameTypes'
  BY <1>1, TypeSame
<1>4. CASE m.event = "stateUpdate" /\ HearLocalState(m)
  <2>1. m.data \in [Names -> Items]
    BY <1>1, <1>4, LocalKinds
  <2>2. DataTypes'
    BY <2>1, <1>1, <1>4 DEF HearLocalState, DataTypes
  <2>3. WireTypes' /\ AskedTypes'
    BY <1>1, <1>4 DEF HearLocalState, WireTypes, AskedTypes
  <2> QED
    BY <2>2, <2>3, <1>3
<1>5. CASE m.event = "collectionRequested" /\ HearLocalRequest(m)
  <2> DEFINE customs == Customs
             f == [e \in Clients |-> IF e \in customs THEN <<DataReturned(m.req, "resolved")>>
                                     ELSE <<>>]
  <2>1. m.req \in Requests
    BY <1>1, <1>5, LocalKinds
  <2>2. Listening \subseteq Clients
    BY LenProperties DEF Kept, Listening, ToSet
  <2>3. f \in [Clients -> Seq(FrameMessages)]
    <3>1. DataReturned(m.req, "resolved") \in FrameMessages
      BY <2>1, Sent
    <3>2. <<DataReturned(m.req, "resolved")>> \in Seq(FrameMessages) /\ <<>> \in Seq(FrameMessages)
      BY <3>1, EmptySeq, Single
    <3> QED
      BY <3>2
  <2>4. \/ toFrame' = [e \in Clients |-> IF e \in Listening /\ Live(e)
                                         THEN toFrame[e] \o f[e] ELSE toFrame[e]]
        \/ toFrame' = toFrame
    BY <1>5 DEF HearLocalRequest, ToLive
  <2>5. fetches' = fetches \cup (customs \X {m.req}) \/ fetches' = fetches
    BY <1>5 DEF HearLocalRequest, ToLive
  <2>6. saved' = saved
    BY <1>5 DEF HearLocalRequest, ToLive
  <2>7. customs \subseteq Clients
    BY <2>2 DEF Customs
  <2> HIDE DEF f, customs
  <2>8. toFrame' \in [Clients -> Seq(FrameMessages)]
    <3>1. toFrame \in [Clients -> Seq(FrameMessages)]
      BY DEF WireTypes
    <3> QED
      BY <2>3, <2>4, <3>1, TypeToLive
  <2>9. fetches' \subseteq Clients \X Requests
    BY <2>1, <2>5, <2>7 DEF AskedTypes
  <2>10. WireTypes' /\ AskedTypes' /\ DataTypes'
    BY <2>6, <2>8, <2>9, <1>1 DEF WireTypes, AskedTypes, DataTypes
  <2> QED
    BY <2>10, <1>3
<1>6. CASE m.event = "dataReturned" /\ HearLocalReply(m)
  <2> DEFINE f == [e \in Clients |-> <<m>>]
  <2>1. m \in FrameMessages
    BY <1>1, <1>6, LocalKinds DEF FrameMessages
  <2>2. f \in [Clients -> Seq(FrameMessages)]
    BY <2>1, Single
  <2>3. toFrame' = [e \in Clients |-> IF e \in Listening /\ Live(e)
                                      THEN toFrame[e] \o f[e] ELSE toFrame[e]]
    BY <1>6 DEF HearLocalReply, ToLive
  <2>4. saved' = saved /\ fetches' = fetches
    BY <1>6 DEF HearLocalReply, ToLive
  <2> HIDE DEF f
  <2>5. toFrame' \in [Clients -> Seq(FrameMessages)]
    BY <2>2, <2>3, TypeToLive
  <2>6. WireTypes' /\ AskedTypes' /\ DataTypes'
    BY <2>4, <2>5, <1>1 DEF WireTypes, AskedTypes, DataTypes
  <2> QED
    BY <2>6, <1>3
<1> QED
  BY <1>2, <1>4, <1>5, <1>6

\* What a host fetched is there.
LEMMA TypeFetchEnds ==
  ASSUME Typed, NEW c \in Clients, NEW r \in Requests, FetchEnds(c, r)
  PROVE  Typed'
<1> USE DEF Typed, mains, frames, asked, history
<1>1. /\ UNCHANGED <<open, host, order, main, frame, data, shim, toMain, saved, promise>>
      /\ UNCHANGED <<acts, loads, written, meant, doubled>> /\ fetches' = fetches \ {<<c, r>>}
  BY DEF FetchEnds
<1>2. PICK status \in {"resolved", "rejected"} :
         IF promise[r].kind = "navigate"
         THEN local' = Append(local, DataReturned(r, status)) /\ UNCHANGED toFrame
         ELSE /\ toFrame' = IF Live(c) THEN [toFrame EXCEPT ![c] = Append(@, DataReturned(r, status))]
                            ELSE toFrame
              /\ UNCHANGED local
  BY DEF FetchEnds
<1>3. PICK m : m = DataReturned(r, status) /\ m \in FrameMessages /\ m \in LocalMessages
  BY Sent
<1>4. Append(local, m) \in Seq(LocalMessages) /\ Append(toFrame[c], m) \in Seq(FrameMessages)
  BY <1>3, AppendProperties DEF WireTypes
<1>5. \/ local' = Append(local, m) /\ toFrame' = toFrame
      \/ local' = local /\ toFrame' = [toFrame EXCEPT ![c] = Append(@, m)]
      \/ local' = local /\ toFrame' = toFrame
  BY <1>2, <1>3
<1>6. WireTypes'
  BY <1>1, <1>4, <1>5 DEF WireTypes
<1>7. AskedTypes'
  BY <1>1 DEF AskedTypes
<1> QED
  BY <1>1, <1>6, <1>7, TypeSame

\* Every step keeps the types.
LEMMA TypeStep == Typed /\ [Next]_vars => Typed'
<1> SUFFICES ASSUME Typed, [Next]_vars PROVE Typed'
  OBVIOUS
<1>1. CASE UNCHANGED vars
  BY <1>1, TypeSame DEF Typed, vars, mains, frames, wires, asked, history
<1>2. ASSUME NEW c \in Clients, Mount(c) \/ Initialize(c) \/ Leave(c)
      PROVE  Typed'
  BY <1>2, TypeHost
<1>3. ASSUME NEW c \in Clients, FrameLoads(c) \/ FrameReloads(c) \/ StartApp(c)
      PROVE  Typed'
  BY <1>3, TypeDocuments
<1>4. ASSUME NEW c \in Clients, Operate(c) \/ FrameReceives(c) \/ MainReceives(c)
      PROVE  Typed'
  BY <1>4, TypeOperate, TypeFrameReceives, TypeMainReceives
<1>5. ASSUME NEW c \in Clients, NEW r \in Requests, FetchEnds(c, r)
      PROVE  Typed'
  BY <1>5, TypeFetchEnds
<1>6. CASE LocalReceives
  BY <1>6, TypeLocalReceives
<1> QED
  BY <1>1, <1>2, <1>3, <1>4, <1>5, <1>6 DEF Next

LEMMA TypedAlways == Spec => []Typed
<1>1. Init => Typed
  BY TypeInit, TypeParts DEF Typed
<1> QED
  BY <1>1, TypeStep, PTL DEF Spec

\* Every variable has its type, a client listens at most once, and the shim has
\* no item for a method of its own.
THEOREM TypeCorrect == Spec => []TypeOK
<1>1. Typed => TypeOK
  BY TypeParts DEF Typed
<1> QED
  BY <1>1, TypedAlways, PTL

-----------------------------------------------------------------------------
(* How the signals and the data of a client follow its messages.           *)

\* The data of all stores.
Contents == [Names -> Items]

\* The client is made: it has what was saved, and its frame may have announced
\* itself.
LEMMA FitsNew ==
  ASSUME NEW f \in {"none", "env"}, NEW down, ~Told(down, "mainReady"),
         NEW up \in {<<>>, <<IframeReady>>}, NEW d, NEW w
  PROVE  Fits(f, down, up, w, d, w)
<1>1. Ends(down, "mainReady")
  BY DEF Ends, Told
<1>2. \A n \in DOMAIN up : n = 1 /\ up[n] = IframeReady
  <2>1. CASE up = <<>>
    BY <2>1
  <2>2. CASE up = <<IframeReady>>
    BY <2>2
  <2> QED
    BY <2>1, <2>2
<1>3. Ends(up, "iframeReady")
  BY <1>2 DEF Ends
<1>4. \A s \in Names : Settles(up, s, w[s], w[s])
  BY <1>2 DEF Settles, Says, IframeReady
<1> QED
  BY <1>1, <1>3, <1>4 DEF Fits, Signals, Newest

\* Another message is sent to the frame, or to the window.
LEMMA FitsMore ==
  ASSUME NEW f, NEW down \in Seq(FrameMessages), NEW up \in Seq(WindowMessages),
         NEW m, NEW d, NEW w, Fits(f, down, up, m, d, w)
  PROVE  /\ \A x \in FrameMessages : x.event \notin Ready => Fits(f, down \o <<x>>, up, m, d, w)
         /\ \A x \in WindowMessages : x.event \notin Ready => Fits(f, down, up \o <<x>>, m, d, w)
<1>1. ASSUME NEW x \in FrameMessages, x.event \notin Ready
      PROVE  Fits(f, down \o <<x>>, up, m, d, w)
  <2>1. /\ Told(down \o <<x>>, "mainReady") <=> Told(down, "mainReady")
        /\ Quiet(down) => Quiet(down \o <<x>>)
        /\ Ends(down, "mainReady") => Ends(down \o <<x>>, "mainReady")
    BY <1>1, SayMore DEF Ready
  <2>2. \A s, b, e : ~Says(x, s) /\ (Settles(down, s, b, e) => Settles(down \o <<x>>, s, b, e))
    BY <1>1, SettlesMore DEF Ready, Says
  <2> QED
    BY <2>1, <2>2 DEF Fits, Signals, Newest
<1>2. ASSUME NEW x \in WindowMessages, x.event \notin Ready
      PROVE  Fits(f, down, up \o <<x>>, m, d, w)
  <2>1. /\ Told(up \o <<x>>, "iframeReady") <=> Told(up, "iframeReady")
        /\ Ends(up, "iframeReady") => Ends(up \o <<x>>, "iframeReady")
    BY <1>2, SayMore DEF Ready
  <2>2. \A s, b, e : ~Says(x, s) /\ (Settles(up, s, b, e) => Settles(up \o <<x>>, s, b, e))
    BY <1>2, SettlesMore DEF Ready, Says
  <2> QED
    BY <2>1, <2>2 DEF Fits, Signals, Newest
<1> QED
  BY <1>1, <1>2

\* Another message is taken from the frame's queue, or from the window's.
LEMMA FitsLess ==
  ASSUME NEW f, NEW down \in Seq(FrameMessages), NEW up \in Seq(WindowMessages),
         NEW m, NEW d, NEW w, Fits(f, down, up, m, d, w)
  PROVE  /\ down # <<>> /\ Head(down).event \notin Ready => Fits(f, Tail(down), up, m, d, w)
         /\ up # <<>> /\ Head(up).event \notin Ready => Fits(f, down, Tail(up), m, d, w)
<1>1. ASSUME down # <<>>, Head(down).event \notin Ready
      PROVE  Fits(f, Tail(down), up, m, d, w)
  <2>1. /\ Told(Tail(down), "mainReady") => Told(down, "mainReady")
        /\ Quiet(down) => Quiet(Tail(down))
        /\ Ends(down, "mainReady") => Ends(Tail(down), "mainReady")
    BY <1>1, SayLess
  <2>2. \A s, b, e : Settles(down, s, b, e) => Settles(Tail(down), s, b, e)
    <3>1. \A s : ~Says(Head(down), s)
      BY <1>1 DEF Ready, Says
    <3> QED
      BY <3>1, <1>1, SettlesLess
  <2> QED
    BY <2>1, <2>2 DEF Fits, Signals, Newest
<1>2. ASSUME up # <<>>, Head(up).event \notin Ready
      PROVE  Fits(f, down, Tail(up), m, d, w)
  <2>1. /\ Told(Tail(up), "iframeReady") => Told(up, "iframeReady")
        /\ Ends(up, "iframeReady") => Ends(Tail(up), "iframeReady")
    BY <1>2, SayLess
  <2>2. \A s, b, e : Settles(up, s, b, e) => Settles(Tail(up), s, b, e)
    <3>1. \A s : ~Says(Head(up), s)
      BY <1>2 DEF Ready, Says
    <3> QED
      BY <3>1, <1>2, SettlesLess
  <2> QED
    BY <2>1, <2>2 DEF Fits, Signals, Newest
<1> QED
  BY <1>1, <1>2

\* The frame announces itself, when no other signal is under way and no app runs:
\* what it has, d2, and what is still under way to it, rest, may be anything.
LEMMA FitsAnnounce ==
  ASSUME NEW f, NEW down, NEW up \in Seq(WindowMessages), NEW m, NEW d, NEW w,
         Fits(f, down, up, m, d, w), ~Told(up, "iframeReady"),
         NEW rest, ~Told(rest, "mainReady"), NEW d2
  PROVE  Fits("env", rest, up \o <<IframeReady>>, m, d2, w)
<1>1. IframeReady \in WindowMessages
  BY Sent
<1>2. Ends(up \o <<IframeReady>>, "iframeReady")
  BY <1>1, SayMore DEF Fits, Signals
<1>3. Ends(rest, "mainReady")
  BY DEF Ends, Told
<1>4. \A s \in Names : Settles(up \o <<IframeReady>>, s, m[s], w[s])
  <2>1. \A s : ~Says(IframeReady, s)
    BY DEF Says, IframeReady
  <2> QED
    BY <2>1, <1>1, SettlesMore DEF Fits, Newest
<1> QED
  BY <1>2, <1>3, <1>4 DEF Fits, Signals, Newest

\* The document of the frame is gone, or the page of the app is there.
LEMMA FitsDocument ==
  ASSUME NEW f, NEW down, NEW up, NEW m, NEW d, NEW w, Fits(f, down, up, m, d, w)
  PROVE  /\ Fits("none", down, up, m, d, w)
         /\ f = "page" => Fits("app", down, up, m, d, w)
<1>1. Fits("none", down, up, m, d, w)
  BY DEF Fits, Signals, Newest
<1>2. f = "page" => \A s \in Names : d[s] = w[s]
  BY QuietSettles DEF Fits, Signals, Newest
<1> QED
  BY <1>1, <1>2 DEF Fits, Signals, Newest, ButForRefused

\* A frame takes the data of a store.
LEMMA FitsState ==
  ASSUME NEW f, NEW down \in Seq(FrameMessages), NEW up, NEW m, NEW d \in Contents, NEW w,
         Fits(f, down, up, m, d, w), down # <<>>, Head(down).event = "stateUpdate"
  PROVE  Fits(f, Tail(down), up, m, [d EXCEPT ![Head(down).store] = Head(down).data], w)
<1>1. /\ Told(Tail(down), "mainReady") => Told(down, "mainReady")
      /\ Quiet(down) => Head(down).event \notin Ready
      /\ Ends(down, "mainReady") => Ends(Tail(down), "mainReady")
  BY SayLess
<1>2. f \notin {"page", "app"}
  BY <1>1 DEF Fits, Signals, Ready
<1> DEFINE d2 == [d EXCEPT ![Head(down).store] = Head(down).data]
<1>3. \A s \in Names : d2[s] = IF s = Head(down).store THEN Head(down).data ELSE d[s]
  BY DEF Contents
<1> HIDE DEF d2
<1>4. ASSUME NEW s \in Names, Settles(down, s, d[s], w[s])
      PROVE  Settles(Tail(down), s, d2[s], w[s])
  <2>1. Says(Head(down), s) <=> s = Head(down).store
    BY DEF Says
  <2> QED
    BY <2>1, <1>3, <1>4, SettlesLess
<1>5. Signals(f, Tail(down), up)
  BY <1>1, <1>2 DEF Fits, Signals
<1>6. Newest(f, Tail(down), up, m, d2, w)
  BY <1>1, <1>2, <1>4 DEF Fits, Newest
<1> QED
  BY <1>5, <1>6 DEF Fits, d2

\* A frame is told to run its app.
LEMMA FitsMainReady ==
  ASSUME NEW f \in {"env", "page", "app"}, NEW down \in Seq(FrameMessages), NEW up, NEW m,
         NEW d, NEW w, Fits(f, down, up, m, d, w), down # <<>>, Head(down).event = "mainReady"
  PROVE  Fits("page", Tail(down), up, m, d, w)
<1>1. Told(down, "mainReady") /\ Ends(down, "mainReady") /\ ~Told(up, "iframeReady")
  BY SayLess DEF Fits, Signals
<1>2. Quiet(Tail(down)) /\ Ends(Tail(down), "mainReady")
  BY <1>1, SayLess
<1>3. f = "env"
  BY SayLess DEF Fits, Signals, Ready
<1>4. \A s \in Names : Settles(Tail(down), s, d[s], w[s])
  <2>1. \A s : ~Says(Head(down), s)
    BY DEF Says
  <2> QED
    BY <2>1, <1>1, <1>3, SettlesLess DEF Fits, Newest
<1> QED
  BY <1>1, <1>2, <1>4 DEF Fits, Signals, Newest

\* While the app runs, or its page loads, its frame has all it left; and the app
\* what refused sets left, too.
LEMMA FitsApp ==
  ASSUME NEW f \in {"page", "app"}, NEW down, NEW up, NEW m, NEW d, NEW w,
         Fits(f, down, up, m, d, w)
  PROVE  /\ \A s \in Names : Settles(up, s, m[s], w[s]) /\ ButForRefused(s, d[s], w[s])
         /\ f = "page" => \A s \in Names : d[s] = w[s]
         /\ ~Told(up, "iframeReady") /\ Quiet(down)
<1>1. Quiet(down) /\ ~Told(up, "iframeReady")
  BY DEF Fits, Signals
<1>2. \A s \in Names : Settles(up, s, m[s], w[s])
  BY DEF Fits, Newest
<1>3. CASE f = "page"
  <2>1. \A s \in Names : Settles(down, s, d[s], w[s])
    BY <1>3 DEF Fits, Newest
  <2>2. \A s \in Names : d[s] = w[s]
    BY <2>1, <1>1, QuietSettles
  <2> QED
    BY <2>2, <1>1, <1>2 DEF ButForRefused
<1>4. CASE f = "app"
  BY <1>1, <1>2, <1>4 DEF Fits, Newest
<1> QED
  BY <1>3, <1>4

\* The app changes the data of a store, and tells of it; or it leaves those of the
\* localStorage.
LEMMA FitsChange ==
  ASSUME NEW down \in Seq(FrameMessages), NEW up \in Seq(WindowMessages), NEW m,
         NEW d \in Contents, NEW w \in Contents, Fits("app", down, up, m, d, w),
         NEW s \in Names, NEW x \in Items
  PROVE  /\ Fits("app", down, up \o <<State(s, x)>>, m, [d EXCEPT ![s] = x], [w EXCEPT ![s] = x])
         /\ s = Shimmed /\ x = d[s]
              => Fits("app", down, up, m, [d EXCEPT ![s] = x], [w EXCEPT ![s] = x])
<1>1. /\ \A n \in Names : ButForRefused(n, d[n], w[n]) /\ Settles(up, n, m[n], w[n])
      /\ ~Told(up, "iframeReady") /\ Quiet(down)
  BY FitsApp
<1> DEFINE d2 == [d EXCEPT ![s] = x]
           w2 == [w EXCEPT ![s] = x]
           sent == State(s, x)
<1>2. /\ \A n \in Names : w2[n] = IF n = s THEN x ELSE w[n]
      /\ \A n \in Names : d2[n] = IF n = s THEN x ELSE d[n]
  BY DEF Contents
<1>3. /\ sent \in WindowMessages /\ sent.data = x /\ sent.event = "stateUpdate"
      /\ \A n : Says(sent, n) <=> n = s
  BY Sent DEF State, Says
<1> HIDE DEF d2, w2, sent
<1>4. \A n \in Names : ButForRefused(n, d2[n], w2[n])
  BY <1>1, <1>2 DEF ButForRefused
<1>5. Ends(down, "mainReady") /\ Ends(up, "iframeReady")
  BY DEF Fits, Signals
<1>6. /\ Ends(up \o <<sent>>, "iframeReady") /\ ~Told(up \o <<sent>>, "iframeReady")
  BY <1>1, <1>3, <1>5, SayMore
<1>7. \A n \in Names : Settles(up \o <<sent>>, n, m[n], w2[n])
  BY <1>1, <1>2, <1>3, SettlesMore
<1>8. Fits("app", down, up \o <<sent>>, m, d2, w2)
  BY <1>1, <1>4, <1>5, <1>6, <1>7 DEF Fits, Signals, Newest
<1>9. ASSUME s = Shimmed, x = d[s]
      PROVE  Fits("app", down, up, m, d2, w2)
  <2>1. d[s] = w[s]
    BY <1>1, <1>9 DEF ButForRefused
  <2>2. \A n \in Names : w2[n] = w[n]
    BY <2>1, <1>2, <1>9
  <2> QED
    BY <2>2, <1>1, <1>4, <1>5 DEF Fits, Signals, Newest
<1> QED
  BY <1>8, <1>9 DEF d2, w2, sent

\* A set of the app is refused.
LEMMA FitsRefuse ==
  ASSUME NEW down, NEW up, NEW m, NEW d \in Contents, NEW w \in Contents,
         Fits("app", down, up, m, d, w),
         NEW s \in Names \ {Shimmed}, NEW k \in Keys, d[s][k] = Absent
  PROVE  Fits("app", down, up, m, [d EXCEPT ![s][k] = Partial], w)
<1>1. /\ \A n \in Names : ButForRefused(n, d[n], w[n]) /\ Settles(up, n, m[n], w[n])
      /\ ~Told(up, "iframeReady") /\ Quiet(down)
  BY FitsApp
<1> DEFINE d2 == [d EXCEPT ![s][k] = Partial]
<1>2. /\ \A n \in Names \ {s} : d2[n] = d[n]
      /\ \A j \in Keys : d2[s][j] = IF j = k THEN Partial ELSE d[s][j]
  BY DEF Contents, Items
<1> HIDE DEF d2
<1>3. \A j \in Keys : d[s][j] # w[s][j] => d[s][j] = Partial /\ w[s][j] = Absent
  BY <1>1 DEF ButForRefused
<1>4. w[s][k] = Absent
  BY <1>3, ItemsDiffer
<1>5. ButForRefused(s, d2[s], w[s])
  BY <1>2, <1>3, <1>4 DEF ButForRefused
<1>6. \A n \in Names : ButForRefused(n, d2[n], w[n])
  BY <1>1, <1>2, <1>5
<1> QED
  BY <1>1, <1>6 DEF Fits, Signals, Newest, d2

\* The window takes the data of a store.
LEMMA FitsHear ==
  ASSUME NEW f, NEW down, NEW up \in Seq(WindowMessages), NEW m \in Contents, NEW d, NEW w,
         Fits(f, down, up, m, d, w), up # <<>>, Head(up).event = "stateUpdate"
  PROVE  Fits(f, down, Tail(up), [m EXCEPT ![Head(up).store] = Head(up).data], d, w)
<1>1. /\ Told(Tail(up), "iframeReady") => Told(up, "iframeReady")
      /\ Ends(up, "iframeReady") => Ends(Tail(up), "iframeReady")
  BY SayLess
<1> DEFINE m2 == [m EXCEPT ![Head(up).store] = Head(up).data]
<1>2. \A s \in Names : m2[s] = IF s = Head(up).store THEN Head(up).data ELSE m[s]
  BY DEF Contents
<1> HIDE DEF m2
<1>3. ASSUME NEW s \in Names, Settles(up, s, m[s], w[s])
      PROVE  Settles(Tail(up), s, m2[s], w[s])
  <2>1. Says(Head(up), s) <=> s = Head(up).store
    BY DEF Says
  <2> QED
    BY <2>1, <1>2, <1>3, SettlesLess
<1> QED
  BY <1>1, <1>3 DEF Fits, Signals, Newest, m2

\* A client answers the announcement of its frame with all its data.
LEMMA FitsReady ==
  ASSUME NEW f, NEW down \in Seq(FrameMessages), NEW up \in Seq(WindowMessages),
         NEW m \in Contents, NEW d, NEW w,
         Fits(f, down, up, m, d, w), up # <<>>, Head(up).event = "iframeReady"
  PROVE  Fits(f, down \o (SetData(m, Stores) \o <<MainReady>>), Tail(up), m, d, w)
<1>1. Told(up, "iframeReady") /\ Ends(up, "iframeReady")
  BY SayLess DEF Fits, Signals
<1>2. Quiet(Tail(up))
  BY <1>1, SayLess
<1>3. f \notin {"page", "app"} /\ ~Told(down, "mainReady")
  BY <1>1 DEF Fits, Signals
<1>4. \A s \in Names : m[s] = w[s] /\ Settles(Tail(up), s, m[s], w[s])
  <2>1. \A s : ~Says(Head(up), s)
    BY DEF Says
  <2>2. \A s \in Names : Settles(Tail(up), s, m[s], w[s])
    BY <2>1, SettlesLess DEF Fits, Newest
  <2> QED
    BY <2>2, <1>2, QuietSettles
<1> DEFINE all == down \o (SetData(m, Stores) \o <<MainReady>>)
<1>5. \A s \in Names : Settles(all, s, d[s], m[s])
  BY AnswerSettles DEF Contents
<1>6. Ends(all, "mainReady")
  BY <1>3, AnswerSettles DEF Contents
<1> HIDE DEF all
<1>7. ~Told(Tail(up), "iframeReady") /\ Ends(Tail(up), "iframeReady")
  BY <1>2, QuietTold
<1>8. Fits(f, all, Tail(up), m, d, w)
  BY <1>3, <1>4, <1>5, <1>6, <1>7 DEF Fits, Signals, Newest
<1> QED
  BY <1>8 DEF all

-----------------------------------------------------------------------------
(* The invariant.                                                          *)

Holds == Typed /\ Alone /\ Phases /\ OneStart

At(c) == Live(c) /\ ~doubled[c]
            => Fits(frame[c], toFrame[c], toMain[c], main[c], data[c], written[c])

\* The types of what belongs to one client.
LEMMA ClientTypes ==
  ASSUME Typed, NEW c \in Clients
  PROVE  /\ toFrame[c] \in Seq(FrameMessages) /\ toMain[c] \in Seq(WindowMessages)
         /\ main[c] \in Contents /\ data[c] \in Contents
         /\ saved[c] \in Contents /\ written[c] \in Contents
         /\ open[c] \in {"no", "mounting", "open", "left"}
         /\ frame[c] \in {"none", "env", "page", "app"}
         /\ doubled[c] \in BOOLEAN
BY DEF Typed, Kept, DataTypes, FrameTypes, WireTypes, Contents

\* A client that nothing has happened to.
LEMMA AtSame ==
  ASSUME NEW c \in Clients, At(c),
         open'[c] = open[c], doubled'[c] = doubled[c], frame'[c] = frame[c],
         toFrame'[c] = toFrame[c], toMain'[c] = toMain[c], main'[c] = main[c],
         data'[c] = data[c], written'[c] = written[c]
  PROVE  At(c)'
BY DEF At, Live

LEMMA OneStartAt == OneStart <=> \A c \in Clients : At(c)
BY DEF OneStart, At

\* What a new client sends does not tell the frame to run its app.
LEMMA FirstSent ==
  ASSUME NEW d \in [Names -> Items], NEW n \in Nat, NEW ss \in [1..n -> Names]
  PROVE  /\ SetData(d, ss) \o <<ReadyCheck>> \in Seq(FrameMessages)
         /\ ~Told(<<>> \o (SetData(d, ss) \o <<ReadyCheck>>), "mainReady")
<1>1. PICK e \in Seq(FrameMessages) : e = <<>> /\ Len(e) = 0
  BY EmptySeq
<1>2. PICK m \in FrameMessages : m = ReadyCheck
  BY Sent
<1> DEFINE all == e \o (SetData(d, ss) \o <<m>>)
<1>3. /\ DOMAIN all = 1..(Len(e) + n + 1)
      /\ \A i \in 1..n : all[Len(e) + i] = State(ss[i], d[ss[i]])
      /\ all[Len(e) + n + 1] = m
      /\ SetData(d, ss) \o <<m>> \in Seq(FrameMessages)
  BY AllMore, SMTT(30)
<1> HIDE DEF all
<1>4. ASSUME NEW i \in DOMAIN all
      PROVE  all[i].event # "mainReady"
  <2>1. CASE i = n + 1
    <3>1. all[i] = ReadyCheck
      BY <2>1, <1>1, <1>2, <1>3
    <3> QED
      BY <3>1 DEF ReadyCheck
  <2>2. CASE i # n + 1
    <3>1. i \in 1..n /\ Len(e) + i = i
      BY <2>2, <1>1, <1>3
    <3>2. all[i] = State(ss[i], d[ss[i]])
      BY <3>1, <1>3
    <3> QED
      BY <3>2 DEF State
  <2> QED
    BY <2>1, <2>2
<1>5. ~Told(all, "mainReady")
  BY <1>4 DEF Told
<1>6. all = <<>> \o (SetData(d, ss) \o <<ReadyCheck>>)
  BY <1>1, <1>2 DEF all
<1> QED
  BY <1>2, <1>3, <1>5, <1>6

\* The host mounts, the client is made, the host is destroyed.
LEMMA HoldsHost ==
  ASSUME ~Overlays, Holds, NEW c \in Clients, Mount(c) \/ Initialize(c) \/ Leave(c)
  PROVE  Alone' /\ Phases' /\ OneStart'
<1> USE DEF Holds, mains, frames, wires, asked, history
<1>1. /\ \A d \in Clients : At(d)
      /\ open \in [Clients -> {"no", "mounting", "open", "left"}]
      /\ frame \in [Clients -> {"none", "env", "page", "app"}]
  BY OneStartAt DEF Typed, Kept, FrameTypes
<1>2. CASE Mount(c)
  <2>1. /\ open[c] = "no" /\ open' = [open EXCEPT ![c] = "mounting"]
        /\ \A d \in Clients : open[d] \in {"no", "left"} /\ toMain[d] = <<>>
        /\ UNCHANGED <<order, main, frame, data, toFrame, toMain, saved, written, doubled>>
    BY <1>2 DEF Mount, Settled
  <2>2. Alone'
    BY <2>1, <1>1 DEF Alone
  <2>3. Phases'
    BY <2>1, <1>1 DEF Phases
  <2>4. \A d \in Clients : open'[d] # "open"
    BY <2>1, <1>1
  <2> QED
    BY <2>2, <2>3, <2>4 DEF OneStart, Live
<1>3. CASE Initialize(c)
  <2>1. /\ open[c] = "mounting" /\ open' = [open EXCEPT ![c] = "open"]
        /\ main' = [main EXCEPT ![c] = saved[c]]
        /\ UNCHANGED <<frame, data, toMain, saved, written, doubled>>
    BY <1>3 DEF Initialize
  <2>2. PICK ss \in WithData(saved[c]) : ToFrame(c, SetData(saved[c], ss) \o <<ReadyCheck>>)
    BY <1>3 DEF Initialize
  <2> DEFINE msgs == SetData(saved[c], ss) \o <<ReadyCheck>>
  <2>3. ~Told(<<>> \o msgs, "mainReady") /\ msgs \in Seq(FrameMessages)
    <3>1. PICK n \in Nat : ss \in [1..n -> Names]
      <4>1. PICK n \in 0..Len(Stores) : ss \in [1..n -> Names]
        BY <2>2 DEF WithData
      <4>2. Len(Stores) \in Nat
        BY StoresDiffer, LenProperties
      <4> QED
        BY <4>1, <4>2
    <3>2. saved[c] \in [Names -> Items]
      BY DEF Typed, DataTypes
    <3> QED
      BY <3>1, <3>2, FirstSent
  <2> HIDE DEF msgs
  <2>4. toFrame' = [toFrame EXCEPT ![c] = @ \o msgs] /\ toFrame[c] = <<>>
    BY <2>1, <2>2 DEF ToFrame, msgs, Phases
  <2>5. toFrame'[c] = <<>> \o msgs /\ \A d \in Clients : d # c => toFrame'[d] = toFrame[d]
    BY <2>4 DEF Typed, WireTypes
  <2>6. Alone'
    BY <2>1, <1>1 DEF Alone
  <2>7. Phases'
    BY <2>1, <2>5, <1>1 DEF Phases
  <2>8. At(c)'
    <3>1. frame[c] \in {"none", "env"} /\ toMain[c] \in {<<>>, <<IframeReady>>}
          /\ saved[c] = written[c]
      BY <2>1 DEF Phases
    <3>2. main'[c] = saved[c]
      BY <2>1 DEF Typed, Kept
    <3>3. Fits(frame[c], toFrame'[c], toMain[c], written[c], data[c], written[c])
      BY <2>3, <2>5, <3>1, FitsNew
    <3> QED
      BY <2>1, <3>1, <3>2, <3>3 DEF At
  <2>9. ASSUME NEW d \in Clients, d # c
        PROVE  At(d)'
    <3>1. open'[d] = open[d] /\ main'[d] = main[d] /\ toFrame'[d] = toFrame[d]
      BY <2>1, <2>5, <2>9 DEF Typed, Kept
    <3> QED
      BY <2>1, <3>1, <1>1, AtSame
  <2>10. OneStart'
    BY <2>8, <2>9 DEF OneStart, At
  <2> QED
    BY <2>6, <2>7, <2>10
<1>4. CASE Leave(c)
  <2>1. /\ open[c] = "open" /\ open' = [open EXCEPT ![c] = "left"]
        /\ frame' = [frame EXCEPT ![c] = "none"] /\ toFrame' = [toFrame EXCEPT ![c] = <<>>]
        /\ UNCHANGED <<main, data, toMain, saved, written, doubled>>
    BY <1>4 DEF Leave, Live
  <2>2. Alone'
    BY <2>1, <1>1 DEF Alone
  <2>3. toFrame \in [Clients -> Seq(FrameMessages)]
    BY DEF Typed, WireTypes
  <2>4. Phases'
    BY <2>1, <2>3, <1>1 DEF Phases
  <2>5. At(c)'
    BY <2>1, <1>1 DEF At, Live
  <2>6. ASSUME NEW d \in Clients, d # c
        PROVE  At(d)'
    <3>1. open'[d] = open[d] /\ frame'[d] = frame[d] /\ toFrame'[d] = toFrame[d]
      BY <2>1, <2>3, <2>6, <1>1
    <3> QED
      BY <2>1, <3>1, <1>1, AtSame
  <2>7. OneStart'
    BY <2>5, <2>6 DEF OneStart, At
  <2> QED
    BY <2>2, <2>4, <2>7
<1> QED
  BY <1>2, <1>3, <1>4

\* The documents of the frame.
LEMMA HoldsDocuments ==
  ASSUME Holds, NEW c \in Clients, FrameLoads(c) \/ FrameReloads(c) \/ StartApp(c)
  PROVE  Alone' /\ Phases' /\ OneStart'
<1> USE DEF Holds, mains, frames, wires, asked, history
<1>1. /\ \A d \in Clients : At(d)
      /\ open \in [Clients -> {"no", "mounting", "open", "left"}]
      /\ frame \in [Clients -> {"none", "env", "page", "app"}]
      /\ doubled \in [Clients -> BOOLEAN]
      /\ toFrame \in [Clients -> Seq(FrameMessages)]
      /\ toMain \in [Clients -> Seq(WindowMessages)]
      /\ data \in [Clients -> [Names -> Items]]
  BY OneStartAt DEF Typed, Kept, FrameTypes, WireTypes, DataTypes
<1>2. CASE FrameLoads(c)
  <2>1. PICK msgs \in Heard(toFrame[c]) :
          /\ toFrame' = [toFrame EXCEPT ![c] = msgs]
          /\ doubled' = [doubled EXCEPT ![c] = @ \/ Announced(toMain[c])
                           \/ \E n \in DOMAIN msgs : msgs[n] = MainReady]
    BY <1>2 DEF FrameLoads
  <2>2. /\ open[c] \in {"mounting", "open"} /\ frame[c] = "none"
        /\ frame' = [frame EXCEPT ![c] = "env"] /\ data' = [data EXCEPT ![c] = NoData]
        /\ toMain' = [toMain EXCEPT ![c] = @ \o <<IframeReady>>]
        /\ UNCHANGED <<open, main, saved, written>>
    BY <1>2 DEF FrameLoads, ToMain
  <2>3. msgs \in Seq(FrameMessages)
    <3>2. PICK n \in 1..(Len(toFrame[c]) + 1) : msgs = SubSeq(toFrame[c], n, Len(toFrame[c]))
      BY <2>1 DEF Heard
    <3>3. toFrame[c] \in Seq(FrameMessages) /\ Len(toFrame[c]) \in Nat
      BY <1>1, LenProperties
    <3>4. \A i \in n..Len(toFrame[c]) : i \in 1..Len(toFrame[c])
      BY <3>2, <3>3
    <3> QED
      BY <3>2, <3>3, <3>4, SubSeqProperties
  <2>4. open[c] = "mounting" => msgs = <<>>
    <3>1. ASSUME open[c] = "mounting" PROVE msgs = <<>>
      <4>1. toFrame[c] = <<>>
        BY <3>1 DEF Phases
      <4>2. PICK n \in 1..(Len(<<>>) + 1) : msgs = SubSeq(<<>>, n, Len(<<>>))
        BY <4>1, <2>1 DEF Heard
      <4> QED
        BY <4>2, SubSeqEmpty
    <3> QED
      BY <3>1
  <2>5. Alone'
    BY <2>2, <1>1 DEF Alone
  <2>6. Phases'
    <3> SUFFICES ASSUME NEW d \in Clients
                 PROVE  /\ open'[d] \in {"no", "left"} => frame'[d] = "none"
                        /\ open'[d] = "mounting" => frame'[d] \in {"none", "env"}
                        /\ open'[d] # "open" => toFrame'[d] = <<>>
                        /\ open'[d] = "no" => toMain'[d] = <<>>
                        /\ open'[d] = "mounting" => toMain'[d] \in {<<>>, <<IframeReady>>}
                        /\ open'[d] = "mounting" /\ frame'[d] = "none" => toMain'[d] = <<>>
                        /\ open'[d] \in {"no", "mounting"} => saved'[d] = written'[d]
      BY DEF Phases
    <3>1. CASE d = c
      <4>1. toFrame'[c] = msgs /\ frame'[c] = "env" /\ toMain'[c] = toMain[c] \o <<IframeReady>>
        BY <2>1, <2>2, <1>1
      <4>2. open[c] = "mounting" => toMain'[c] = <<IframeReady>>
        <5>1. open[c] = "mounting" => toMain[c] = <<>>
          BY <2>2 DEF Phases
        <5>2. <<>> \o <<IframeReady>> = <<IframeReady>>
          OBVIOUS
        <5> QED
          BY <4>1, <5>1, <5>2
      <4> QED
        BY <3>1, <4>1, <4>2, <2>2, <2>4 DEF Phases
    <3>2. CASE d # c
      <4>1. toFrame'[d] = toFrame[d] /\ frame'[d] = frame[d] /\ toMain'[d] = toMain[d]
        BY <3>2, <2>1, <2>2, <1>1
      <4> QED
        BY <4>1, <2>2 DEF Phases
    <3> QED
      BY <3>1, <3>2
  <2>7. At(c)'
    <3> SUFFICES ASSUME Live(c), ~doubled'[c]
                 PROVE  Fits(frame'[c], toFrame'[c], toMain'[c], main'[c], data'[c], written'[c])
      BY <2>2 DEF At, Live
    <3>1. /\ ~doubled[c] /\ ~Announced(toMain[c])
          /\ ~ \E n \in DOMAIN msgs : msgs[n] = MainReady
      BY <2>1, <1>1
    <3>2. ~Told(toMain[c], "iframeReady")
      BY <3>1, <1>1, WindowKinds, LenProperties, ElementOfSeq DEF Told, Announced
    <3>3. ~Told(msgs, "mainReady")
      BY <3>1, <2>3, FrameKinds, LenProperties, ElementOfSeq DEF Told
    <3>4. Fits(frame[c], toFrame[c], toMain[c], main[c], data[c], written[c])
      BY <3>1, <1>1 DEF At
    <3>5. Fits("env", msgs, toMain[c] \o <<IframeReady>>, main[c], data'[c], written[c])
      BY <3>2, <3>3, <3>4, <1>1, FitsAnnounce
    <3> QED
      BY <3>5, <2>1, <2>2, <1>1
  <2>8. ASSUME NEW d \in Clients, d # c
        PROVE  At(d)'
    <3>1. /\ toFrame'[d] = toFrame[d] /\ frame'[d] = frame[d] /\ toMain'[d] = toMain[d]
          /\ data'[d] = data[d] /\ doubled'[d] = doubled[d]
      BY <2>8, <2>1, <2>2, <1>1
    <3> QED
      BY <2>2, <3>1, <1>1, AtSame
  <2>9. OneStart'
    BY <2>7, <2>8 DEF OneStart, At
  <2> QED
    BY <2>5, <2>6, <2>9
<1>3. CASE FrameReloads(c)
  <2>1. /\ open[c] = "open" /\ frame' = [frame EXCEPT ![c] = "none"]
        /\ UNCHANGED <<open, main, data, toFrame, toMain, saved, written, doubled>>
    BY <1>3 DEF FrameReloads, Live
  <2>2. Alone' /\ Phases'
    BY <2>1, <1>1 DEF Alone, Phases
  <2>3. At(c)'
    BY <2>1, <1>1, FitsDocument DEF At, Live
  <2>4. ASSUME NEW d \in Clients, d # c
        PROVE  At(d)'
    <3>1. frame'[d] = frame[d]
      BY <2>4, <2>1, <1>1
    <3> QED
      BY <2>1, <3>1, <1>1, AtSame
  <2> QED
    BY <2>2, <2>3, <2>4 DEF OneStart, At
<1>4. CASE StartApp(c)
  <2>1. /\ frame[c] = "page" /\ frame' = [frame EXCEPT ![c] = "app"]
        /\ UNCHANGED <<open, main, data, toFrame, toMain, saved, written, doubled>>
    BY <1>4 DEF StartApp
  <2>2. Alone' /\ Phases'
    BY <2>1, <1>1 DEF Alone, Phases
  <2>3. At(c)'
    BY <2>1, <1>1, FitsDocument DEF At, Live
  <2>4. ASSUME NEW d \in Clients, d # c
        PROVE  At(d)'
    <3>1. frame'[d] = frame[d]
      BY <2>4, <2>1, <1>1
    <3> QED
      BY <2>1, <3>1, <1>1, AtSame
  <2> QED
    BY <2>2, <2>3, <2>4 DEF OneStart, At
<1> QED
  BY <1>2, <1>3, <1>4

\* An operation of the app on the items of a store: it tells of them, or leaves
\* them as they are.
LEMMA HoldsChange ==
  ASSUME Holds, NEW c \in Clients, NEW s \in Names, NEW x \in Items, NEW p, NEW w, NEW tells,
         Change(c, s, x, p, w, tells), tells \/ (s = Shimmed /\ x = data[c][s])
  PROVE  Alone' /\ Phases' /\ OneStart'
<1> USE DEF Holds, mains, frames, asked
<1>1. /\ \A d \in Clients : At(d)
      /\ open \in [Clients -> {"no", "mounting", "open", "left"}]
      /\ toMain \in [Clients -> Seq(WindowMessages)]
      /\ data \in [Clients -> [Names -> Items]] /\ written \in [Clients -> [Names -> Items]]
  BY OneStartAt DEF Typed, Kept, WireTypes, DataTypes
<1>2. /\ frame[c] = "app" /\ data' = [data EXCEPT ![c][s] = x]
      /\ written' = [written EXCEPT ![c][s] = x]
      /\ UNCHANGED <<open, main, frame, toFrame, saved, doubled>>
  BY DEF Change
<1>3. \/ toMain' = [toMain EXCEPT ![c] = @ \o <<State(s, x)>>]
      \/ toMain' = toMain /\ s = Shimmed /\ x = data[c][s]
  BY DEF Change, ToMain
<1>4. /\ data'[c] = [data[c] EXCEPT ![s] = x] /\ written'[c] = [written[c] EXCEPT ![s] = x]
      /\ \A d \in Clients : d # c => data'[d] = data[d] /\ written'[d] = written[d]
  BY <1>1, <1>2
<1>5. /\ \/ toMain'[c] = toMain[c] \o <<State(s, x)>>
         \/ toMain'[c] = toMain[c] /\ s = Shimmed /\ x = data[c][s]
      /\ \A d \in Clients : d # c => toMain'[d] = toMain[d]
  <2>1. CASE toMain' = [toMain EXCEPT ![c] = @ \o <<State(s, x)>>]
    BY <2>1, <1>1
  <2>2. CASE toMain' = toMain /\ s = Shimmed /\ x = data[c][s]
    BY <2>2
  <2> QED
    BY <2>1, <2>2, <1>3
<1>6. open[c] = "open"
  BY <1>1, <1>2 DEF Phases
<1>7. Alone'
  BY <1>1, <1>2, <1>5, <1>6 DEF Alone
<1>8. Phases'
  BY <1>1, <1>2, <1>4, <1>5, <1>6 DEF Phases
<1>9. At(c)'
  <2> SUFFICES ASSUME ~doubled[c]
               PROVE  Fits(frame[c], toFrame[c], toMain'[c], main[c], data'[c], written'[c])
    BY <1>2 DEF At, Live
  <2>1. Fits("app", toFrame[c], toMain[c], main[c], data[c], written[c])
    BY <1>1, <1>2, <1>6 DEF At, Live
  <2>2. /\ toFrame[c] \in Seq(FrameMessages) /\ toMain[c] \in Seq(WindowMessages)
        /\ data[c] \in Contents /\ written[c] \in Contents
    BY ClientTypes
  <2>3. /\ Fits("app", toFrame[c], toMain[c] \o <<State(s, x)>>, main[c],
                [data[c] EXCEPT ![s] = x], [written[c] EXCEPT ![s] = x])
        /\ s = Shimmed /\ x = data[c][s]
             => Fits("app", toFrame[c], toMain[c], main[c],
                     [data[c] EXCEPT ![s] = x], [written[c] EXCEPT ![s] = x])
    BY <2>1, <2>2, FitsChange
  <2> QED
    BY <2>3, <1>2, <1>4, <1>5
<1>10. ASSUME NEW d \in Clients, d # c
       PROVE  At(d)'
  BY <1>1, <1>2, <1>4, <1>5, <1>10, AtSame
<1> QED
  BY <1>7, <1>8, <1>9, <1>10 DEF OneStart, At

\* A set of the app is refused.
LEMMA HoldsRefuse ==
  ASSUME Holds, NEW c \in Clients, NEW s \in Names, NEW k \in Keys, RefuseValue(c, s, k)
  PROVE  Alone' /\ Phases' /\ OneStart'
<1> USE DEF Holds, mains, wires, history
<1>1. /\ \A d \in Clients : At(d)
      /\ open \in [Clients -> {"no", "mounting", "open", "left"}]
      /\ data \in [Clients -> [Names -> Items]]
  BY OneStartAt DEF Typed, Kept, DataTypes
<1>2. /\ frame[c] = "app" /\ data' = [data EXCEPT ![c][s][k] = Partial]
      /\ s # Shimmed /\ data[c][s][k] = Absent
      /\ UNCHANGED <<open, main, frame, toFrame, toMain, saved, written, doubled>>
  BY DEF RefuseValue
<1>3. /\ data'[c] = [data[c] EXCEPT ![s][k] = Partial]
      /\ \A d \in Clients : d # c => data'[d] = data[d]
  BY <1>1, <1>2
<1>4. Alone' /\ Phases'
  BY <1>2 DEF Alone, Phases
<1>5. At(c)'
  <2> SUFFICES ASSUME Live(c), ~doubled[c]
               PROVE  Fits(frame[c], toFrame[c], toMain[c], main[c], data'[c], written[c])
    BY <1>2 DEF At, Live
  <2>1. Fits("app", toFrame[c], toMain[c], main[c], data[c], written[c])
    BY <1>1, <1>2 DEF At
  <2>2. data[c] \in Contents /\ written[c] \in Contents
    BY ClientTypes
  <2>3. Fits("app", toFrame[c], toMain[c], main[c], [data[c] EXCEPT ![s][k] = Partial], written[c])
    BY <2>1, <2>2, <1>2, FitsRefuse
  <2> QED
    BY <2>3, <1>2, <1>3
<1>6. ASSUME NEW d \in Clients, d # c
      PROVE  At(d)'
  BY <1>1, <1>2, <1>3, <1>6, AtSame
<1> QED
  BY <1>4, <1>5, <1>6 DEF OneStart, At

\* A message that is not of the start goes to the frames, or to the window from a
\* client whose app runs, or the first one to a frame is of no account.
LEMMA HoldsOther ==
  ASSUME Holds,
         UNCHANGED <<open, order, main, frame, data, written, doubled>>,
         \A c \in Clients : saved'[c] # saved[c] => open[c] = "open",
         \A c \in Clients :
           \/ toMain'[c] = toMain[c]
           \/ frame[c] = "app" /\ \E m \in WindowMessages :
                m.event \notin Ready /\ toMain'[c] = toMain[c] \o <<m>>,
         \A c \in Clients :
           \/ toFrame'[c] = toFrame[c]
           \/ open[c] = "open" /\ \E m \in FrameMessages :
                m.event \notin Ready /\ toFrame'[c] = toFrame[c] \o <<m>>
           \/ toFrame[c] # <<>> /\ Head(toFrame[c]).event \notin Ready /\ toFrame'[c] = Tail(toFrame[c])
  PROVE  Alone' /\ Phases' /\ OneStart'
<1> USE DEF Holds
<1>1. \A c \in Clients : At(c)
  BY OneStartAt
<1>2. \A c \in Clients : frame[c] = "app" => open[c] = "open"
  BY ClientTypes DEF Phases
<1>3. \A c \in Clients : open[c] # "open" => toMain'[c] = toMain[c] /\ toFrame'[c] = toFrame[c]
  BY <1>2 DEF Phases
<1>4. Alone'
  <2> SUFFICES ASSUME NEW c \in Clients, NEW d \in Clients, open[c] \in {"mounting", "open"}, d # c
               PROVE  open[d] \in {"no", "left"} /\ toMain'[d] = <<>>
    BY DEF Alone
  <2>1. open[d] \in {"no", "left"} /\ toMain[d] = <<>>
    BY DEF Alone
  <2> QED
    BY <2>1, <1>3
<1>5. Phases'
  <2> SUFFICES ASSUME NEW c \in Clients
               PROVE  /\ open[c] \in {"no", "left"} => frame[c] = "none"
                      /\ open[c] = "mounting" => frame[c] \in {"none", "env"}
                      /\ open[c] # "open" => toFrame'[c] = <<>>
                      /\ open[c] = "no" => toMain'[c] = <<>>
                      /\ open[c] = "mounting" => toMain'[c] \in {<<>>, <<IframeReady>>}
                      /\ open[c] = "mounting" /\ frame[c] = "none" => toMain'[c] = <<>>
                      /\ open[c] \in {"no", "mounting"} => saved'[c] = written[c]
    BY DEF Phases
  <2>1. open[c] # "open" => saved'[c] = saved[c]
    OBVIOUS
  <2> QED
    BY <2>1, <1>3 DEF Phases
<1>6. ASSUME NEW c \in Clients
      PROVE  At(c)'
  <2> SUFFICES ASSUME Live(c), ~doubled[c]
               PROVE  Fits(frame[c], toFrame'[c], toMain'[c], main[c], data[c], written[c])
    BY DEF At, Live
  <2>1. Fits(frame[c], toFrame[c], toMain[c], main[c], data[c], written[c])
    BY <1>1 DEF At
  <2>2. toFrame[c] \in Seq(FrameMessages) /\ toMain[c] \in Seq(WindowMessages)
    BY ClientTypes
  <2>3. /\ Fits(frame[c], toFrame[c], toMain'[c], main[c], data[c], written[c])
        /\ toMain'[c] \in Seq(WindowMessages)
    <3>1. CASE toMain'[c] = toMain[c]
      BY <2>1, <2>2, <3>1
    <3>2. ASSUME NEW m \in WindowMessages, m.event \notin Ready, toMain'[c] = toMain[c] \o <<m>>
          PROVE  /\ Fits(frame[c], toFrame[c], toMain'[c], main[c], data[c], written[c])
                 /\ toMain'[c] \in Seq(WindowMessages)
      <4>1. toMain[c] \o <<m>> \in Seq(WindowMessages)
        BY <2>2, <3>2, OneMore
      <4>2. Fits(frame[c], toFrame[c], toMain[c] \o <<m>>, main[c], data[c], written[c])
        BY <2>1, <2>2, <3>2, FitsMore
      <4> QED
        BY <4>1, <4>2, <3>2
    <3> QED
      BY <3>1, <3>2
  <2>4. PICK up \in Seq(WindowMessages) :
          up = toMain'[c] /\ Fits(frame[c], toFrame[c], up, main[c], data[c], written[c])
    BY <2>3
  <2>5. CASE toFrame'[c] = toFrame[c]
    BY <2>4, <2>5
  <2>6. ASSUME NEW m \in FrameMessages, m.event \notin Ready, toFrame'[c] = toFrame[c] \o <<m>>
        PROVE  Fits(frame[c], toFrame'[c], toMain'[c], main[c], data[c], written[c])
    BY <2>2, <2>4, <2>6, FitsMore
  <2>7. ASSUME toFrame[c] # <<>>, Head(toFrame[c]).event \notin Ready, toFrame'[c] = Tail(toFrame[c])
        PROVE  Fits(frame[c], toFrame'[c], toMain'[c], main[c], data[c], written[c])
    BY <2>2, <2>4, <2>7, FitsLess
  <2> QED
    BY <2>5, <2>6, <2>7
<1> QED
  BY <1>4, <1>5, <1>6 DEF OneStart, At

\* What the app does.
LEMMA HoldsOperate ==
  ASSUME Holds, NEW c \in Clients, Operate(c)
  PROVE  Alone' /\ Phases' /\ OneStart'
<1>1. /\ Shimmed \in Names /\ NoItems \in Items
      /\ \A s \in Names : data[c][s] \in Items
      /\ \A s \in Names, k \in Keys, v \in Values \cup {Absent} : [data[c][s] EXCEPT ![k] = v] \in Items
  <2>1. Shimmed \in Names /\ NoItems \in Items
    BY ItemsKept
  <2>2. \A s \in Names : data[c][s] \in Items
    BY DEF Holds, Typed, DataTypes
  <2>3. \A i \in Items, k \in Keys, v \in Values \cup {Absent} : [i EXCEPT ![k] = v] \in Items
    BY ItemsKept
  <2> QED
    BY <2>1, <2>2, <2>3
<1>2. ASSUME NEW k \in Keys, NEW v \in Values, SetItem(c, k, v)
      PROVE  Alone' /\ Phases' /\ OneStart'
  <2>1. Change(c, Shimmed, [data[c][Shimmed] EXCEPT ![k] = v], Put(shim[c], k, v),
               [meant[c] EXCEPT ![k] = v], TRUE)
    BY <1>2 DEF SetItem
  <2> QED
    BY <2>1, <1>1, HoldsChange
<1>3. ASSUME NEW k \in Keys, RemoveItem(c, k)
      PROVE  Alone' /\ Phases' /\ OneStart'
  <2>1. Change(c, Shimmed, [data[c][Shimmed] EXCEPT ![k] = Absent], Put(shim[c], k, Absent),
               [meant[c] EXCEPT ![k] = Absent], TRUE)
    BY <1>3 DEF RemoveItem
  <2> QED
    BY <2>1, <1>1, HoldsChange
<1>4. ASSUME Clear(c)
      PROVE  Alone' /\ Phases' /\ OneStart'
  <2>1. Change(c, Shimmed, NoItems, shim[c], NoItems, TRUE)
    BY <1>4 DEF Clear
  <2> QED
    BY <2>1, <1>1, HoldsChange
<1>5. ASSUME NEW k \in Keys, NEW v \in Values \cup {Absent}, SetProperty(c, k, v)
      PROVE  Alone' /\ Phases' /\ OneStart'
  <2>1. Change(c, Shimmed, data[c][Shimmed], Put(shim[c], k, v), [meant[c] EXCEPT ![k] = v], FALSE)
    BY <1>5 DEF SetProperty
  <2> QED
    BY <2>1, <1>1, HoldsChange
<1>6. ASSUME Look(c)
      PROVE  Alone' /\ Phases' /\ OneStart'
  <2>1. FromShim(c) \in Items
    BY <1>1 DEF FromShim, Holds, Typed, DataTypes, Shims, Items
  <2>2. CASE FromShim(c) = data[c][Shimmed]
    <3>1. UNCHANGED <<mains, frame, data, toFrame, toMain, saved, written, doubled>>
      BY <1>6, <2>2 DEF Look
    <3> QED
      BY <3>1, HoldsOther DEF mains
  <2>3. CASE FromShim(c) # data[c][Shimmed]
    <3>1. Change(c, Shimmed, FromShim(c), ToShim(FromShim(c)), meant[c], TRUE)
      BY <1>6, <2>3 DEF Look
    <3> QED
      BY <3>1, <2>1, <1>1, HoldsChange
  <2> QED
    BY <2>2, <2>3
<1>7. ASSUME NEW s \in Names, NEW k \in Keys, NEW v \in Values, SetValue(c, s, k, v)
      PROVE  Alone' /\ Phases' /\ OneStart'
  <2>1. Change(c, s, [data[c][s] EXCEPT ![k] = v], shim[c], meant[c], TRUE)
    BY <1>7 DEF SetValue
  <2>2. [data[c][s] EXCEPT ![k] = v] \in Items
    BY <1>1
  <2> QED
    BY <2>1, <2>2, HoldsChange
<1>8. ASSUME NavigateApp(c)
      PROVE  Alone' /\ Phases' /\ OneStart'
  BY <1>8, HoldsOther DEF NavigateApp, mains, wires, history
<1>9. ASSUME NEW r \in Requests, NEW kind \in Kinds, Ask(c, r, kind)
      PROVE  Alone' /\ Phases' /\ OneStart'
  <2>1. /\ frame[c] = "app"
        /\ UNCHANGED <<mains, frames, toFrame, saved, history>>
    BY <1>9 DEF Ask
  <2>2. PICK m \in WindowMessages :
          m.event \notin Ready /\ toMain' = [toMain EXCEPT ![c] = @ \o <<m>>]
    <3>1. /\ NavigateTo(r) \in WindowMessages /\ DataRequested(r) \in WindowMessages
          /\ NavigateTo(r).event \notin Ready /\ DataRequested(r).event \notin Ready
      BY Sent DEF NavigateTo, DataRequested, Ready
    <3>2. \/ toMain' = [toMain EXCEPT ![c] = @ \o <<NavigateTo(r)>>]
          \/ toMain' = [toMain EXCEPT ![c] = @ \o <<DataRequested(r)>>]
      BY <1>9 DEF Ask, ToMain
    <3> QED
      BY <3>1, <3>2
  <2>3. toMain'[c] = toMain[c] \o <<m>> /\ \A d \in Clients : d # c => toMain'[d] = toMain[d]
    BY <2>2 DEF Holds, Typed, WireTypes
  <2>4. \A d \in Clients :
           \/ toMain'[d] = toMain[d]
           \/ frame[d] = "app" /\ \E x \in WindowMessages :
                x.event \notin Ready /\ toMain'[d] = toMain[d] \o <<x>>
    BY <2>1, <2>2, <2>3
  <2> QED
    BY <2>1, <2>4, HoldsOther DEF mains, frames, history
<1> QED
  BY <1>2, <1>3, <1>4, <1>5, <1>6, <1>7, <1>8, <1>9, HoldsRefuse DEF Operate

\* A message arrives at the frame.
LEMMA HoldsFrameReceives ==
  ASSUME Holds, NEW c \in Clients, FrameReceives(c)
  PROVE  Alone' /\ Phases' /\ OneStart'
<1> USE DEF Holds, mains, frames
<1> DEFINE m == Head(toFrame[c])
<1>1. /\ frame[c] # "none" /\ toFrame[c] # <<>>
      /\ toFrame' = [toFrame EXCEPT ![c] = Tail(@)]
      /\ UNCHANGED <<open, order, main, saved, written>>
  BY DEF FrameReceives
<1>2. \/ m.event = "stateUpdate" /\ ReceiveState(c, m)
      \/ m.event = "mainReady" /\ ReceiveMainReady(c)
      \/ m.event = "readyCheck" /\ ReceiveReadyCheck(c)
      \/ m.event = "dataReturned" /\ ReceiveReply(c, m)
      \/ m.event = "navigateTo" /\ UNCHANGED <<frames, toMain, promise, doubled>>
  BY DEF FrameReceives
<1>3. /\ toFrame[c] \in Seq(FrameMessages) /\ toMain[c] \in Seq(WindowMessages)
      /\ data[c] \in Contents /\ open[c] = "open" /\ m \in FrameMessages
      /\ frame[c] \in {"env", "page", "app"}
  BY <1>1, ClientTypes, OneLess DEF Phases
<1>4. /\ toFrame'[c] = Tail(toFrame[c])
      /\ \A d \in Clients : d # c => toFrame'[d] = toFrame[d]
  BY <1>1 DEF Typed, WireTypes
<1>5. /\ \A d \in Clients : At(d)
      /\ open \in [Clients -> {"no", "mounting", "open", "left"}]
      /\ frame \in [Clients -> {"none", "env", "page", "app"}]
      /\ doubled \in [Clients -> BOOLEAN]
      /\ toMain \in [Clients -> Seq(WindowMessages)]
      /\ data \in [Clients -> [Names -> Items]]
  BY OneStartAt DEF Typed, Kept, FrameTypes, WireTypes, DataTypes
<1>6. ~doubled[c] => Fits(frame[c], toFrame[c], toMain[c], main[c], data[c], written[c])
  BY <1>3, <1>5 DEF At, Live
<1> HIDE DEF m
<1>7. CASE m.event = "stateUpdate" /\ ReceiveState(c, m)
  <2>1. /\ data' = [data EXCEPT ![c][m.store] = m.data]
        /\ UNCHANGED <<frame, toMain, doubled>>
    BY <1>7 DEF ReceiveState
  <2>2. /\ data'[c] = [data[c] EXCEPT ![m.store] = m.data]
        /\ \A d \in Clients : d # c => data'[d] = data[d]
    BY <2>1, <1>5
  <2>3. Alone' /\ Phases'
    BY <2>1, <1>1, <1>3, <1>4 DEF Alone, Phases
  <2>4. At(c)'
    <3> SUFFICES ASSUME ~doubled[c]
                 PROVE  Fits(frame[c], toFrame'[c], toMain[c], main[c], data'[c], written[c])
      BY <2>1, <1>1 DEF At, Live
    <3>1. Head(toFrame[c]).event = "stateUpdate"
      BY <1>7 DEF m
    <3>2. Fits(frame[c], Tail(toFrame[c]), toMain[c], main[c],
               [data[c] EXCEPT ![Head(toFrame[c]).store] = Head(toFrame[c]).data], written[c])
      BY <3>1, <1>1, <1>3, <1>6, FitsState
    <3> QED
      BY <3>2, <2>2, <1>4 DEF m
  <2>5. ASSUME NEW d \in Clients, d # c
        PROVE  At(d)'
    BY <2>1, <2>2, <2>5, <1>1, <1>4, <1>5, AtSame
  <2> QED
    BY <2>3, <2>4, <2>5 DEF OneStart, At
<1>8. CASE m.event = "mainReady" /\ ReceiveMainReady(c)
  <2>1. frame' = [frame EXCEPT ![c] = "page"] /\ UNCHANGED <<data, toMain, doubled>>
    BY <1>8 DEF ReceiveMainReady
  <2>2. frame'[c] = "page" /\ \A d \in Clients : d # c => frame'[d] = frame[d]
    BY <2>1, <1>5
  <2>3. Alone' /\ Phases'
    BY <2>1, <2>2, <1>1, <1>3, <1>4 DEF Alone, Phases
  <2>4. At(c)'
    <3> SUFFICES ASSUME ~doubled[c]
                 PROVE  Fits("page", Tail(toFrame[c]), toMain[c], main[c], data[c], written[c])
      BY <2>1, <2>2, <1>1, <1>4 DEF At, Live
    <3>1. Head(toFrame[c]).event = "mainReady"
      BY <1>8 DEF m
    <3> QED
      BY <3>1, <1>1, <1>3, <1>6, FitsMainReady
  <2>5. ASSUME NEW d \in Clients, d # c
        PROVE  At(d)'
    BY <2>1, <2>2, <2>5, <1>1, <1>4, <1>5, AtSame
  <2> QED
    BY <2>3, <2>4, <2>5 DEF OneStart, At
<1>9. CASE m.event = "readyCheck" /\ ReceiveReadyCheck(c)
  <2>1. /\ toMain' = [toMain EXCEPT ![c] = @ \o <<IframeReady>>]
        /\ doubled' = [doubled EXCEPT ![c] = @ \/ Started(c) \/ Announced(toMain[c])]
        /\ UNCHANGED <<frame, data>>
    BY <1>9 DEF ReceiveReadyCheck, ToMain
  <2>2. /\ toMain'[c] = toMain[c] \o <<IframeReady>>
        /\ \A d \in Clients : d # c => toMain'[d] = toMain[d] /\ doubled'[d] = doubled[d]
    BY <2>1, <1>5
  <2>3. Alone'
    BY <2>2, <1>1, <1>3 DEF Alone
  <2>4. Phases'
    BY <2>1, <2>2, <1>1, <1>3, <1>4 DEF Phases
  <2>5. At(c)'
    <3> SUFFICES ASSUME ~doubled'[c]
                 PROVE  Fits(frame[c], Tail(toFrame[c]), toMain[c] \o <<IframeReady>>,
                             main[c], data[c], written[c])
      BY <2>1, <2>2, <1>1, <1>4 DEF At, Live
    <3>1. ~doubled[c] /\ ~Started(c) /\ ~Announced(toMain[c])
      BY <2>1, <1>5
    <3>2. ~Told(toMain[c], "iframeReady")
      BY <3>1, <1>3, WindowKinds, LenProperties, ElementOfSeq DEF Told, Announced
    <3>3. ~Told(toFrame[c], "mainReady") /\ frame[c] = "env"
      BY <3>1, <1>3, FrameKinds, LenProperties, ElementOfSeq DEF Told, Started
    <3>4. ~Told(Tail(toFrame[c]), "mainReady")
      BY <3>3, <1>1, <1>3, SayLess
    <3> QED
      BY <3>1, <3>2, <3>3, <3>4, <1>3, <1>6, FitsAnnounce
  <2>6. ASSUME NEW d \in Clients, d # c
        PROVE  At(d)'
    BY <2>1, <2>2, <2>6, <1>1, <1>4, <1>5, AtSame
  <2> QED
    BY <2>3, <2>4, <2>5, <2>6 DEF OneStart, At
<1>10. CASE \/ m.event = "dataReturned" /\ ReceiveReply(c, m)
            \/ m.event = "navigateTo" /\ UNCHANGED <<frames, toMain, promise, doubled>>
  <2>1. m.event \notin Ready /\ UNCHANGED <<frame, data, toMain, doubled>>
    BY <1>10 DEF ReceiveReply, Ready
  <2>2. \A d \in Clients :
           \/ toFrame'[d] = toFrame[d]
           \/ toFrame[d] # <<>> /\ Head(toFrame[d]).event \notin Ready /\ toFrame'[d] = Tail(toFrame[d])
    BY <2>1, <1>1, <1>4 DEF m
  <2> QED
    BY <2>1, <2>2, <1>1, HoldsOther
<1> QED
  BY <1>2, <1>7, <1>8, <1>9, <1>10

\* A message arrives at the window: it is of the one client that is open, if any is.
LEMMA HoldsMainReceives ==
  ASSUME Holds, NEW c \in Clients, MainReceives(c)
  PROVE  Alone' /\ Phases' /\ OneStart'
<1> USE DEF Holds
<1> DEFINE m == Head(toMain[c])
<1>1. /\ toMain[c] # <<>> /\ toMain' = [toMain EXCEPT ![c] = Tail(@)]
      /\ UNCHANGED <<open, order, frame, data, saved, written, doubled>>
  BY DEF MainReceives, frames, history
<1>2. \/ m.event = "stateUpdate" /\ HearState(m)
      \/ m.event = "iframeReady" /\ HearReady
      \/ m.event = "dataRequested" /\ HearRequest(m)
      \/ m.event = "navigateTo" /\ HearNavigate(m)
  BY DEF MainReceives
<1>3. /\ toFrame[c] \in Seq(FrameMessages) /\ toMain[c] \in Seq(WindowMessages)
      /\ main[c] \in Contents
  BY ClientTypes
<1>4. /\ toMain'[c] = Tail(toMain[c])
      /\ \A d \in Clients : d # c => toMain'[d] = toMain[d]
  BY <1>1 DEF Typed, WireTypes
<1>5. \A d \in Clients : d # c => open[d] \notin {"mounting", "open"}
  BY <1>1 DEF Alone
<1>6. open[c] # "no" /\ (open[c] = "mounting" => Tail(toMain[c]) = <<>>)
  <2>1. open[c] = "mounting" => toMain[c] = <<IframeReady>>
    BY <1>1 DEF Phases
  <2>2. Tail(<<IframeReady>>) = <<>>
    OBVIOUS
  <2> QED
    BY <2>1, <2>2, <1>1 DEF Phases
<1>7. Live(c) /\ ~doubled[c] => Fits(frame[c], toFrame[c], toMain[c], main[c], data[c], written[c])
  BY DEF OneStart
<1>8. \A d \in Clients : Live(d) => d \in Listening
  BY DEF Typed, Made, Live
<1>9. Alone'
  BY <1>1, <1>4, <1>5 DEF Alone
<1>10. (\A d \in Clients : ~Live(d) => toFrame'[d] = toFrame[d]) => Phases'
  <2> SUFFICES ASSUME \A d \in Clients : ~Live(d) => toFrame'[d] = toFrame[d], NEW d \in Clients
               PROVE  /\ open[d] \in {"no", "left"} => frame[d] = "none"
                      /\ open[d] = "mounting" => frame[d] \in {"none", "env"}
                      /\ open[d] # "open" => toFrame'[d] = <<>>
                      /\ open[d] = "no" => toMain'[d] = <<>>
                      /\ open[d] = "mounting" => toMain'[d] \in {<<>>, <<IframeReady>>}
                      /\ open[d] = "mounting" /\ frame[d] = "none" => toMain'[d] = <<>>
                      /\ open[d] \in {"no", "mounting"} => saved[d] = written[d]
    BY <1>1 DEF Phases
  <2>1. open[d] # "open" => toFrame'[d] = <<>>
    BY DEF Phases, Live
  <2>2. CASE d = c
    BY <2>1, <2>2, <1>4, <1>6 DEF Phases
  <2>3. CASE d # c
    BY <2>1, <2>3, <1>4 DEF Phases
  <2> QED
    BY <2>2, <2>3
<1>11. (Live(c) /\ ~doubled[c] => Fits(frame[c], toFrame'[c], toMain'[c], main'[c], data[c], written[c]))
         => OneStart'
  BY <1>1, <1>5 DEF OneStart, Live
<1> HIDE DEF m
<1>12. CASE m.event = "stateUpdate" /\ HearState(m)
  <2>1. /\ main' = [d \in Clients |-> IF d \in Listening
                                      THEN [main[d] EXCEPT ![m.store] = m.data] ELSE main[d]]
        /\ toFrame' = toFrame
    BY <1>12 DEF HearState
  <2>2. ASSUME Live(c), ~doubled[c]
        PROVE  Fits(frame[c], toFrame'[c], toMain'[c], main'[c], data[c], written[c])
    <3>1. main'[c] = [main[c] EXCEPT ![m.store] = m.data]
      BY <2>1, <2>2, <1>8
    <3>2. Head(toMain[c]).event = "stateUpdate"
      BY <1>12 DEF m
    <3>3. Fits(frame[c], toFrame[c], Tail(toMain[c]),
               [main[c] EXCEPT ![Head(toMain[c]).store] = Head(toMain[c]).data], data[c], written[c])
      BY <3>2, <2>2, <1>1, <1>3, <1>7, FitsHear
    <3> QED
      BY <3>1, <3>3, <2>1, <1>4 DEF m
  <2> QED
    BY <2>1, <2>2, <1>9, <1>10, <1>11
<1>13. CASE m.event = "iframeReady" /\ HearReady
  <2>1. /\ toFrame' = [d \in Clients |-> IF d \in Listening /\ Live(d)
                                         THEN toFrame[d] \o AnswerReady(d) ELSE toFrame[d]]
        /\ main' = main
    BY <1>13 DEF HearReady, ToLive
  <2>2. ASSUME Live(c), ~doubled[c]
        PROVE  Fits(frame[c], toFrame'[c], toMain'[c], main'[c], data[c], written[c])
    <3>1. toFrame'[c] = toFrame[c] \o (SetData(main[c], Stores) \o <<MainReady>>)
      BY <2>1, <2>2, <1>8 DEF AnswerReady
    <3>2. Head(toMain[c]).event = "iframeReady"
      BY <1>13 DEF m
    <3>3. Fits(frame[c], toFrame[c] \o (SetData(main[c], Stores) \o <<MainReady>>),
               Tail(toMain[c]), main[c], data[c], written[c])
      BY <3>2, <2>2, <1>1, <1>3, <1>7, FitsReady
    <3> QED
      BY <3>1, <3>3, <2>1, <1>4
  <2>3. \A d \in Clients : ~Live(d) => toFrame'[d] = toFrame[d]
    BY <2>1
  <2> QED
    BY <2>2, <2>3, <1>9, <1>10, <1>11
<1>14. CASE m.event = "dataRequested" /\ HearRequest(m)
  <2>1. main' = main /\ toFrame' = toFrame
    BY <1>14 DEF HearRequest
  <2>2. ASSUME Live(c), ~doubled[c]
        PROVE  Fits(frame[c], toFrame'[c], toMain'[c], main'[c], data[c], written[c])
    <3>1. Head(toMain[c]).event \notin Ready
      BY <1>14 DEF m, Ready
    <3> QED
      BY <3>1, <2>1, <2>2, <1>1, <1>3, <1>4, <1>7, FitsLess
  <2> QED
    BY <2>1, <2>2, <1>9, <1>10, <1>11
<1>15. CASE m.event = "navigateTo" /\ HearNavigate(m)
  <2>1. /\ toFrame' = [d \in Clients |-> IF d \in Listening /\ Live(d)
                                         THEN toFrame[d] \o <<NavigateTo(m.req)>> ELSE toFrame[d]]
        /\ main' = main
    BY <1>15 DEF HearNavigate, ToLive
  <2>2. ASSUME Live(c), ~doubled[c]
        PROVE  Fits(frame[c], toFrame'[c], toMain'[c], main'[c], data[c], written[c])
    <3>1. Head(toMain[c]).event \notin Ready
      BY <1>15 DEF m, Ready
    <3>2. Fits(frame[c], toFrame[c], Tail(toMain[c]), main[c], data[c], written[c])
      BY <3>1, <2>2, <1>1, <1>3, <1>7, FitsLess
    <3>3. PICK x \in FrameMessages : x = NavigateTo(m.req) /\ x.event \notin Ready
      <4>1. m \in WindowMessages /\ m.event = "navigateTo"
        BY <1>1, <1>3, <1>15, OneLess DEF m
      <4>2. m.req \in Requests
        BY <4>1, WindowKinds
      <4>3. NavigateTo(m.req).event \notin Ready
        BY DEF NavigateTo, Ready
      <4> QED
        BY <4>2, <4>3, Sent
    <3>4. Tail(toMain[c]) \in Seq(WindowMessages)
      BY <1>1, <1>3, OneLess
    <3>5. Fits(frame[c], toFrame[c] \o <<x>>, Tail(toMain[c]), main[c], data[c], written[c])
      BY <3>2, <3>3, <3>4, <1>3, FitsMore
    <3>6. toFrame'[c] = toFrame[c] \o <<x>>
      BY <2>1, <2>2, <3>3, <1>8
    <3> QED
      BY <3>5, <3>6, <2>1, <1>4
  <2>3. \A d \in Clients : ~Live(d) => toFrame'[d] = toFrame[d]
    BY <2>1
  <2> QED
    BY <2>2, <2>3, <1>9, <1>10, <1>11
<1> QED
  BY <1>2, <1>12, <1>13, <1>14, <1>15

\* A message of the window to itself arrives.
LEMMA HoldsLocalReceives ==
  ASSUME Holds, LocalReceives
  PROVE  Alone' /\ Phases' /\ OneStart'
<1> USE DEF Holds
<1> DEFINE m == Head(local)
<1>1. UNCHANGED <<open, order, main, frame, data, toMain, written, doubled>>
  BY DEF LocalReceives, mains, frames, history
<1>2. \/ m.event = "stateUpdate" /\ HearLocalState(m)
      \/ m.event = "collectionRequested" /\ HearLocalRequest(m)
      \/ m.event = "dataReturned" /\ HearLocalReply(m)
  BY DEF LocalReceives
<1>3. m \in LocalMessages
  <2>1. local \in Seq(LocalMessages) /\ local # <<>>
    BY DEF LocalReceives, Typed, WireTypes
  <2> QED
    BY <2>1, OneLess
<1> HIDE DEF m
<1>4. \A x \in Returns : x \in FrameMessages /\ x.event \notin Ready
  BY DEF Returns, FrameMessages, DataReturned, Ready
<1>5. CASE m.event = "stateUpdate" /\ HearLocalState(m)
  <2>1. /\ saved' = [c \in Clients |-> IF Live(c) /\ host[c] = "html5" THEN m.data ELSE saved[c]]
        /\ toFrame' = toFrame
    BY <1>5 DEF HearLocalState
  <2>2. \A c \in Clients : saved'[c] # saved[c] => open[c] = "open"
    BY <2>1 DEF Live
  <2> QED
    BY <2>1, <2>2, <1>1, HoldsOther
<1>6. CASE m.event = "collectionRequested" /\ HearLocalRequest(m)
  <2> DEFINE customs == Customs
             reply == DataReturned(m.req, "resolved")
  <2>1. saved' = saved
    BY <1>6 DEF HearLocalRequest, ToLive
  <2>2. \/ toFrame' = toFrame
        \/ toFrame' = [c \in Clients |->
                         IF c \in Listening /\ Live(c)
                         THEN toFrame[c] \o (IF c \in customs THEN <<reply>> ELSE <<>>)
                         ELSE toFrame[c]]
    BY <1>6 DEF HearLocalRequest, ToLive
  <2>3. reply \in FrameMessages /\ reply.event \notin Ready
    <3>1. m.req \in Requests
      BY <1>3, <1>6, LocalKinds
    <3>2. reply \in Returns
      BY <3>1 DEF Returns
    <3> QED
      BY <3>2, <1>4
  <2> HIDE DEF customs, reply
  <2>4. \A c \in Clients :
           \/ toFrame'[c] = toFrame[c]
           \/ open[c] = "open" /\ \E x \in FrameMessages :
                x.event \notin Ready /\ toFrame'[c] = toFrame[c] \o <<x>>
    <3>1. \A c \in Clients : toFrame[c] \o <<>> = toFrame[c]
      BY ClientTypes, ConcatEmptySeq
    <3>2. CASE toFrame' = toFrame
      BY <3>2
    <3>3. CASE toFrame' = [c \in Clients |->
                             IF c \in Listening /\ Live(c)
                             THEN toFrame[c] \o (IF c \in customs THEN <<reply>> ELSE <<>>)
                             ELSE toFrame[c]]
      <4> SUFFICES ASSUME NEW c \in Clients
                   PROVE  \/ toFrame'[c] = toFrame[c]
                          \/ open[c] = "open" /\ toFrame'[c] = toFrame[c] \o <<reply>>
        BY <2>3
      <4>1. CASE c \in Listening /\ Live(c) /\ c \in customs
        BY <4>1, <3>3 DEF Live
      <4>2. CASE c \in Listening /\ Live(c) /\ c \notin customs
        BY <4>2, <3>1, <3>3
      <4>3. CASE ~(c \in Listening /\ Live(c))
        BY <4>3, <3>3
      <4> QED
        BY <4>1, <4>2, <4>3
    <3> QED
      BY <2>2, <3>2, <3>3
  <2> QED
    BY <2>1, <2>4, <1>1, HoldsOther
<1>7. CASE m.event = "dataReturned" /\ HearLocalReply(m)
  <2>1. toFrame' = [c \in Clients |-> IF c \in Listening /\ Live(c)
                                      THEN toFrame[c] \o <<m>> ELSE toFrame[c]]
        /\ saved' = saved
    BY <1>7 DEF HearLocalReply, ToLive
  <2>2. m \in FrameMessages /\ m.event \notin Ready
    BY <1>3, <1>4, <1>7, LocalKinds
  <2>3. \A c \in Clients :
           \/ toFrame'[c] = toFrame[c]
           \/ open[c] = "open" /\ \E x \in FrameMessages :
                x.event \notin Ready /\ toFrame'[c] = toFrame[c] \o <<x>>
    BY <2>1, <2>2 DEF Live
  <2> QED
    BY <2>1, <2>3, <1>1, HoldsOther
<1> QED
  BY <1>2, <1>5, <1>6, <1>7

\* What a host fetched is there.
LEMMA HoldsFetchEnds ==
  ASSUME Holds, NEW c \in Clients, NEW r \in Requests, FetchEnds(c, r)
  PROVE  Alone' /\ Phases' /\ OneStart'
<1> USE DEF Holds
<1>1. UNCHANGED <<open, order, main, frame, data, toMain, saved, written, doubled>>
  BY DEF FetchEnds, mains, frames, history
<1>2. PICK status \in {"resolved", "rejected"} :
         \/ toFrame' = toFrame
         \/ Live(c) /\ toFrame' = [toFrame EXCEPT ![c] = Append(@, DataReturned(r, status))]
  BY DEF FetchEnds
<1>3. PICK m \in FrameMessages : m = DataReturned(r, status) /\ m.event \notin Ready
  BY Sent DEF DataReturned, Ready
<1>4. CASE toFrame' = toFrame
  BY <1>1, <1>4, HoldsOther
<1>5. CASE Live(c) /\ toFrame' = [toFrame EXCEPT ![c] = Append(@, m)]
  <2>1. toFrame \in [Clients -> Seq(FrameMessages)]
    BY DEF Typed, WireTypes
  <2>2. Append(toFrame[c], m) = toFrame[c] \o <<m>>
    BY <2>1, AppendIsConcat
  <2>3. /\ toFrame'[c] = toFrame[c] \o <<m>>
        /\ \A d \in Clients : d # c => toFrame'[d] = toFrame[d]
    BY <2>1, <2>2, <1>5
  <2>4. \A d \in Clients :
           \/ toFrame'[d] = toFrame[d]
           \/ open[d] = "open" /\ \E x \in FrameMessages :
                x.event \notin Ready /\ toFrame'[d] = toFrame[d] \o <<x>>
    BY <2>3, <1>3, <1>5 DEF Live
  <2> QED
    BY <2>4, <1>1, HoldsOther
<1> QED
  BY <1>2, <1>3, <1>4, <1>5

\* Nothing has been opened.
LEMMA HoldsInit == Init => Holds
<1> SUFFICES ASSUME Init PROVE Holds
  OBVIOUS
<1>1. Typed
  BY TypeInit, TypeParts DEF Typed
<1>2. \A c \in Clients : open[c] = "no" /\ frame[c] = "none" /\ toFrame[c] = <<>>
                         /\ toMain[c] = <<>> /\ saved[c] = written[c]
  BY DEF Init
<1>3. Alone /\ Phases
  BY <1>2 DEF Alone, Phases
<1>4. OneStart
  BY <1>2 DEF OneStart, Live
<1> QED
  BY <1>1, <1>3, <1>4 DEF Holds

\* Every step keeps the invariant.
LEMMA HoldsStep ==
  ASSUME ~Overlays
  PROVE  Holds /\ [Next]_vars => Holds'
<1> SUFFICES ASSUME Holds, [Next]_vars PROVE Holds'
  OBVIOUS
<1>1. Typed'
  BY TypeStep DEF Holds
<1>2. CASE UNCHANGED vars
  BY <1>1, <1>2, HoldsOther DEF Holds, vars, mains, frames, wires, asked, history
<1>3. ASSUME NEW c \in Clients, Mount(c) \/ Initialize(c) \/ Leave(c)
      PROVE  Alone' /\ Phases' /\ OneStart'
  BY <1>3, HoldsHost
<1>4. ASSUME NEW c \in Clients, FrameLoads(c) \/ FrameReloads(c) \/ StartApp(c)
      PROVE  Alone' /\ Phases' /\ OneStart'
  BY <1>4, HoldsDocuments
<1>5. ASSUME NEW c \in Clients, Operate(c) \/ FrameReceives(c) \/ MainReceives(c)
      PROVE  Alone' /\ Phases' /\ OneStart'
  BY <1>5, HoldsOperate, HoldsFrameReceives, HoldsMainReceives
<1>6. ASSUME NEW c \in Clients, NEW r \in Requests, FetchEnds(c, r)
      PROVE  Alone' /\ Phases' /\ OneStart'
  BY <1>6, HoldsFetchEnds
<1>7. ASSUME Next
      PROVE  Alone' /\ Phases' /\ OneStart'
  BY <1>3, <1>4, <1>5, <1>6, <1>7, HoldsLocalReceives DEF Next
<1> QED
  BY <1>1, <1>2, <1>7 DEF Holds

LEMMA HoldsAlways ==
  ASSUME ~Overlays
  PROVE  Spec => []Holds
BY HoldsInit, HoldsStep, PTL DEF Spec

-----------------------------------------------------------------------------
(* The window and the host.                                                *)

\* Messages without data do not change what the window will have heard last.
LEMMA TellsMore ==
  ASSUME NEW msgs \in Seq(LocalMessages), NEW more \in Seq(LocalMessages), Quieted(more)
  PROVE  /\ Quieted(msgs) => Quieted(msgs \o more)
         /\ \A before, d : SettlesAll(msgs, before, d) => SettlesAll(msgs \o more, before, d)
<1> DEFINE all == msgs \o more
<1>1. /\ Len(msgs) \in Nat /\ Len(more) \in Nat
      /\ DOMAIN msgs = 1..Len(msgs) /\ DOMAIN more = 1..Len(more)
      /\ DOMAIN all = 1..(Len(msgs) + Len(more))
  BY ConcatProperties, LenProperties
<1>2. \A n \in 1..Len(msgs) : all[n] = msgs[n]
  BY <1>1, ConcatProperties
<1>3. \A n \in DOMAIN all : n > Len(msgs) => n - Len(msgs) \in DOMAIN more
                                             /\ all[n] = more[n - Len(msgs)]
  BY <1>1, ConcatProperties
<1>4. \A n \in DOMAIN all : n > Len(msgs) => ~Tells(all[n])
  BY <1>3 DEF Quieted
<1> HIDE DEF all
<1>5. Quieted(msgs) => Quieted(all)
  BY <1>1, <1>2, <1>4 DEF Quieted
<1>6. ASSUME NEW before, NEW d, SettlesAll(msgs, before, d)
      PROVE  SettlesAll(all, before, d)
  <2>1. CASE d = before /\ \A n \in DOMAIN msgs : ~Tells(msgs[n])
    BY <2>1, <1>5 DEF SettlesAll, Quieted
  <2>2. CASE \E n \in DOMAIN msgs : /\ Tells(msgs[n]) /\ msgs[n].data = d
                                    /\ \A m \in DOMAIN msgs : m > n => ~Tells(msgs[m])
    <3>1. PICK n \in DOMAIN msgs : /\ Tells(msgs[n]) /\ msgs[n].data = d
                                   /\ \A m \in DOMAIN msgs : m > n => ~Tells(msgs[m])
      BY <2>2
    <3>2. n \in DOMAIN all /\ all[n] = msgs[n]
      BY <3>1, <1>1, <1>2
    <3>3. ASSUME NEW m \in DOMAIN all, m > n
          PROVE  ~Tells(all[m])
      <4>1. CASE m > Len(msgs)
        BY <4>1, <1>4
      <4>2. CASE ~(m > Len(msgs))
        <5>1. m \in 1..Len(msgs)
          BY <4>2, <1>1
        <5> QED
          BY <5>1, <3>1, <3>3, <1>1, <1>2
      <4> QED
        BY <4>1, <4>2
    <3> QED
      BY <3>1, <3>2, <3>3 DEF SettlesAll
  <2> QED
    BY <1>6, <2>1, <2>2 DEF SettlesAll
<1> QED
  BY <1>5, <1>6 DEF all

\* Of several messages with data the last one counts.
LEMMA TellsAll ==
  ASSUME NEW msgs \in Seq(LocalMessages), NEW more \in Seq(LocalMessages), more # <<>>,
         \A n \in DOMAIN more : Tells(more[n])
  PROVE  \A before : SettlesAll(msgs \o more, before, more[Len(more)].data)
<1> DEFINE all == msgs \o more
           last == Len(msgs) + Len(more)
<1>1. /\ Len(msgs) \in Nat /\ Len(more) \in Nat \ {0}
      /\ DOMAIN more = 1..Len(more) /\ DOMAIN all = 1..last
  BY ConcatProperties, LenProperties, EmptySeq
<1>2. all[last] = more[Len(more)] /\ last \in DOMAIN all /\ Len(more) \in DOMAIN more
  BY <1>1, ConcatProperties
<1>3. \A m \in DOMAIN all : ~(m > last)
  BY <1>1
<1> HIDE DEF all, last
<1>4. SUFFICES ASSUME NEW before
               PROVE  SettlesAll(all, before, more[Len(more)].data)
  BY DEF all
<1> QED
  BY <1>2, <1>3 DEF SettlesAll

\* The window has heard a message.
LEMMA TellsLess ==
  ASSUME NEW msgs \in Seq(LocalMessages), msgs # <<>>
  PROVE  /\ Quieted(msgs) => Quieted(Tail(msgs))
         /\ \A before, d : SettlesAll(msgs, before, d) =>
              \/ ~Tells(Head(msgs)) /\ SettlesAll(Tail(msgs), before, d)
              \/ Tells(Head(msgs)) /\ SettlesAll(Tail(msgs), Head(msgs).data, d)
<1> DEFINE rest == Tail(msgs)
<1>1. /\ Head(msgs) = msgs[1] /\ 1 \in DOMAIN msgs
      /\ \A n \in DOMAIN rest : n + 1 \in DOMAIN msgs /\ rest[n] = msgs[n + 1]
      /\ \A n \in DOMAIN msgs : n # 1 => n - 1 \in DOMAIN rest /\ rest[n - 1] = msgs[n]
      /\ DOMAIN msgs \subseteq Nat /\ DOMAIN rest \subseteq Nat \ {0}
  <2>1. rest \in Seq(LocalMessages)
    BY OneLess
  <2>2. DOMAIN rest \subseteq Nat \ {0}
    BY <2>1, LenProperties
  <2> QED
    BY <2>2, OneLess
<1> HIDE DEF rest
<1>2. Quieted(msgs) => Quieted(rest)
  BY <1>1 DEF Quieted
<1>3. ASSUME NEW before, NEW d, SettlesAll(msgs, before, d)
      PROVE  \/ ~Tells(Head(msgs)) /\ SettlesAll(rest, before, d)
             \/ Tells(Head(msgs)) /\ SettlesAll(rest, Head(msgs).data, d)
  <2>1. CASE d = before /\ \A n \in DOMAIN msgs : ~Tells(msgs[n])
    BY <2>1, <1>1 DEF SettlesAll
  <2>2. CASE \E n \in DOMAIN msgs : /\ Tells(msgs[n]) /\ msgs[n].data = d
                                    /\ \A m \in DOMAIN msgs : m > n => ~Tells(msgs[m])
    <3>1. PICK n \in DOMAIN msgs : /\ Tells(msgs[n]) /\ msgs[n].data = d
                                   /\ \A m \in DOMAIN msgs : m > n => ~Tells(msgs[m])
      BY <2>2
    <3>2. ASSUME NEW m \in DOMAIN rest, m + 1 > n
          PROVE  ~Tells(rest[m])
      BY <3>1, <3>2, <1>1
    <3>3. CASE n = 1
      <4>1. \A m \in DOMAIN rest : ~Tells(rest[m])
        BY <3>2, <3>3, <1>1
      <4> QED
        BY <4>1, <3>1, <3>3, <1>1 DEF SettlesAll
    <3>4. CASE n # 1
      <4>1. n - 1 \in DOMAIN rest /\ rest[n - 1] = msgs[n]
        BY <3>4, <1>1
      <4>2. \A m \in DOMAIN rest : m > n - 1 => ~Tells(rest[m])
        BY <3>2, <1>1
      <4>3. \A b : SettlesAll(rest, b, d)
        BY <4>1, <4>2, <3>1 DEF SettlesAll
      <4> QED
        BY <4>3
    <3> QED
      BY <3>3, <3>4
  <2> QED
    BY <1>3, <2>1, <2>2 DEF SettlesAll
<1> QED
  BY <1>2, <1>3 DEF rest

\* What the clients tell the window, one after the other.
LEMMA EachTells ==
  ASSUME NEW f \in [Clients -> LocalMessages], NEW os \in Seq(Clients)
  PROVE  LET more == [n \in DOMAIN os |-> f[os[n]]] IN
         /\ more \in Seq(LocalMessages)
         /\ \A n \in DOMAIN more : \E c \in Clients : more[n] = f[c]
         /\ os # <<>> => more # <<>> /\ more[Len(more)] = f[os[Len(os)]]
<1> DEFINE more == [n \in DOMAIN os |-> f[os[n]]]
<1>1. DOMAIN os = 1..Len(os) /\ Len(os) \in Nat /\ \A n \in DOMAIN os : os[n] \in Clients
  BY LenProperties, ElementOfSeq
<1>2. more \in [1..Len(os) -> LocalMessages]
  BY <1>1
<1>3. more \in Seq(LocalMessages) /\ Len(more) = Len(os)
  BY <1>1, <1>2, SeqDef
<1>4. os # <<>> => Len(os) \in DOMAIN os
  BY <1>1, EmptySeq
<1>5. os # <<>> => more # <<>> /\ more[Len(more)] = f[os[Len(os)]]
  BY <1>1, <1>3, <1>4, EmptySeq
<1> QED
  BY <1>1, <1>3, <1>5

\* What the window hears of itself goes on when the clients do not change.
LEMMA FollowsSame ==
  ASSUME Follows, UNCHANGED <<open, host, order, main, local, saved>>
  PROVE  Follows'
BY DEF Follows, Live, Quieted

\* More is under way to the window, without data.
LEMMA FollowsMore ==
  ASSUME Holds, Follows, UNCHANGED <<open, host, order, main, saved>>,
         NEW more \in Seq(LocalMessages), Quieted(more), local' = local \o more
  PROVE  Follows'
<1>1. local \in Seq(LocalMessages)
  BY DEF Holds, Typed, WireTypes
<1>2. /\ Quieted(local) => Quieted(local')
      /\ \A c \in Clients : SettlesAll(local, saved[c], main[c])
                              => SettlesAll(local', saved[c], main[c])
  BY <1>1, TellsMore
<1> QED
  BY <1>2 DEF Follows, Live, Quieted

\* The host mounts, the client is made, the host is destroyed.
LEMMA FollowsHost ==
  ASSUME ~Overlays, Holds, Follows, NEW c \in Clients, Mount(c) \/ Initialize(c) \/ Leave(c)
  PROVE  Follows'
<1>1. /\ open \in [Clients -> {"no", "mounting", "open", "left"}] /\ order \in Seq(Clients)
      /\ main \in [Clients -> Contents]
  BY DEF Holds, Typed, Kept, Contents
<1>2. CASE Mount(c)
  <2>1. /\ open' = [open EXCEPT ![c] = "mounting"] /\ local' = <<>>
        /\ \A d \in Clients : open[d] \in {"no", "left"}
    BY <1>2 DEF Mount, Settled, wires
  <2>2. Quieted(local')
    BY <2>1 DEF Quieted
  <2>3. \A d \in Clients : ~Live(d)'
    BY <2>1, <1>1 DEF Live
  <2> QED
    BY <2>2, <2>3 DEF Follows
<1>3. CASE Initialize(c)
  <2>1. /\ open[c] = "mounting" /\ open' = [open EXCEPT ![c] = "open"]
        /\ main' = [main EXCEPT ![c] = saved[c]] /\ order' = Append(order, c)
        /\ saved' = saved /\ local' = local /\ host' = host
    BY <1>3 DEF Initialize
  <2>2. \A d \in Clients : d # c => ~Live(d)' /\ open'[d] # "mounting"
    BY <2>1, <1>1 DEF Holds, Alone, Live
  <2>3. open'[c] = "open" /\ main'[c] = saved'[c]
    BY <2>1, <1>1
  <2>4. order' # <<>> /\ order'[Len(order')] = c
    BY <2>1, <1>1, AppendProperties
  <2>5. Quieted(local')
    BY <2>1 DEF Follows
  <2>6. SettlesAll(local', saved'[c], main'[c])
    BY <2>3, <2>5 DEF SettlesAll, Quieted
  <2> QED
    BY <2>2, <2>3, <2>4, <2>6 DEF Follows
<1>4. CASE Leave(c)
  <2>1. /\ open' = [open EXCEPT ![c] = "left"]
        /\ UNCHANGED <<host, order, main, local, saved>>
    BY <1>4 DEF Leave
  <2>2. \A d \in Clients : (Live(d)' => Live(d)) /\ (open'[d] = "mounting" => open[d] = "mounting")
    BY <2>1, <1>1 DEF Live
  <2> QED
    BY <2>1, <2>2 DEF Follows, Quieted
<1> QED
  BY <1>2, <1>3, <1>4

\* A message arrives at the window.
LEMMA FollowsMainReceives ==
  ASSUME Holds, Follows, NEW c \in Clients, MainReceives(c)
  PROVE  Follows'
<1> DEFINE m == Head(toMain[c])
<1>1. /\ m \in WindowMessages /\ order \in Seq(Clients) /\ local \in Seq(LocalMessages)
      /\ UNCHANGED <<open, host, order, saved>>
      /\ main \in [Clients -> Contents]
  <2>1. toMain[c] # <<>> /\ toMain \in [Clients -> Seq(WindowMessages)]
    BY DEF MainReceives, Holds, Typed, WireTypes
  <2> QED
    BY <2>1, OneLess DEF MainReceives, Holds, Typed, Kept, WireTypes, Contents
<1>2. \/ m.event = "stateUpdate" /\ HearState(m)
      \/ m.event = "iframeReady" /\ HearReady
      \/ m.event = "dataRequested" /\ HearRequest(m)
      \/ m.event = "navigateTo" /\ HearNavigate(m)
  BY DEF MainReceives
<1>3. \A d \in Clients : open[d] = "mounting" => m.event = "iframeReady"
  <2> SUFFICES ASSUME NEW d \in Clients, open[d] = "mounting"
               PROVE  m.event = "iframeReady"
    OBVIOUS
  <2>1. toMain[c] # <<>>
    BY DEF MainReceives
  <2>2. c = d
    BY <2>1 DEF Holds, Alone
  <2>3. toMain[c] = <<IframeReady>>
    BY <2>1, <2>2 DEF Holds, Phases
  <2>4. m = IframeReady
    BY <2>3
  <2> QED
    BY <2>4 DEF IframeReady
<1> HIDE DEF m
<1>4. CASE m.event = "stateUpdate" /\ HearState(m)
  <2>1. main' \in [Clients -> Contents]
    BY TypeMainReceives DEF Holds, Typed, Kept, Contents
  <2>2. PICK f \in [Clients -> LocalMessages] : \A d \in Clients : f[d] = AllStates(main'[d])
    <3> DEFINE f == [d \in Clients |-> AllStates(main'[d])]
    <3>1. f \in [Clients -> LocalMessages] /\ \A d \in Clients : f[d] = AllStates(main'[d])
      BY <2>1, Sent DEF Contents
    <3> QED
      BY <3>1
  <2> DEFINE more == [n \in DOMAIN order |-> f[order[n]]]
  <2>3. /\ more \in Seq(LocalMessages)
        /\ \A n \in DOMAIN more : \E d \in Clients : more[n] = f[d]
        /\ order # <<>> => more # <<>> /\ more[Len(more)] = f[order[Len(order)]]
    BY <1>1, EachTells
  <2>4. local' = local \o more
    <3>1. \A n \in DOMAIN order : order[n] \in Clients
      BY <1>1, ElementOfSeq, LenProperties
    <3>2. more = [n \in DOMAIN order |-> AllStates(main'[order[n]])]
      BY <3>1, <2>2
    <3> QED
      BY <3>2, <1>4 DEF HearState
  <2>5. \A n \in DOMAIN more : Tells(more[n])
    BY <2>2, <2>3 DEF Tells, AllStates
  <2> HIDE DEF more
  <2> SUFFICES ASSUME NEW d \in Clients, open[d] = "open"
               PROVE  SettlesAll(local', saved'[d], main'[d])
    BY <1>1, <1>3, <1>4 DEF Follows, Live
  <2>6. order # <<>> /\ order[Len(order)] = d
    BY DEF Follows, Live
  <2>7. more # <<>> /\ more[Len(more)].data = main'[d]
    BY <2>2, <2>3, <2>6 DEF AllStates
  <2> QED
    BY <2>3, <2>4, <2>5, <2>7, <1>1, TellsAll
<1>5. CASE m.event = "dataRequested" /\ HearRequest(m)
  <2>1. m.req \in Requests
    BY <1>1, <1>5, WindowKinds
  <2>2. PICK f \in [Clients -> LocalMessages] :
               \A d \in Clients : f[d] = CollectionRequested(m.req)
    <3> DEFINE f == [d \in Clients |-> CollectionRequested(m.req)]
    <3>1. f \in [Clients -> LocalMessages] /\ \A d \in Clients : f[d] = CollectionRequested(m.req)
      BY <2>1, Sent
    <3> QED
      BY <3>1
  <2> DEFINE more == [n \in DOMAIN order |-> f[order[n]]]
  <2>3. /\ more \in Seq(LocalMessages)
        /\ \A n \in DOMAIN more : \E d \in Clients : more[n] = f[d]
    BY <1>1, EachTells
  <2>4. local' = local \o more
    <3>1. \A n \in DOMAIN order : order[n] \in Clients
      BY <1>1, ElementOfSeq, LenProperties
    <3>2. more = [n \in DOMAIN order |-> CollectionRequested(m.req)]
      BY <3>1, <2>2
    <3> QED
      BY <3>2, <1>5 DEF HearRequest
  <2>5. Quieted(more)
    BY <2>2, <2>3 DEF Quieted, Tells, CollectionRequested
  <2> HIDE DEF more
  <2>6. main' = main
    BY <1>5 DEF HearRequest
  <2> QED
    BY <2>3, <2>4, <2>5, <2>6, <1>1, FollowsMore
<1>6. CASE HearReady \/ HearNavigate(m)
  BY <1>1, <1>6, FollowsSame DEF HearReady, HearNavigate
<1> QED
  BY <1>2, <1>4, <1>5, <1>6

\* A message of the window to itself arrives.
LEMMA FollowsLocalReceives ==
  ASSUME Holds, Follows, LocalReceives
  PROVE  Follows'
<1> DEFINE m == Head(local)
<1>1. /\ local # <<>> /\ local \in Seq(LocalMessages) /\ local' = Tail(local)
      /\ UNCHANGED <<open, host, order, main>>
      /\ saved \in [Clients -> Contents]
  <2>1. local # <<>> /\ local' = Tail(local) /\ UNCHANGED mains
    BY DEF LocalReceives
  <2>2. local \in Seq(LocalMessages) /\ saved \in [Clients -> Contents]
    BY DEF Holds, Typed, Kept, DataTypes, WireTypes, Contents
  <2> QED
    BY <2>1, <2>2 DEF mains
<1>2. /\ Quieted(local) => Quieted(local')
      /\ \A b, d : SettlesAll(local, b, d) =>
           \/ ~Tells(m) /\ SettlesAll(local', b, d)
           \/ Tells(m) /\ SettlesAll(local', m.data, d)
  BY <1>1, TellsLess
<1>3. \/ m.event = "stateUpdate" /\ HearLocalState(m)
      \/ m.event = "collectionRequested" /\ HearLocalRequest(m)
      \/ m.event = "dataReturned" /\ HearLocalReply(m)
  BY DEF LocalReceives
<1> HIDE DEF m
<1>4. \A c \in Clients : Live(c) /\ host[c] = "html5" =>
        \/ Tells(m) /\ saved'[c] = m.data
        \/ ~Tells(m) /\ saved'[c] = saved[c]
  BY <1>1, <1>3 DEF HearLocalState, HearLocalRequest, HearLocalReply, Tells
<1>5. ASSUME NEW c \in Clients, Live(c), host[c] = "html5"
      PROVE  SettlesAll(local', saved'[c], main[c])
  <2>1. SettlesAll(local, saved[c], main[c])
    BY <1>5 DEF Follows
  <2> QED
    BY <2>1, <1>2, <1>4, <1>5
<1> QED
  BY <1>1, <1>2, <1>5 DEF Follows, Live

\* What a host fetched is there.
LEMMA FollowsFetchEnds ==
  ASSUME Holds, Follows, NEW c \in Clients, NEW r \in Requests, FetchEnds(c, r)
  PROVE  Follows'
<1>1. UNCHANGED <<open, host, order, main, saved>>
  BY DEF FetchEnds, mains
<1>2. PICK status \in {"resolved", "rejected"} :
         local' = local \/ local' = Append(local, DataReturned(r, status))
  BY DEF FetchEnds
<1>3. PICK m \in LocalMessages : m = DataReturned(r, status)
  BY Sent
<1>4. local \in Seq(LocalMessages)
  BY DEF Holds, Typed, WireTypes
<1>5. CASE local' = Append(local, m)
  <2>1. local' = local \o <<m>> /\ <<m>> \in Seq(LocalMessages)
    BY <1>4, <1>5, AppendIsConcat
  <2>2. ~Tells(m)
    BY <1>3 DEF Tells, DataReturned
  <2>3. Quieted(<<m>>)
    BY <2>2 DEF Quieted
  <2> QED
    BY <2>1, <2>3, <1>1, FollowsMore
<1> QED
  BY <1>1, <1>2, <1>3, <1>5, FollowsSame

\* Every step keeps it.
LEMMA FollowsStep ==
  ASSUME ~Overlays
  PROVE  Holds /\ Follows /\ [Next]_vars => Follows'
<1> SUFFICES ASSUME Holds, Follows, [Next]_vars PROVE Follows'
  OBVIOUS
<1>1. CASE UNCHANGED vars
  BY <1>1, FollowsSame DEF vars, mains, wires
<1>2. ASSUME NEW c \in Clients, FrameLoads(c) \/ FrameReloads(c) \/ StartApp(c) \/ FrameReceives(c)
      PROVE  Follows'
  <2>1. UNCHANGED <<open, host, order, main, local, saved>>
    BY <1>2 DEF FrameLoads, FrameReloads, StartApp, FrameReceives, mains, wires
  <2> QED
    BY <2>1, FollowsSame
<1>3. ASSUME NEW c \in Clients, Operate(c)
      PROVE  Follows'
  <2>1. UNCHANGED <<open, host, order, main, local, saved>>
    BY <1>3 DEF Operate, SetItem, RemoveItem, Clear, SetProperty, Look, SetValue, RefuseValue,
                NavigateApp, Ask, Change, mains, wires
  <2> QED
    BY <2>1, FollowsSame
<1>4. CASE Next
  BY <1>2, <1>3, <1>4, FollowsHost, FollowsMainReceives, FollowsLocalReceives, FollowsFetchEnds
     DEF Next
<1> QED
  BY <1>1, <1>4

LEMMA FollowsAlways ==
  ASSUME ~Overlays
  PROVE  Spec => []Follows
<1>1. Init => Follows
  <2> SUFFICES ASSUME Init PROVE Follows
    OBVIOUS
  <2>1. \A c \in Clients : open[c] = "no"
    BY DEF Init
  <2> QED
    BY <2>1 DEF Follows, Live
<1> QED
  BY <1>1, HoldsAlways, FollowsStep, PTL DEF Spec

-----------------------------------------------------------------------------
\* One client is open at a time, its signals of the start are under way one at a
\* time, and what is under way last in a direction is the newest (IFRAMEREADY,
\* MAINREADY, updateData).
THEOREM StartsInOrder ==
  ASSUME ~Overlays
  PROVE  Spec => []IInv
<1>1. Holds /\ Follows => IInv
  BY TypeParts DEF Holds, IInv, Typed
<1> QED
  BY <1>1, HoldsAlways, FollowsAlways, PTL

\* What the client has, or will have when the messages have arrived, is what the
\* app has, but for what refused sets left in the frame (stateUpdated, updateData,
\* setByKeyPath), and what the host saves, or will then save,
\* is what the client has (onStateUpdate).
THEOREM DataStayInStep ==
  ASSUME ~Overlays
  PROVE  Spec => []InStep
<1>1. Holds => \A c \in Clients : Live(c) /\ frame[c] = "app" /\ ~doubled[c]
                 => \A s \in Names : \E w \in Items :
                      Settles(toMain[c], s, main[c][s], w) /\ ButForRefused(s, data[c][s], w)
  <2> SUFFICES ASSUME Holds, NEW c \in Clients, Live(c), frame[c] = "app", ~doubled[c],
                      NEW s \in Names
               PROVE  \E w \in Items :
                        Settles(toMain[c], s, main[c][s], w) /\ ButForRefused(s, data[c][s], w)
    OBVIOUS
  <2>1. Fits("app", toFrame[c], toMain[c], main[c], data[c], written[c])
    BY DEF Holds, OneStart
  <2>2. written[c][s] \in Items
    BY DEF Holds, Typed, DataTypes
  <2> QED
    BY <2>1, <2>2, FitsApp
<1>2. Holds /\ Follows => InStep
  BY <1>1 DEF InStep, Follows
<1> QED
  BY <1>2, HoldsAlways, FollowsAlways, PTL

\* An app starts with all the data it left, in the session before or in the document
\* that was loaded before (the handler of IFRAMEREADY).
THEOREM AppStartsFromNewest ==
  ASSUME ~Overlays
  PROVE  Spec => StartsFromNewest
<1>1. Holds => \A c \in Clients : frame[c] = "page" /\ ~doubled[c] => data[c] = written[c]
  <2> SUFFICES ASSUME Holds, NEW c \in Clients, frame[c] = "page", ~doubled[c]
               PROVE  data[c] = written[c]
    OBVIOUS
  <2>1. open[c] = "open" /\ data[c] \in Contents /\ written[c] \in Contents
    BY ClientTypes DEF Holds, Phases
  <2>2. Fits("page", toFrame[c], toMain[c], main[c], data[c], written[c])
    BY <2>1 DEF Holds, OneStart, Live
  <2>3. \A s \in Names : data[c][s] = written[c][s]
    BY <2>2, FitsApp
  <2> QED
    BY <2>1, <2>3 DEF Contents
<1>2. (\A c \in Clients : frame[c] = "page" /\ ~doubled[c] => data[c] = written[c])
        => [\A c \in Clients : frame[c] = "page" /\ frame'[c] = "app" /\ ~doubled[c]
                => data[c] = written[c]]_vars
  OBVIOUS
<1>3. [](\A c \in Clients : frame[c] = "page" /\ ~doubled[c] => data[c] = written[c])
        => StartsFromNewest
  BY <1>2, PTL DEF StartsFromNewest
<1> QED
  BY <1>1, <1>3, HoldsAlways, PTL

-----------------------------------------------------------------------------
(* What has been asked for comes: the part of AppRuns and RequestsSettle   *)
(* that is not about fairness.  It holds whether or not clients overlap.   *)

Has(msgs, m) == \E n \in DOMAIN msgs : msgs[n] = m

Returned(msgs, r) == \E status \in {"resolved", "rejected"} : Has(msgs, DataReturned(r, status))

Waits(c, r) == promise[r].of = c /\ promise[r].state = "pending"

\* Until its app is started, one of the signals is under way to each frame that
\* has loaded, or to its client.
StartIsComing ==
    \A c \in Clients : Live(c) /\ frame[c] = "env"
        => \/ Has(toFrame[c], ReadyCheck) \/ Has(toFrame[c], MainReady)
           \/ Has(toMain[c], IframeReady)

\* the request of c, what the host fetches for it, or its answer, by either way
Carried(c, r) ==
    \/ <<c, r>> \in fetches \/ Returned(toFrame[c], r)
    \/ /\ promise[r].kind = "navigate"
       /\ Has(toMain[c], NavigateTo(r)) \/ Returned(local, r)
    \/ /\ promise[r].kind # "navigate"
       /\ Has(toMain[c], DataRequested(r)) \/ Has(local, CollectionRequested(r))

\* In a custom channel a request that waits for its answer is carried on, and
\* whoever asked is still there to hear it.
AnswersAreComing ==
    \A c \in Clients, r \in Requests :
        Waits(c, r) /\ promise[r].kind # "unfit" /\ host[c] = "custom"
            => Live(c) /\ frame[c] \in {"page", "app"} /\ Carried(c, r)

\* Only an open client has messages to its frame, or an app.
Shown ==
    \A c \in Clients : ~Live(c) => toFrame[c] = <<>> /\ frame[c] \in {"none", "env"}

Underway == Shown /\ StartIsComing /\ AnswersAreComing

Grows(p, q) == \A m : Has(p, m) => Has(q, m)

\* Whatever is added, what was under way still is.
LEMMA GrowsMore ==
  ASSUME NEW S, NEW p \in Seq(S), NEW more \in Seq(S)
  PROVE  Grows(p, p \o more) /\ Grows(more, p \o more)
<1>1. /\ Len(p) \in Nat /\ Len(more) \in Nat
      /\ DOMAIN p = 1..Len(p) /\ DOMAIN more = 1..Len(more)
      /\ DOMAIN (p \o more) = 1..(Len(p) + Len(more))
  BY ConcatProperties, LenProperties
<1>2. \A n \in 1..Len(p) : (p \o more)[n] = p[n]
  BY <1>1, ConcatProperties
<1>3. \A n \in 1..Len(more) : /\ Len(p) + n \in DOMAIN (p \o more)
                              /\ (p \o more)[Len(p) + n] = more[n]
  BY <1>1, ConcatProperties
<1>4. \A n \in 1..Len(p) : n \in DOMAIN (p \o more)
  BY <1>1
<1> DEFINE all == p \o more
<1> HIDE DEF all
<1>5. /\ \A n \in DOMAIN p : n \in DOMAIN all /\ all[n] = p[n]
      /\ \A n \in DOMAIN more : Len(p) + n \in DOMAIN all /\ all[Len(p) + n] = more[n]
  BY <1>1, <1>2, <1>3, <1>4 DEF all
<1>6. Grows(p, all)
  BY <1>5 DEF Grows, Has
<1>7. Grows(more, all)
  BY <1>5 DEF Grows, Has
<1> QED
  BY <1>6, <1>7 DEF all

\* A single message is under way.
LEMMA HasOne ==
  ASSUME NEW S, NEW m \in S
  PROVE  <<m>> \in Seq(S) /\ Has(<<m>>, m)
<1>1. DOMAIN <<m>> = 1..1 /\ <<m>>[1] = m
  OBVIOUS
<1>2. Has(<<m>>, m)
  BY <1>1 DEF Has
<1> QED
  BY <1>2

\* A message is taken from the front, the rest is still under way.
LEMMA HasLess ==
  ASSUME NEW S, NEW p \in Seq(S), p # <<>>
  PROVE  \A m : Has(p, m) => m = Head(p) \/ Has(Tail(p), m)
<1>1. /\ Head(p) = p[1]
      /\ \A n \in DOMAIN p : n # 1 => n - 1 \in DOMAIN Tail(p) /\ Tail(p)[n - 1] = p[n]
  BY OneLess
<1> DEFINE rest == Tail(p)
<1> HIDE DEF rest
<1>2. /\ Head(p) = p[1]
      /\ \A n \in DOMAIN p : n # 1 => n - 1 \in DOMAIN rest /\ rest[n - 1] = p[n]
  BY <1>1 DEF rest
<1>3. \A m : Has(p, m) => m = Head(p) \/ Has(rest, m)
  BY <1>2 DEF Has
<1> QED
  BY <1>3 DEF rest

\* What the clients that are open are told is added to what is under way.
LEMMA ToLiveGrows ==
  ASSUME Typed, NEW f \in [Clients -> Seq(FrameMessages)],
         toFrame' = [c \in Clients |-> IF c \in Listening /\ Live(c)
                                       THEN toFrame[c] \o f[c] ELSE toFrame[c]]
  PROVE  \A c \in Clients : /\ Grows(toFrame[c], toFrame'[c])
                            /\ Live(c) => Grows(f[c], toFrame'[c])
                            /\ ~Live(c) => toFrame'[c] = toFrame[c]
<1> SUFFICES ASSUME NEW c \in Clients
             PROVE  /\ Grows(toFrame[c], toFrame'[c])
                    /\ Live(c) => Grows(f[c], toFrame'[c])
                    /\ ~Live(c) => toFrame'[c] = toFrame[c]
  OBVIOUS
<1>1. toFrame[c] \in Seq(FrameMessages) /\ f[c] \in Seq(FrameMessages)
  BY ClientTypes
<1>2. CASE Live(c)
  <2>1. c \in Listening
    BY <1>2 DEF Typed, Made, Live
  <2>2. toFrame'[c] = toFrame[c] \o f[c]
    BY <2>1, <1>2
  <2> QED
    BY <2>2, <1>1, <1>2, GrowsMore
<1>3. CASE ~Live(c)
  BY <1>3 DEF Grows
<1> QED
  BY <1>2, <1>3

\* What has been carried so far still is, when nothing is taken away.
LEMMA CarriedSame ==
  ASSUME NEW c \in Clients, NEW r \in Requests, Carried(c, r), promise'[r] = promise[r],
         Grows(toFrame[c], toFrame'[c]), Grows(toMain[c], toMain'[c]), Grows(local, local'),
         <<c, r>> \in fetches => <<c, r>> \in fetches'
  PROVE  Carried(c, r)'
BY DEF Carried, Returned, Grows

\* Nothing is taken away of what a client waits for.
LEMMA ComingSame ==
  ASSUME Underway, UNCHANGED <<open, frame, host, promise>>,
         \A c \in Clients : Grows(toFrame[c], toFrame'[c]) /\ Grows(toMain[c], toMain'[c]),
         \A c \in Clients : ~Live(c) => toFrame'[c] = toFrame[c],
         Grows(local, local'), \A x \in fetches : x \in fetches'
  PROVE  Underway'
<1>1. Shown'
  BY DEF Underway, Shown, Live
<1>2. StartIsComing'
  BY DEF Underway, StartIsComing, Live, Grows
<1>3. AnswersAreComing'
  <2> SUFFICES ASSUME NEW c \in Clients, NEW r \in Requests, Waits(c, r),
                      promise[r].kind # "unfit", host[c] = "custom"
               PROVE  Live(c) /\ frame[c] \in {"page", "app"} /\ Carried(c, r)'
    BY DEF AnswersAreComing, Waits, Live
  <2>1. Live(c) /\ frame[c] \in {"page", "app"} /\ Carried(c, r)
    BY DEF Underway, AnswersAreComing
  <2> QED
    BY <2>1, CarriedSame
<1> QED
  BY <1>1, <1>2, <1>3 DEF Underway

\* One more message, whatever it is.
LEMMA GrowsOne ==
  ASSUME NEW S, NEW p \in Seq(S), NEW x
  PROVE  Grows(p, p \o <<x>>) /\ Has(p \o <<x>>, x)
<1>1. PICK T : T = S \cup {x}
  OBVIOUS
<1>2. p \in Seq(T)
  <2>1. p \in [1..Len(p) -> S] /\ Len(p) \in Nat
    BY LenProperties
  <2>2. p \in [1..Len(p) -> T]
    BY <1>1, <2>1
  <2> QED
    BY <2>1, <2>2, SeqDef
<1>3. x \in T
  BY <1>1
<1>4. <<x>> \in Seq(T) /\ Has(<<x>>, x)
  BY <1>3, HasOne
<1> QED
  BY <1>2, <1>4, GrowsMore DEF Grows

StartAt(c) == Live(c) /\ frame[c] = "env"
                => \/ Has(toFrame[c], ReadyCheck) \/ Has(toFrame[c], MainReady)
                   \/ Has(toMain[c], IframeReady)

AnswersAt(c) ==
    \A r \in Requests : Waits(c, r) /\ promise[r].kind # "unfit" /\ host[c] = "custom"
        => Live(c) /\ frame[c] \in {"page", "app"} /\ Carried(c, r)

\* Something happens to one client, and the others keep what is under way to them.
LEMMA ComingOne ==
  ASSUME Underway, NEW c \in Clients, host' = host, local' = local, fetches' = fetches,
         \A d \in Clients \ {c} : /\ open'[d] = open[d] /\ frame'[d] = frame[d]
                                  /\ toFrame'[d] = toFrame[d] /\ toMain'[d] = toMain[d]
                                  /\ \A r \in Requests : Waits(d, r)' => promise'[r] = promise[r],
         ~Live(c)' => toFrame'[c] = <<>> /\ frame'[c] \in {"none", "env"},
         StartAt(c)', AnswersAt(c)'
  PROVE  Underway'
<1>1. Shown'
  BY DEF Underway, Shown, Live
<1>2. StartIsComing'
  <2>1. \A d \in Clients \ {c} : StartAt(d)'
    BY DEF Underway, StartIsComing, StartAt, Live
  <2> QED
    BY <2>1 DEF StartIsComing, StartAt
<1>3. AnswersAreComing'
  <2>1. \A d \in Clients \ {c} : AnswersAt(d)'
    <3> SUFFICES ASSUME NEW d \in Clients \ {c}, NEW r \in Requests, Waits(d, r)',
                        promise'[r].kind # "unfit", host[d] = "custom"
                 PROVE  Live(d)' /\ frame'[d] \in {"page", "app"} /\ Carried(d, r)'
      BY DEF AnswersAt
    <3>1. promise'[r] = promise[r] /\ Waits(d, r)
      BY DEF Waits
    <3>2. Live(d) /\ frame[d] \in {"page", "app"} /\ Carried(d, r)
      BY <3>1 DEF Underway, AnswersAreComing
    <3>3. Carried(d, r)'
      BY <3>1, <3>2, CarriedSame DEF Grows
    <3> QED
      BY <3>2, <3>3 DEF Live
  <2> QED
    BY <2>1 DEF AnswersAreComing, AnswersAt
<1> QED
  BY <1>1, <1>2, <1>3 DEF Underway

\* A client whose requests are gone.
LEMMA NoneWaits ==
  ASSUME NEW c \in Clients, Typed,
         promise' = [r \in Requests |-> IF promise[r].of = c
                                        THEN [promise[r] EXCEPT !.state = "gone"] ELSE promise[r]]
  PROVE  /\ \A r \in Requests : ~Waits(c, r)'
         /\ \A d \in Clients \ {c}, r \in Requests : Waits(d, r)' => promise'[r] = promise[r]
<1>1. \A r \in Requests : promise[r].of = c => promise'[r].of = c /\ promise'[r].state = "gone"
  BY DEF Typed, AskedTypes
<1>2. \A r \in Requests : promise[r].of # c => promise'[r] = promise[r]
  OBVIOUS
<1> QED
  BY <1>1, <1>2 DEF Waits

\* The host mounts, the client is made, the host is destroyed.
LEMMA ComingHost ==
  ASSUME Typed, Underway, NEW c \in Clients, Mount(c) \/ Initialize(c) \/ Leave(c)
  PROVE  Underway'
<1>1. /\ open \in [Clients -> {"no", "mounting", "open", "left"}]
      /\ toFrame \in [Clients -> Seq(FrameMessages)] /\ saved \in [Clients -> Contents]
      /\ frame \in [Clients -> {"none", "env", "page", "app"}]
  BY DEF Typed, Kept, WireTypes, FrameTypes, DataTypes, Contents
<1>2. CASE Mount(c)
  <2>1. /\ open[c] = "no" /\ open' = [open EXCEPT ![c] = "mounting"]
        /\ UNCHANGED <<host, frame, toFrame, toMain, local, promise, fetches>>
    BY <1>2 DEF Mount, frames, wires, asked
  <2>2. ~Live(c) /\ ~Live(c)'
    BY <2>1, <1>1 DEF Live
  <2>3. toFrame'[c] = <<>> /\ frame'[c] \in {"none", "env"}
    BY <2>1, <2>2 DEF Underway, Shown
  <2>4. AnswersAt(c)'
    BY <2>1, <2>2 DEF AnswersAt, Waits, Underway, AnswersAreComing
  <2>5. StartAt(c)'
    BY <2>2 DEF StartAt
  <2>6. \A d \in Clients \ {c} : open'[d] = open[d]
    BY <2>1, <1>1
  <2> QED
    BY <2>1, <2>3, <2>4, <2>5, <2>6, ComingOne
<1>3. CASE Initialize(c)
  <2>1. /\ open[c] = "mounting" /\ open' = [open EXCEPT ![c] = "open"]
        /\ UNCHANGED <<host, frame, toMain, local, promise, fetches>>
    BY <1>3 DEF Initialize, frames, asked
  <2>2. PICK ss \in WithData(saved[c]) :
               toFrame' = [toFrame EXCEPT ![c] = @ \o (SetData(saved[c], ss) \o <<ReadyCheck>>)]
    BY <1>3 DEF Initialize, ToFrame
  <2>3. PICK n \in Nat : ss \in [1..n -> Names]
    BY <2>2, StoresDiffer, LenProperties DEF WithData
  <2>4. SetData(saved[c], ss) \in Seq(FrameMessages)
    <3>1. \A i \in 1..n : State(ss[i], saved[c][ss[i]]) \in FrameMessages
      BY <1>1, <2>3, Sent DEF Contents
    <3>2. SetData(saved[c], ss) \in [1..n -> FrameMessages]
      BY <2>3, <3>1 DEF SetData
    <3> QED
      BY <3>2, SeqDef
  <2>5. PICK msgs \in Seq(FrameMessages) : msgs = SetData(saved[c], ss) \o <<ReadyCheck>>
    <3>1. PICK q \in Seq(FrameMessages) : q = SetData(saved[c], ss)
      BY <2>4
    <3>2. PICK m \in FrameMessages : m = ReadyCheck
      BY Sent
    <3>3. q \o <<m>> \in Seq(FrameMessages)
      BY ConcatProperties
    <3> QED
      BY <3>1, <3>2, <3>3
  <2>6. Has(msgs, ReadyCheck)
    BY <2>4, <2>5, GrowsOne
  <2>7. toFrame'[c] = toFrame[c] \o msgs
    BY <2>2, <2>5, <1>1
  <2>8. Has(toFrame'[c], ReadyCheck)
    BY <2>6, <2>7, <1>1, GrowsMore DEF Grows
  <2>9. ~Live(c) /\ Live(c)'
    BY <2>1, <1>1 DEF Live
  <2>10. AnswersAt(c)'
    BY <2>1, <2>9 DEF AnswersAt, Waits, Underway, AnswersAreComing
  <2>11. StartAt(c)'
    BY <2>8 DEF StartAt
  <2>12. \A d \in Clients \ {c} : open'[d] = open[d] /\ toFrame'[d] = toFrame[d]
    BY <2>1, <2>2, <1>1
  <2> QED
    BY <2>1, <2>9, <2>10, <2>11, <2>12, ComingOne
<1>4. CASE Leave(c)
  <2>1. /\ open' = [open EXCEPT ![c] = "left"] /\ frame' = [frame EXCEPT ![c] = "none"]
        /\ toFrame' = [toFrame EXCEPT ![c] = <<>>]
        /\ promise' = [r \in Requests |-> IF promise[r].of = c
                                          THEN [promise[r] EXCEPT !.state = "gone"] ELSE promise[r]]
        /\ UNCHANGED <<host, toMain, local, fetches>>
    BY <1>4 DEF Leave
  <2>2. ~Live(c)' /\ toFrame'[c] = <<>> /\ frame'[c] = "none"
    BY <2>1, <1>1 DEF Live
  <2>3. AnswersAt(c)' /\ StartAt(c)'
    BY <2>1, <2>2, NoneWaits DEF AnswersAt, StartAt
  <2>4. \A d \in Clients \ {c} : /\ open'[d] = open[d] /\ frame'[d] = frame[d]
                                 /\ toFrame'[d] = toFrame[d]
                                 /\ \A r \in Requests : Waits(d, r)' => promise'[r] = promise[r]
    BY <2>1, <1>1, NoneWaits
  <2> QED
    BY <2>1, <2>2, <2>3, <2>4, ComingOne
<1> QED
  BY <1>2, <1>3, <1>4

\* A document loads, is loaded again, or starts its app.
LEMMA ComingDocuments ==
  ASSUME Typed, Underway, NEW c \in Clients, FrameLoads(c) \/ FrameReloads(c) \/ StartApp(c)
  PROVE  Underway'
<1>1. /\ toFrame \in [Clients -> Seq(FrameMessages)] /\ toMain \in [Clients -> Seq(WindowMessages)]
      /\ frame \in [Clients -> {"none", "env", "page", "app"}]
  BY DEF Typed, WireTypes, FrameTypes
<1>2. CASE FrameLoads(c)
  <2>1. PICK msgs \in Heard(toFrame[c]) : toFrame' = [toFrame EXCEPT ![c] = msgs]
    BY <1>2 DEF FrameLoads
  <2>2. /\ frame[c] = "none" /\ frame' = [frame EXCEPT ![c] = "env"]
        /\ toMain' = [toMain EXCEPT ![c] = @ \o <<IframeReady>>]
        /\ UNCHANGED <<open, host, local, promise, fetches>>
    BY <1>2 DEF FrameLoads, ToMain, mains, asked
  <2>3. ~Live(c) => msgs = <<>>
    <3>1. ASSUME ~Live(c) PROVE msgs = <<>>
      <4>1. toFrame[c] = <<>>
        BY <3>1 DEF Underway, Shown
      <4>2. PICK n \in 1..(Len(<<>>) + 1) : msgs = SubSeq(<<>>, n, Len(<<>>))
        BY <4>1, <2>1 DEF Heard
      <4> QED
        BY <4>2, SubSeqEmpty
    <3> QED
      BY <3>1
  <2>4. Has(toMain'[c], IframeReady)
    <3>1. toMain'[c] = toMain[c] \o <<IframeReady>>
      BY <2>2, <1>1
    <3> QED
      BY <3>1, <1>1, GrowsOne
  <2>5. StartAt(c)'
    BY <2>4 DEF StartAt
  <2>6. AnswersAt(c)'
    BY <2>2 DEF AnswersAt, Waits, Underway, AnswersAreComing
  <2>7. ~Live(c)' => toFrame'[c] = <<>> /\ frame'[c] \in {"none", "env"}
    BY <2>1, <2>2, <2>3, <1>1 DEF Live
  <2>8. \A d \in Clients \ {c} : /\ frame'[d] = frame[d] /\ toFrame'[d] = toFrame[d]
                                 /\ toMain'[d] = toMain[d]
    BY <2>1, <2>2, <1>1
  <2> QED
    BY <2>2, <2>5, <2>6, <2>7, <2>8, ComingOne
<1>3. CASE FrameReloads(c)
  <2>1. /\ Live(c) /\ frame' = [frame EXCEPT ![c] = "none"]
        /\ promise' = [r \in Requests |-> IF promise[r].of = c
                                          THEN [promise[r] EXCEPT !.state = "gone"] ELSE promise[r]]
        /\ UNCHANGED <<open, host, toFrame, toMain, local, fetches>>
    BY <1>3 DEF FrameReloads, mains, wires
  <2>2. Live(c)' /\ frame'[c] = "none"
    BY <2>1, <1>1 DEF Live
  <2>3. AnswersAt(c)' /\ StartAt(c)'
    BY <2>1, <2>2, NoneWaits DEF AnswersAt, StartAt
  <2>4. \A d \in Clients \ {c} : /\ frame'[d] = frame[d]
                                 /\ \A r \in Requests : Waits(d, r)' => promise'[r] = promise[r]
    BY <2>1, <1>1, NoneWaits
  <2> QED
    BY <2>1, <2>2, <2>3, <2>4, ComingOne
<1>4. CASE StartApp(c)
  <2>1. /\ frame[c] = "page" /\ frame' = [frame EXCEPT ![c] = "app"]
        /\ UNCHANGED <<open, host, toFrame, toMain, local, promise, fetches>>
    BY <1>4 DEF StartApp, mains, wires, asked
  <2>2. Live(c) /\ Live(c)' /\ frame'[c] = "app"
    BY <2>1, <1>1 DEF Underway, Shown, Live
  <2>3. StartAt(c)'
    BY <2>2 DEF StartAt
  <2>4. \A r \in Requests : Carried(c, r) => Carried(c, r)'
    BY <2>1 DEF Carried, Returned
  <2>5. AnswersAt(c)'
    BY <2>1, <2>2, <2>4 DEF AnswersAt, Waits, Underway, AnswersAreComing
  <2>6. \A d \in Clients \ {c} : frame'[d] = frame[d]
    BY <2>1, <1>1
  <2> QED
    BY <2>1, <2>2, <2>3, <2>5, <2>6, ComingOne
<1> QED
  BY <1>2, <1>3, <1>4

\* The app does something, and may tell the window.
LEMMA ComingTold ==
  ASSUME Typed, Underway, NEW c \in Clients,
         UNCHANGED <<open, host, frame, toFrame, local, promise, fetches>>,
         NEW x, toMain' = toMain \/ toMain' = [toMain EXCEPT ![c] = @ \o <<x>>]
  PROVE  Underway'
<1>1. toMain \in [Clients -> Seq(WindowMessages)]
  BY DEF Typed, WireTypes
<1>2. \A d \in Clients : Grows(toMain[d], toMain'[d])
  <2>1. Grows(toMain[c], toMain[c] \o <<x>>)
    BY <1>1, GrowsOne
  <2>2. \A p : Grows(p, p)
    BY DEF Grows
  <2>3. CASE toMain' = toMain
    BY <2>2, <2>3
  <2>4. CASE toMain' = [toMain EXCEPT ![c] = @ \o <<x>>]
    <3>1. \A d \in Clients : toMain'[d] = IF d = c THEN toMain[c] \o <<x>> ELSE toMain[d]
      BY <2>4, <1>1
    <3> QED
      BY <3>1, <2>1, <2>2
  <2> QED
    BY <2>3, <2>4
<1> QED
  BY <1>2, ComingSame DEF Grows

\* The app operates.
LEMMA ComingOperate ==
  ASSUME Typed, Underway, NEW c \in Clients, Operate(c)
  PROVE  Underway'
<1>1. ASSUME NEW s, NEW d, NEW p, NEW w, NEW tells, Change(c, s, d, p, w, tells)
      PROVE  Underway'
  <2>1. PICK x : x = State(s, d)
    OBVIOUS
  <2>2. UNCHANGED <<open, host, frame, toFrame, local, promise, fetches>>
    BY <1>1 DEF Change, mains, asked
  <2>3. toMain' = toMain \/ toMain' = [toMain EXCEPT ![c] = @ \o <<x>>]
    BY <1>1, <2>1 DEF Change, ToMain
  <2> QED
    BY <2>2, <2>3, ComingTold
<1>2. CASE \E k \in Keys, v \in Values : SetItem(c, k, v)
  BY <1>1, <1>2 DEF SetItem
<1>3. CASE \E k \in Keys : RemoveItem(c, k)
  BY <1>1, <1>3 DEF RemoveItem
<1>4. CASE Clear(c)
  BY <1>1, <1>4 DEF Clear
<1>5. CASE \E k \in Keys, v \in Values \cup {Absent} : SetProperty(c, k, v)
  BY <1>1, <1>5 DEF SetProperty
<1>6. CASE \E s \in Names, k \in Keys, v \in Values : SetValue(c, s, k, v)
  BY <1>1, <1>6 DEF SetValue
<1>10. CASE \E s \in Names, k \in Keys : RefuseValue(c, s, k)
  <2>1. UNCHANGED <<open, host, frame, toFrame, toMain, local, promise, fetches>>
    BY <1>10 DEF RefuseValue, mains, wires, asked
  <2> QED
    BY <2>1, ComingTold
<1>7. CASE Look(c)
  <2>1. CASE FromShim(c) = data[c][Shimmed]
    <3>1. UNCHANGED <<open, host, frame, toFrame, toMain, local, promise, fetches>>
      BY <1>7, <2>1 DEF Look, mains, asked
    <3> QED
      BY <3>1, ComingTold
  <2>2. CASE FromShim(c) # data[c][Shimmed]
    <3>1. Change(c, Shimmed, FromShim(c), ToShim(FromShim(c)), meant[c], TRUE)
      BY <1>7, <2>2 DEF Look
    <3> QED
      BY <3>1, <1>1
  <2> QED
    BY <2>1, <2>2
<1>8. CASE NavigateApp(c)
  <2>1. UNCHANGED <<open, host, frame, toFrame, toMain, local, promise, fetches>>
    BY <1>8 DEF NavigateApp, mains, wires, asked
  <2> QED
    BY <2>1, ComingTold
<1>9. ASSUME NEW r \in Requests, NEW kind \in Kinds, Ask(c, r, kind)
      PROVE  Underway'
  <2>1. PICK x : x = IF kind = "navigate" THEN NavigateTo(r) ELSE DataRequested(r)
    OBVIOUS
  <2>2. /\ frame[c] = "app" /\ promise[r].state = "none"
        /\ promise' = [promise EXCEPT ![r] = [of |-> c, kind |-> kind, state |-> "pending"]]
        /\ toMain' = [toMain EXCEPT ![c] = @ \o <<x>>]
        /\ UNCHANGED <<open, host, frame, toFrame, local, fetches>>
    BY <1>9, <2>1 DEF Ask, ToMain, mains, frames
  <2>3. toMain \in [Clients -> Seq(WindowMessages)] /\ DOMAIN promise = Requests
    BY DEF Typed, WireTypes, AskedTypes
  <2>4. /\ promise'[r] = [of |-> c, kind |-> kind, state |-> "pending"]
        /\ \A q \in Requests : q # r => promise'[q] = promise[q]
    BY <2>2, <2>3
  <2>5. toMain'[c] = toMain[c] \o <<x>> /\ \A d \in Clients \ {c} : toMain'[d] = toMain[d]
    BY <2>2, <2>3
  <2>6. Grows(toMain[c], toMain'[c]) /\ Has(toMain'[c], x)
    BY <2>3, <2>5, GrowsOne
  <2>7. Live(c)
    BY <2>2 DEF Underway, Shown
  <2>8. Carried(c, r)'
    BY <2>1, <2>4, <2>6 DEF Carried
  <2>9. ASSUME NEW q \in Requests, q # r, Waits(c, q)', promise'[q].kind # "unfit", host[c] = "custom"
        PROVE  Carried(c, q)'
    <3>1. promise'[q] = promise[q] /\ Carried(c, q)
      BY <2>4, <2>9 DEF Waits, Underway, AnswersAreComing
    <3> QED
      BY <3>1, <2>2, <2>6, CarriedSame DEF Grows
  <2>10. AnswersAt(c)'
    BY <2>2, <2>7, <2>8, <2>9 DEF AnswersAt, Live
  <2>11. StartAt(c)'
    BY <2>2 DEF StartAt
  <2>12. \A d \in Clients \ {c}, q \in Requests : Waits(d, q)' => promise'[q] = promise[q]
    BY <2>4 DEF Waits
  <2> QED
    BY <2>2, <2>5, <2>7, <2>10, <2>11, <2>12, ComingOne DEF Live
<1> QED
  BY <1>2, <1>3, <1>4, <1>5, <1>6, <1>7, <1>8, <1>9, <1>10 DEF Operate

\* A message arrives at the frame.
LEMMA ComingFrameReceives ==
  ASSUME Typed, Underway, NEW c \in Clients, FrameReceives(c)
  PROVE  Underway'
<1> DEFINE m == Head(toFrame[c])
<1>1. /\ toFrame \in [Clients -> Seq(FrameMessages)] /\ toMain \in [Clients -> Seq(WindowMessages)]
      /\ frame \in [Clients -> {"none", "env", "page", "app"}] /\ DOMAIN promise = Requests
  BY DEF Typed, WireTypes, FrameTypes, AskedTypes
<1>2. /\ toFrame[c] # <<>> /\ toFrame' = [toFrame EXCEPT ![c] = Tail(@)]
      /\ UNCHANGED <<open, host, local, fetches>> /\ frame[c] # "none"
  BY DEF FrameReceives, mains
<1>3. /\ \A x : Has(toFrame[c], x) => x = m \/ Has(toFrame'[c], x)
      /\ \A d \in Clients \ {c} : toFrame'[d] = toFrame[d]
  <2>1. toFrame'[c] = Tail(toFrame[c])
    BY <1>1, <1>2
  <2> QED
    BY <2>1, <1>1, <1>2, HasLess
<1>4. Live(c)
  BY <1>2 DEF Underway, Shown
<1>5. \/ m.event = "stateUpdate" /\ ReceiveState(c, m)
      \/ m.event = "mainReady" /\ ReceiveMainReady(c)
      \/ m.event = "readyCheck" /\ ReceiveReadyCheck(c)
      \/ m.event = "dataReturned" /\ ReceiveReply(c, m)
      \/ m.event = "navigateTo" /\ UNCHANGED <<frames, toMain, promise, doubled>>
  BY DEF FrameReceives
<1> HIDE DEF m
\* what waits is answered, or goes on
<1>6. ASSUME NEW r \in Requests, Waits(c, r), Carried(c, r), promise'[r] = promise[r],
             Grows(toMain[c], toMain'[c]), ~\E status : m = DataReturned(r, status)
      PROVE  Carried(c, r)'
  <2>1. Returned(toFrame[c], r) => Returned(toFrame'[c], r)
    BY <1>3, <1>6 DEF Returned
  <2> QED
    BY <2>1, <1>2, <1>6 DEF Carried, Grows
<1>7. CASE \/ m.event = "stateUpdate" /\ ReceiveState(c, m)
           \/ m.event = "navigateTo" /\ UNCHANGED <<frames, toMain, promise, doubled>>
  <2>1. UNCHANGED <<frame, toMain, promise>> /\ m.event \in {"stateUpdate", "navigateTo"}
    BY <1>7 DEF ReceiveState, frames
  <2>2. StartAt(c)'
    BY <2>1, <1>2, <1>3
       DEF StartAt, Live, Underway, StartIsComing, ReadyCheck, MainReady, IframeReady
  <2>3. \A r, status : m # DataReturned(r, status)
    BY <2>1 DEF DataReturned
  <2>4. AnswersAt(c)'
    BY <2>1, <2>3, <1>2, <1>4, <1>6 DEF AnswersAt, Waits, Live, Underway, AnswersAreComing, Grows
  <2> QED
    BY <2>1, <2>2, <2>4, <1>2, <1>3, <1>4, ComingOne DEF Live
<1>8. CASE m.event = "mainReady" /\ ReceiveMainReady(c)
  <2>1. frame' = [frame EXCEPT ![c] = "page"] /\ UNCHANGED <<toMain, promise>>
    BY <1>8 DEF ReceiveMainReady
  <2>2. frame'[c] = "page" /\ \A d \in Clients \ {c} : frame'[d] = frame[d]
    BY <2>1, <1>1
  <2>3. StartAt(c)'
    BY <2>2 DEF StartAt
  <2>4. \A r, status : m # DataReturned(r, status)
    BY <1>8 DEF DataReturned
  <2>5. AnswersAt(c)'
    BY <2>1, <2>2, <2>4, <1>2, <1>4, <1>6
       DEF AnswersAt, Waits, Live, Underway, AnswersAreComing, Grows
  <2> QED
    BY <2>1, <2>2, <2>3, <2>5, <1>2, <1>3, <1>4, ComingOne DEF Live
<1>9. CASE m.event = "readyCheck" /\ ReceiveReadyCheck(c)
  <2>1. toMain' = [toMain EXCEPT ![c] = @ \o <<IframeReady>>] /\ UNCHANGED <<frame, promise>>
    BY <1>9 DEF ReceiveReadyCheck, ToMain, frames
  <2>2. toMain'[c] = toMain[c] \o <<IframeReady>> /\ \A d \in Clients \ {c} : toMain'[d] = toMain[d]
    BY <2>1, <1>1
  <2>3. Grows(toMain[c], toMain'[c]) /\ Has(toMain'[c], IframeReady)
    BY <2>2, <1>1, GrowsOne
  <2>4. StartAt(c)'
    BY <2>3 DEF StartAt
  <2>5. \A r, status : m # DataReturned(r, status)
    BY <1>9 DEF DataReturned
  <2>6. AnswersAt(c)'
    BY <2>1, <2>3, <2>5, <1>2, <1>4, <1>6 DEF AnswersAt, Waits, Live, Underway, AnswersAreComing
  <2> QED
    BY <2>1, <2>2, <2>4, <2>6, <1>2, <1>3, <1>4, ComingOne DEF Live
<1>10. CASE m.event = "dataReturned" /\ ReceiveReply(c, m)
  <2>1. /\ UNCHANGED <<frame, toMain>>
        /\ promise' = IF promise[m.req].state = "pending" /\ promise[m.req].of = c
                      THEN [promise EXCEPT ![m.req].state = m.status] ELSE promise
    BY <1>10 DEF ReceiveReply, frames
  <2>2. m \in FrameMessages
    BY <1>1, <1>2, OneLess DEF m
  <2>3. PICK q \in Requests : q = m.req
    BY <2>2, <1>10, FrameKinds
  <2>4. /\ \A r \in Requests : r # q => promise'[r] = promise[r]
        /\ m.status \in {"resolved", "rejected"}
    BY <2>1, <2>2, <2>3, <1>1, <1>10, FrameKinds
  <2>5. ~Waits(c, q)'
    <3>1. CASE Waits(c, q)
      <4>1. promise' = [promise EXCEPT ![q].state = m.status]
        BY <2>1, <2>3, <3>1 DEF Waits
      <4>2. promise'[q].state = m.status
        BY <4>1, <2>3 DEF Typed, AskedTypes
      <4> QED
        BY <4>2, <2>4 DEF Waits
    <3>2. CASE ~Waits(c, q)
      <4>1. promise' = promise
        BY <2>1, <2>3, <3>2 DEF Waits
      <4> QED
        BY <4>1, <3>2 DEF Waits
    <3> QED
      BY <3>1, <3>2
  <2>6. StartAt(c)'
    BY <2>1, <1>2, <1>3, <1>10
       DEF StartAt, Live, Underway, StartIsComing, ReadyCheck, MainReady, IframeReady
  <2>7. \A r, status : m = DataReturned(r, status) => r = q
    BY <2>3 DEF DataReturned
  <2>8. ASSUME NEW r \in Requests, Waits(c, r)', promise'[r].kind # "unfit", host[c] = "custom"
        PROVE  frame[c] \in {"page", "app"} /\ Carried(c, r)'
    <3>1. promise'[r] = promise[r] /\ r # q
      BY <2>4, <2>5, <2>8
    <3>2. Waits(c, r) /\ promise[r].kind # "unfit"
      BY <3>1, <2>8 DEF Waits
    <3>3. frame[c] \in {"page", "app"} /\ Carried(c, r)
      BY <3>2, <2>8 DEF Underway, AnswersAreComing
    <3> QED
      BY <3>1, <3>2, <3>3, <2>1, <2>7, <1>6 DEF Grows
  <2>9. AnswersAt(c)'
    BY <2>1, <2>8, <1>2, <1>4 DEF AnswersAt, Live
  <2>10. \A d \in Clients \ {c}, r \in Requests : Waits(d, r)' => promise'[r] = promise[r]
    <3> SUFFICES ASSUME NEW d \in Clients \ {c}, NEW r \in Requests, Waits(d, r)'
                 PROVE  promise'[r] = promise[r]
      OBVIOUS
    <3>1. CASE Waits(c, q) /\ r = q
      <4>1. promise'[r].of = c
        BY <3>1, <2>1, <2>3, <2>4 DEF Waits, Typed, AskedTypes
      <4> QED
        BY <4>1 DEF Waits
    <3>2. CASE ~(Waits(c, q) /\ r = q)
      BY <3>2, <2>1, <2>3, <2>4 DEF Waits
    <3> QED
      BY <3>1, <3>2
  <2> QED
    BY <2>1, <2>6, <2>9, <2>10, <1>2, <1>3, <1>4, ComingOne DEF Live
<1> QED
  BY <1>5, <1>7, <1>8, <1>9, <1>10

\* A message arrives at the window.
LEMMA ComingMainReceives ==
  ASSUME Typed, Underway, NEW d \in Clients, MainReceives(d)
  PROVE  Underway'
<1>1. /\ toMain[d] # <<>> /\ toMain' = [toMain EXCEPT ![d] = Tail(@)]
      /\ UNCHANGED <<open, host, order, frame, promise>>
      /\ toMain \in [Clients -> Seq(WindowMessages)]
  BY DEF MainReceives, frames, Typed, WireTypes
<1>2. PICK m \in WindowMessages : m = Head(toMain[d])
  BY <1>1, OneLess
<1>3. \A c \in Clients : \A x : Has(toMain[c], x) => x = m \/ Has(toMain'[c], x)
  <2>1. toMain'[d] = Tail(toMain[d]) /\ \A c \in Clients \ {d} : toMain'[c] = toMain[c]
    BY <1>1
  <2>2. \A x : Has(toMain[d], x) => x = m \/ Has(toMain'[d], x)
    BY <2>1, <1>1, <1>2, HasLess
  <2> QED
    BY <2>1, <2>2
<1>4. \/ m.event = "stateUpdate" /\ HearState(m)
      \/ m.event = "iframeReady" /\ HearReady
      \/ m.event = "dataRequested" /\ HearRequest(m)
      \/ m.event = "navigateTo" /\ HearNavigate(m)
  BY <1>2 DEF MainReceives
<1>5. /\ local \in Seq(LocalMessages) /\ local' \in Seq(LocalMessages) /\ order \in Seq(Clients)
      /\ \A p : Grows(p, p)
  BY TypeMainReceives DEF Typed, WireTypes, Kept, Grows
\* what is kept, and what comes of m
<1>6. /\ \A c \in Clients : Grows(toFrame[c], toFrame'[c])
      /\ \A c \in Clients : ~Live(c) => toFrame'[c] = toFrame[c]
      /\ Grows(local, local') /\ \A x \in fetches : x \in fetches'
      /\ m = IframeReady => \A c \in Clients : Live(c) => Has(toFrame'[c], MainReady)
      /\ \A r \in Requests :
           /\ m = DataRequested(r) => order = <<>> \/ Has(local', CollectionRequested(r))
           /\ m = NavigateTo(r) => \A c \in Clients : Live(c) /\ host[c] = "custom"
                                                        => <<c, r>> \in fetches'
  <2>1. CASE m.event = "stateUpdate" /\ HearState(m)
    <3>1. toFrame' = toFrame /\ fetches' = fetches
          /\ local' = local \o [n \in DOMAIN order |-> AllStates(main'[order[n]])]
      BY <2>1 DEF HearState
    <3>2. main' \in [Clients -> Contents]
      BY TypeMainReceives DEF Typed, Kept, Contents
    <3>3. PICK f \in [Clients -> LocalMessages] : \A c \in Clients : f[c] = AllStates(main'[c])
      <4> DEFINE f == [c \in Clients |-> AllStates(main'[c])]
      <4>1. f \in [Clients -> LocalMessages] /\ \A c \in Clients : f[c] = AllStates(main'[c])
        BY <3>2, Sent DEF Contents
      <4> QED
        BY <4>1
    <3>4. [n \in DOMAIN order |-> f[order[n]]] \in Seq(LocalMessages)
      BY <1>5, EachTells
    <3>5. local' = local \o [n \in DOMAIN order |-> f[order[n]]]
      <4>1. \A n \in DOMAIN order : order[n] \in Clients
        BY <1>5, ElementOfSeq, LenProperties
      <4> QED
        BY <4>1, <3>1, <3>3
    <3>6. Grows(local, local')
      BY <3>4, <3>5, <1>5, GrowsMore
    <3>7. m # IframeReady /\ \A r : m # DataRequested(r) /\ m # NavigateTo(r)
      BY <2>1 DEF IframeReady, DataRequested, NavigateTo
    <3> QED
      BY <3>1, <3>6, <3>7, <1>5
  <2>2. CASE m.event = "iframeReady" /\ HearReady
    <3>1. PICK f : f = [e \in Clients |-> AnswerReady(e)]
      OBVIOUS
    <3>2. f \in [Clients -> Seq(FrameMessages)]
      BY <3>1, AnswerType DEF Typed, Kept, AnswerReady
    <3>3. toFrame' = [e \in Clients |-> IF e \in Listening /\ Live(e)
                                        THEN toFrame[e] \o f[e] ELSE toFrame[e]]
          /\ UNCHANGED <<local, fetches>>
      BY <2>2, <3>1 DEF HearReady, ToLive
    <3>4. \A c \in Clients : /\ Grows(toFrame[c], toFrame'[c])
                             /\ Live(c) => Grows(f[c], toFrame'[c])
                             /\ ~Live(c) => toFrame'[c] = toFrame[c]
      BY <3>2, <3>3, ToLiveGrows
    <3>5. \A c \in Clients : Has(f[c], MainReady)
      <4> SUFFICES ASSUME NEW c \in Clients PROVE Has(f[c], MainReady)
        OBVIOUS
      <4>1. f[c] = SetData(main[c], Stores) \o <<MainReady>>
        BY <3>1 DEF AnswerReady
      <4>2. SetData(main[c], Stores) \in Seq(FrameMessages)
        <5>1. Stores \in [1..Len(Stores) -> Names] /\ Len(Stores) \in Nat
          BY StoresDiffer, LenProperties DEF Names
        <5>2. main[c] \in [Names -> Items]
          BY DEF Typed, Kept
        <5>3. SetData(main[c], Stores) \in [1..Len(Stores) -> FrameMessages]
          BY <5>1, <5>2, Sent DEF SetData
        <5> QED
          BY <5>1, <5>3, SeqDef
      <4> QED
        BY <4>1, <4>2, GrowsOne
    <3>6. \A r : m # DataRequested(r) /\ m # NavigateTo(r)
      BY <2>2 DEF DataRequested, NavigateTo
    <3> QED
      BY <3>3, <3>4, <3>5, <3>6, <1>5 DEF Grows
  <2>3. CASE m.event = "dataRequested" /\ HearRequest(m)
    <3>1. m.req \in Requests
      BY <1>2, <2>3, WindowKinds
    <3>2. PICK x \in LocalMessages : x = CollectionRequested(m.req)
      BY <3>1, Sent
    <3>3. PICK f \in [Clients -> LocalMessages] : \A c \in Clients : f[c] = x
      <4>1. [c \in Clients |-> x] \in [Clients -> LocalMessages]
        OBVIOUS
      <4> QED
        BY <4>1
    <3>4. PICK more : more = [n \in DOMAIN order |-> f[order[n]]]
      OBVIOUS
    <3>5. /\ more \in Seq(LocalMessages)
          /\ \A n \in DOMAIN more : \E c \in Clients : more[n] = f[c]
          /\ order # <<>> => more # <<>>
      BY <3>4, <1>5, EachTells
    <3>6. local' = local \o more /\ toFrame' = toFrame /\ fetches' = fetches
      <4>1. \A n \in DOMAIN order : order[n] \in Clients
        BY <1>5, ElementOfSeq, LenProperties
      <4>2. more = [n \in DOMAIN order |-> CollectionRequested(m.req)]
        BY <4>1, <3>2, <3>3, <3>4
      <4> QED
        BY <4>2, <2>3 DEF HearRequest
    <3>7. Grows(local, local') /\ Grows(more, local')
      <4>1. local \in Seq(LocalMessages) /\ more \in Seq(LocalMessages)
        BY <1>5, <3>5
      <4>2. Grows(local, local \o more) /\ Grows(more, local \o more)
        BY <4>1, GrowsMore
      <4> QED
        BY <3>6, <4>2
    <3>8. order # <<>> => Has(local', x)
      <4>1. more # <<>> => 1 \in DOMAIN more
        BY <3>5, EmptySeq, LenProperties
      <4> QED
        BY <4>1, <3>3, <3>5, <3>7 DEF Has, Grows
    <3>9. /\ m # IframeReady /\ \A r : m # NavigateTo(r)
          /\ \A r : m = DataRequested(r) => CollectionRequested(r) = x
      BY <2>3, <3>2 DEF IframeReady, NavigateTo, DataRequested
    <3> QED
      BY <3>6, <3>7, <3>8, <3>9, <1>5
  <2>4. CASE m.event = "navigateTo" /\ HearNavigate(m)
    <3>1. m.req \in Requests
      BY <1>2, <2>4, WindowKinds
    <3>2. PICK f : f = [e \in Clients |-> <<NavigateTo(m.req)>>]
      OBVIOUS
    <3>3. f \in [Clients -> Seq(FrameMessages)]
      BY <3>1, <3>2, Sent, Single
    <3>4. toFrame' = [e \in Clients |-> IF e \in Listening /\ Live(e)
                                        THEN toFrame[e] \o f[e] ELSE toFrame[e]]
      BY <2>4, <3>2 DEF HearNavigate, ToLive
    <3>5. \A c \in Clients : /\ Grows(toFrame[c], toFrame'[c])
                             /\ ~Live(c) => toFrame'[c] = toFrame[c]
      BY <3>3, <3>4, ToLiveGrows
    <3>6. local' = local /\ fetches' = fetches \cup (Customs \X {m.req})
      BY <2>4 DEF HearNavigate
    <3>7. \A c \in Clients : Live(c) => c \in Listening
      BY DEF Typed, Made, Live
    <3>8. /\ m # IframeReady /\ \A r : m # DataRequested(r)
          /\ \A r : m = NavigateTo(r) => r = m.req
      BY <2>4 DEF IframeReady, NavigateTo, DataRequested
    <3> QED
      BY <3>5, <3>6, <3>7, <3>8, <1>5 DEF Customs
  <2> QED
    BY <1>4, <2>1, <2>2, <2>3, <2>4
<1>7. Shown'
  BY <1>1, <1>6 DEF Underway, Shown, Live
<1>8. StartIsComing'
  BY <1>1, <1>3, <1>6 DEF Underway, StartIsComing, Live, Grows
<1>9. AnswersAreComing'
  <2> SUFFICES ASSUME NEW c \in Clients, NEW r \in Requests, Waits(c, r),
                      promise[r].kind # "unfit", host[c] = "custom"
               PROVE  Live(c) /\ frame[c] \in {"page", "app"} /\ Carried(c, r)'
    BY <1>1 DEF AnswersAreComing, Waits, Live
  <2>1. Live(c) /\ frame[c] \in {"page", "app"} /\ Carried(c, r)
    BY DEF Underway, AnswersAreComing
  <2>2. order # <<>>
    <3>1. c \in Listening
      BY <2>1 DEF Typed, Made, Live
    <3>2. \E n \in DOMAIN order : order[n] = c
      BY <3>1 DEF Listening, ToSet
    <3> QED
      BY <3>2
  <2>3. Returned(toFrame[c], r) => Returned(toFrame'[c], r)
    BY <1>6 DEF Returned, Grows
  <2>4. Returned(local, r) => Returned(local', r)
    BY <1>6 DEF Returned, Grows
  <2>5. /\ <<c, r>> \in fetches => <<c, r>> \in fetches'
        /\ Has(local, CollectionRequested(r)) => Has(local', CollectionRequested(r))
        /\ Has(toMain[c], NavigateTo(r)) => Has(toMain'[c], NavigateTo(r)) \/ <<c, r>> \in fetches'
        /\ Has(toMain[c], DataRequested(r)) => \/ Has(toMain'[c], DataRequested(r))
                                               \/ Has(local', CollectionRequested(r))
    BY <2>1, <2>2, <1>3, <1>6 DEF Grows
  <2> QED
    BY <2>1, <2>3, <2>4, <2>5, <1>1 DEF Carried
<1> QED
  BY <1>7, <1>8, <1>9 DEF Underway

AskedFor == \A r \in Requests : promise[r].state = "pending" => promise[r].kind \in Kinds

\* A message of the window to itself arrives.
LEMMA ComingLocalReceives ==
  ASSUME Typed, AskedFor, Underway, LocalReceives
  PROVE  Underway'
<1>1. /\ local # <<>> /\ local' = Tail(local) /\ local \in Seq(LocalMessages)
      /\ UNCHANGED <<open, host, order, frame, toMain, promise>>
  <2>1. local # <<>> /\ local' = Tail(local) /\ UNCHANGED <<mains, frames, toMain, promise>>
    BY DEF LocalReceives
  <2> QED
    BY <2>1 DEF mains, frames, Typed, WireTypes
<1>2. PICK m \in LocalMessages : m = Head(local)
  BY <1>1, OneLess
<1>3. \A x : Has(local, x) => x = m \/ Has(local', x)
  BY <1>1, <1>2, HasLess
<1>4. \/ m.event = "stateUpdate" /\ HearLocalState(m)
      \/ m.event = "collectionRequested" /\ HearLocalRequest(m)
      \/ m.event = "dataReturned" /\ HearLocalReply(m)
  BY <1>2 DEF LocalReceives
<1>5. \A c \in Clients : Live(c) => c \in Listening
  BY DEF Typed, Made, Live
<1>6. \A p : Grows(p, p)
  BY DEF Grows
<1>7. /\ \A c \in Clients : Grows(toFrame[c], toFrame'[c])
      /\ \A c \in Clients : ~Live(c) => toFrame'[c] = toFrame[c]
      /\ \A x \in fetches : x \in fetches'
      /\ \A c \in Clients, r \in Requests : Live(c) /\ host[c] = "custom" =>
           /\ m = CollectionRequested(r) /\ promise[r].kind = "query" => <<c, r>> \in fetches'
           /\ m = CollectionRequested(r) /\ promise[r].kind = "version"
                => Has(toFrame'[c], DataReturned(r, "resolved"))
           /\ \A status : m = DataReturned(r, status) => Has(toFrame'[c], m)
  <2>1. CASE m.event = "stateUpdate" /\ HearLocalState(m)
    <3>1. toFrame' = toFrame /\ fetches' = fetches
      BY <2>1 DEF HearLocalState
    <3>2. \A r : m # CollectionRequested(r) /\ \A status : m # DataReturned(r, status)
      BY <2>1 DEF CollectionRequested, DataReturned
    <3> QED
      BY <3>1, <3>2, <1>6
  <2>2. CASE m.event = "collectionRequested" /\ HearLocalRequest(m)
    <3> DEFINE customs == Customs
    <3>1. PICK q \in Requests : q = m.req
      BY <1>2, <2>2, LocalKinds
    <3>2. \A r : /\ m = CollectionRequested(r) => r = q
                 /\ \A status : m # DataReturned(r, status)
      BY <2>2, <3>1 DEF CollectionRequested, DataReturned
    <3>3. fetches' = IF promise[q].kind = "query" THEN fetches \cup (customs \X {q}) ELSE fetches
      BY <2>2, <3>1 DEF HearLocalRequest
    <3>4. CASE promise[q].kind = "version"
      <4>1. PICK x \in FrameMessages : x = DataReturned(q, "resolved")
        BY Sent
      <4>2. PICK f : f = [c \in Clients |-> IF c \in customs THEN <<x>> ELSE <<>>]
        OBVIOUS
      <4>3. f \in [Clients -> Seq(FrameMessages)]
        BY <4>2, HasOne, EmptySeq
      <4>4. toFrame' = [c \in Clients |-> IF c \in Listening /\ Live(c)
                                          THEN toFrame[c] \o f[c] ELSE toFrame[c]]
        BY <2>2, <3>1, <3>4, <4>1, <4>2 DEF HearLocalRequest, ToLive
      <4>5. \A c \in Clients : /\ Grows(toFrame[c], toFrame'[c])
                               /\ Live(c) => Grows(f[c], toFrame'[c])
                               /\ ~Live(c) => toFrame'[c] = toFrame[c]
        BY <4>3, <4>4, ToLiveGrows
      <4>6. \A c \in customs : c \in Clients => Has(f[c], x)
        BY <4>2, HasOne
      <4> QED
        BY <3>2, <3>3, <3>4, <4>1, <4>5, <4>6, <1>5 DEF Grows, Customs
    <3>5. CASE promise[q].kind # "version"
      <4>1. toFrame' = toFrame
        BY <2>2, <3>1, <3>5 DEF HearLocalRequest
      <4> QED
        BY <3>2, <3>3, <3>5, <4>1, <1>5, <1>6 DEF Customs
    <3> QED
      BY <3>4, <3>5
  <2>3. CASE m.event = "dataReturned" /\ HearLocalReply(m)
    <3>1. PICK x \in FrameMessages : x = m
      BY <1>2, <2>3, LocalKinds DEF FrameMessages
    <3>2. PICK f : f = [c \in Clients |-> <<x>>]
      OBVIOUS
    <3>3. f \in [Clients -> Seq(FrameMessages)] /\ \A c \in Clients : Has(f[c], x)
      BY <3>2, HasOne
    <3>4. toFrame' = [c \in Clients |-> IF c \in Listening /\ Live(c)
                                        THEN toFrame[c] \o f[c] ELSE toFrame[c]]
          /\ fetches' = fetches
      BY <2>3, <3>1, <3>2 DEF HearLocalReply, ToLive
    <3>5. \A c \in Clients : /\ Grows(toFrame[c], toFrame'[c])
                             /\ Live(c) => Grows(f[c], toFrame'[c])
                             /\ ~Live(c) => toFrame'[c] = toFrame[c]
      BY <3>3, <3>4, ToLiveGrows
    <3>6. \A r : m # CollectionRequested(r)
      BY <2>3 DEF CollectionRequested
    <3> QED
      BY <3>1, <3>3, <3>4, <3>5, <3>6 DEF Grows
  <2> QED
    BY <1>4, <2>1, <2>2, <2>3
<1>8. Shown'
  BY <1>1, <1>7 DEF Underway, Shown, Live
<1>9. StartIsComing'
  BY <1>1, <1>7 DEF Underway, StartIsComing, Live, Grows
<1>10. AnswersAreComing'
  <2> SUFFICES ASSUME NEW c \in Clients, NEW r \in Requests, Waits(c, r),
                      promise[r].kind # "unfit", host[c] = "custom"
               PROVE  Live(c) /\ frame[c] \in {"page", "app"} /\ Carried(c, r)'
    BY <1>1 DEF AnswersAreComing, Waits, Live
  <2>1. Live(c) /\ frame[c] \in {"page", "app"} /\ Carried(c, r)
    BY DEF Underway, AnswersAreComing
  <2>2. promise[r].kind \in {"query", "version", "navigate"}
    BY DEF AskedFor, Kinds, Waits
  <2>3. Returned(toFrame[c], r) => Returned(toFrame'[c], r)
    BY <1>7 DEF Returned, Grows
  <2>4. Returned(local, r) => Returned(local', r) \/ Returned(toFrame'[c], r)
    BY <2>1, <1>3, <1>7 DEF Returned
  <2>5. Has(local, CollectionRequested(r)) =>
          \/ Has(local', CollectionRequested(r)) \/ promise[r].kind = "navigate"
          \/ <<c, r>> \in fetches' \/ Returned(toFrame'[c], r)
    BY <2>1, <2>2, <1>3, <1>7 DEF Returned
  <2> QED
    BY <2>1, <2>3, <2>4, <2>5, <1>1, <1>7 DEF Carried
<1> QED
  BY <1>8, <1>9, <1>10 DEF Underway

\* What a host fetched is there.
LEMMA ComingFetchEnds ==
  ASSUME Typed, Underway, NEW d \in Clients, NEW q \in Requests, FetchEnds(d, q)
  PROVE  Underway'
<1>1. /\ fetches' = fetches \ {<<d, q>>}
      /\ UNCHANGED <<open, host, frame, toMain, promise>>
      /\ toFrame \in [Clients -> Seq(FrameMessages)] /\ local \in Seq(LocalMessages)
  BY DEF FetchEnds, mains, frames, Typed, WireTypes
<1>2. PICK status \in {"resolved", "rejected"} :
        IF promise[q].kind = "navigate"
        THEN local' = Append(local, DataReturned(q, status)) /\ UNCHANGED toFrame
        ELSE /\ toFrame' = IF Live(d) THEN [toFrame EXCEPT ![d] = Append(@, DataReturned(q, status))]
                           ELSE toFrame
             /\ UNCHANGED local
  BY DEF FetchEnds
<1>3. PICK x : x \in FrameMessages /\ x \in LocalMessages /\ x = DataReturned(q, status)
  BY Sent
<1>4. /\ Append(local, x) = local \o <<x>>
      /\ \A c \in Clients : Append(toFrame[c], x) = toFrame[c] \o <<x>>
  BY <1>1, <1>3, AppendIsConcat
<1>5. \A p : Grows(p, p)
  BY DEF Grows
<1>6. /\ \A c \in Clients : Grows(toFrame[c], toFrame'[c])
      /\ \A c \in Clients : ~Live(c) => toFrame'[c] = toFrame[c]
      /\ Grows(local, local')
      /\ promise[q].kind = "navigate" => Has(local', x)
      /\ promise[q].kind # "navigate" /\ Live(d) => Has(toFrame'[d], x)
  <2>1. CASE promise[q].kind = "navigate"
    <3>1. local' = local \o <<x>> /\ toFrame' = toFrame
      BY <2>1, <1>2, <1>3, <1>4
    <3> QED
      BY <2>1, <3>1, <1>1, <1>5, GrowsOne
  <2>2. CASE promise[q].kind # "navigate" /\ Live(d)
    <3>1. toFrame' = [toFrame EXCEPT ![d] = toFrame[d] \o <<x>>] /\ local' = local
      BY <2>2, <1>2, <1>3, <1>4
    <3>2. toFrame'[d] = toFrame[d] \o <<x>> /\ \A c \in Clients \ {d} : toFrame'[c] = toFrame[c]
      BY <3>1, <1>1
    <3>3. Grows(toFrame[d], toFrame'[d]) /\ Has(toFrame'[d], x)
      BY <3>2, <1>1, GrowsOne
    <3> QED
      BY <2>2, <3>1, <3>2, <3>3, <1>5
  <2>3. CASE promise[q].kind # "navigate" /\ ~Live(d)
    BY <2>3, <1>2, <1>5
  <2> QED
    BY <2>1, <2>2, <2>3
<1>7. Shown'
  BY <1>1, <1>6 DEF Underway, Shown, Live
<1>8. StartIsComing'
  BY <1>1, <1>6 DEF Underway, StartIsComing, Live, Grows
<1>9. AnswersAreComing'
  <2> SUFFICES ASSUME NEW c \in Clients, NEW r \in Requests, Waits(c, r),
                      promise[r].kind # "unfit", host[c] = "custom"
               PROVE  Live(c) /\ frame[c] \in {"page", "app"} /\ Carried(c, r)'
    BY <1>1 DEF AnswersAreComing, Waits, Live
  <2>1. Live(c) /\ frame[c] \in {"page", "app"} /\ Carried(c, r)
    BY DEF Underway, AnswersAreComing
  <2>2. Returned(toFrame[c], r) => Returned(toFrame'[c], r)
    BY <1>6 DEF Returned, Grows
  <2>3. Returned(local, r) => Returned(local', r)
    BY <1>6 DEF Returned, Grows
  <2>4. Has(local, CollectionRequested(r)) => Has(local', CollectionRequested(r))
    BY <1>6 DEF Grows
  <2>5. CASE c = d /\ r = q
    <3>1. IF promise[r].kind = "navigate" THEN Returned(local', r) ELSE Returned(toFrame'[c], r)
      BY <2>1, <2>5, <1>3, <1>6 DEF Returned
    <3> QED
      BY <2>1, <3>1, <1>1 DEF Carried
  <2>6. CASE ~(c = d /\ r = q)
    <3>1. <<c, r>> \in fetches => <<c, r>> \in fetches'
      BY <2>6, <1>1
    <3> QED
      BY <2>1, <2>2, <2>3, <2>4, <3>1, <1>1 DEF Carried
  <2> QED
    BY <2>5, <2>6
<1> QED
  BY <1>7, <1>8, <1>9 DEF Underway

\* A request keeps its kind.
LEMMA AskedStep == Typed /\ AskedFor /\ [Next]_vars => AskedFor'
<1> SUFFICES ASSUME Typed, AskedFor, [Next]_vars PROVE AskedFor'
  OBVIOUS
<1>1. ASSUME UNCHANGED promise
      PROVE  AskedFor'
  BY <1>1 DEF AskedFor
<1>2. ASSUME NEW c,
             promise' = [r \in Requests |-> IF promise[r].of = c
                                            THEN [promise[r] EXCEPT !.state = "gone"] ELSE promise[r]]
      PROVE  AskedFor'
  <2>1. \A r \in Requests : promise'[r] = promise[r] \/ promise'[r].state = "gone"
    BY <1>2 DEF Typed, AskedTypes
  <2> QED
    BY <2>1 DEF AskedFor
<1>3. ASSUME NEW c \in Clients, Mount(c) \/ Initialize(c) \/ Leave(c) \/ FrameLoads(c)
                                  \/ FrameReloads(c) \/ StartApp(c)
      PROVE  AskedFor'
  <2>1. CASE Leave(c) \/ FrameReloads(c)
    BY <2>1, <1>2 DEF Leave, FrameReloads
  <2>2. CASE Mount(c) \/ Initialize(c) \/ FrameLoads(c) \/ StartApp(c)
    BY <2>2, <1>1 DEF Mount, Initialize, FrameLoads, StartApp, asked
  <2> QED
    BY <1>3, <2>1, <2>2
<1>4. ASSUME NEW c \in Clients, Operate(c)
      PROVE  AskedFor'
  <2>1. CASE \E r \in Requests, kind \in Kinds : Ask(c, r, kind)
    <3>1. PICK q \in Requests, kind \in Kinds :
            promise' = [promise EXCEPT ![q] = [of |-> c, kind |-> kind, state |-> "pending"]]
      BY <2>1 DEF Ask
    <3>2. \A r \in Requests : promise'[r] = IF r = q
                                            THEN [of |-> c, kind |-> kind, state |-> "pending"]
                                            ELSE promise[r]
      BY <3>1 DEF Typed, AskedTypes
    <3> QED
      BY <3>2 DEF AskedFor
  <2>2. CASE ~\E r \in Requests, kind \in Kinds : Ask(c, r, kind)
    <3>1. UNCHANGED promise
      BY <1>4, <2>2 DEF Operate, SetItem, RemoveItem, Clear, SetProperty, Look, SetValue,
                        RefuseValue, NavigateApp, Change, asked
    <3> QED
      BY <3>1, <1>1
  <2> QED
    BY <2>1, <2>2
<1>5. ASSUME NEW c \in Clients, FrameReceives(c)
      PROVE  AskedFor'
  <2>1. PICK q, status : promise' = promise \/ (promise[q].state = "pending"
                           /\ promise' = [promise EXCEPT ![q].state = status])
    <3>1. \/ UNCHANGED promise
          \/ ReceiveReply(c, Head(toFrame[c]))
      BY <1>5 DEF FrameReceives, ReceiveState, ReceiveMainReady, ReceiveReadyCheck
    <3> QED
      BY <3>1 DEF ReceiveReply
  <2>2. CASE promise[q].state = "pending" /\ promise' = [promise EXCEPT ![q].state = status]
    <3>1. \A r \in Requests : promise'[r] = IF r = q THEN [promise[r] EXCEPT !.state = status]
                                            ELSE promise[r]
      BY <2>2 DEF Typed, AskedTypes
    <3>2. \A r \in Requests : promise'[r].kind = promise[r].kind
      BY <3>1 DEF Typed, AskedTypes
    <3> QED
      BY <2>2, <3>1, <3>2 DEF AskedFor
  <2> QED
    BY <2>1, <2>2, <1>1
<1>6. CASE UNCHANGED vars
  BY <1>6, <1>1 DEF vars, asked
<1>7. CASE Next
  <2>1. ASSUME NEW c \in Clients, MainReceives(c) \/ \E r \in Requests : FetchEnds(c, r)
        PROVE  UNCHANGED promise
    BY <2>1 DEF MainReceives, FetchEnds
  <2>2. LocalReceives => UNCHANGED promise
    BY DEF LocalReceives
  <2> QED
    BY <1>7, <1>1, <1>3, <1>4, <1>5, <2>1, <2>2 DEF Next
<1> QED
  BY <1>6, <1>7

\* Every step keeps it.
LEMMA ComingStep == Typed /\ AskedFor /\ Underway /\ [Next]_vars => Underway'
<1> SUFFICES ASSUME Typed, AskedFor, Underway, [Next]_vars PROVE Underway'
  OBVIOUS
<1>1. CASE UNCHANGED vars
  BY <1>1, ComingSame DEF vars, mains, frames, wires, asked, Grows
<1>2. CASE Next
  BY <1>2, ComingHost, ComingDocuments, ComingOperate, ComingFrameReceives, ComingMainReceives,
     ComingLocalReceives, ComingFetchEnds DEF Next
<1> QED
  BY <1>1, <1>2

LEMMA ComingAlways == Spec => []Underway
<1>1. Init => AskedFor /\ Underway
  <2> SUFFICES ASSUME Init PROVE AskedFor /\ Underway
    OBVIOUS
  <2>1. \A c \in Clients : open[c] = "no" /\ frame[c] = "none" /\ toFrame[c] = <<>>
    BY DEF Init
  <2>2. \A r \in Requests : promise[r].state = "none"
    BY DEF Init, NotAsked
  <2> QED
    BY <2>1, <2>2 DEF AskedFor, Underway, Shown, StartIsComing, AnswersAreComing, Waits, Live
<1> QED
  BY <1>1, TypedAlways, AskedStep, ComingStep, PTL DEF Spec

\* An app that does not run yet is not forgotten: whatever the frame and the client
\* missed of each other, a signal that leads to its start is under way (READYCHECK,
\* IFRAMEREADY, MAINREADY).
THEOREM StartsAreComing == Spec => []StartIsComing
<1>1. Underway => StartIsComing
  BY DEF Underway
<1> QED
  BY <1>1, ComingAlways, PTL

\* In a custom channel a request that the renderer takes up is never lost between
\* the frame, the window and the host (sendMessage, sendLocalMessage).
THEOREM AnswersOnTheWay == Spec => []AnswersAreComing
<1>1. Underway => AnswersAreComing
  BY DEF Underway
<1> QED
  BY <1>1, ComingAlways, PTL

-----------------------------------------------------------------------------
(* What the app reads is right, short of three things: clear(), an empty   *)
(* value, and properties that are set before the app goes to another page. *)

Seen(d, p) == [k \in Keys |-> IF k \in Internal THEN d[k] ELSE p[k]]

Reading ==
    \A c \in Clients : frame[c] = "app" /\ ~doubled[c]
        => /\ Seen(data[c][Shimmed], shim[c]) = meant[c]
           /\ "setProperty" \notin Ops => data[c][Shimmed] = meant[c]

\* What is seen of an item that is changed on both sides, or only in the shim.
LEMMA SeenChanged ==
  ASSUME NEW d \in Items, NEW p \in Items, NEW k \in Keys, NEW v \in Values \cup {Absent}
  PROVE  /\ Seen([d EXCEPT ![k] = v], Put(p, k, v)) = [Seen(d, p) EXCEPT ![k] = v]
         /\ k \notin Internal => Seen(d, Put(p, k, v)) = [Seen(d, p) EXCEPT ![k] = v]
BY DEF Seen, Put, Items

\* The shim of a new page shows the data.
LEMMA SeenAnew ==
  ASSUME Empty \notin Values, NEW d \in Items
  PROVE  Seen(d, ToShim(d)) = d
BY ItemsDiffer DEF Seen, ToShim, Items

\* An operation of the app.
LEMMA ReadingChange ==
  ASSUME Typed, Reading, NEW c \in Clients, NEW s \in Names, NEW x \in Items, NEW p, NEW w,
         NEW tells, Change(c, s, x, p, w, tells),
         LET y == IF s = Shimmed THEN x ELSE data[c][Shimmed] IN
           ~doubled[c] => Seen(y, p) = w /\ ("setProperty" \notin Ops => y = w)
  PROVE  Reading'
<1>1. /\ data \in [Clients -> [Names -> Items]] /\ DOMAIN shim = Clients /\ DOMAIN meant = Clients
      /\ Shimmed \in Names
  BY ItemsKept DEF Typed, DataTypes
<1>2. /\ data' = [data EXCEPT ![c][s] = x] /\ shim' = [shim EXCEPT ![c] = p]
      /\ meant' = [meant EXCEPT ![c] = w] /\ UNCHANGED <<frame, doubled>>
  BY DEF Change
<1>3. /\ data'[c][Shimmed] = IF s = Shimmed THEN x ELSE data[c][Shimmed]
      /\ shim'[c] = p /\ meant'[c] = w
      /\ \A d \in Clients : d # c => data'[d] = data[d] /\ shim'[d] = shim[d] /\ meant'[d] = meant[d]
  BY <1>1, <1>2
<1>4. ASSUME NEW d \in Clients, frame'[d] = "app", ~doubled'[d]
      PROVE  /\ Seen(data'[d][Shimmed], shim'[d]) = meant'[d]
             /\ "setProperty" \notin Ops => data'[d][Shimmed] = meant'[d]
  <2>1. CASE d = c
    BY <2>1, <1>2, <1>3, <1>4
  <2>2. CASE d # c
    BY <2>2, <1>2, <1>3, <1>4 DEF Reading
  <2> QED
    BY <2>1, <2>2
<1> QED
  BY <1>4 DEF Reading

\* Where nothing of this changes, for the clients that go on.
LEMMA ReadingSame ==
  ASSUME Reading,
         \A c \in Clients : frame'[c] = "app" /\ ~doubled'[c] =>
            /\ frame[c] = "app" /\ ~doubled[c]
            /\ data'[c] = data[c] /\ shim'[c] = shim[c] /\ meant'[c] = meant[c]
  PROVE  Reading'
BY DEF Reading

LEMMA ReadingOperate ==
  ASSUME "clear" \notin Ops, Empty \notin Values, "setProperty" \notin Ops \/ "navigate" \notin Ops,
         Typed, Reading, NEW c \in Clients, Operate(c)
  PROVE  Reading'
<1> DEFINE own == data[c][Shimmed]
<1>1. own \in Items /\ shim[c] \in Items /\ meant[c] \in Items /\ Shimmed \in Names
      /\ data \in [Clients -> [Names -> Items]]
  BY ItemsKept DEF Typed, DataTypes
<1>2. frame[c] = "app" => /\ ~doubled[c] => Seen(own, shim[c]) = meant[c]
                          /\ "setProperty" \notin Ops /\ ~doubled[c] => own = meant[c]
  BY DEF Reading
<1>3. \A k \in Keys, v \in Values \cup {Absent} :
        /\ [own EXCEPT ![k] = v] \in Items
        /\ Seen([own EXCEPT ![k] = v], Put(shim[c], k, v)) = [Seen(own, shim[c]) EXCEPT ![k] = v]
        /\ k \notin Internal => Seen(own, Put(shim[c], k, v)) = [Seen(own, shim[c]) EXCEPT ![k] = v]
  <2>1. PICK i \in Items, p \in Items : i = own /\ p = shim[c]
    BY <1>1
  <2>2. \A k \in Keys, v \in Values \cup {Absent} :
          /\ [i EXCEPT ![k] = v] \in Items
          /\ Seen([i EXCEPT ![k] = v], Put(p, k, v)) = [Seen(i, p) EXCEPT ![k] = v]
          /\ k \notin Internal => Seen(i, Put(p, k, v)) = [Seen(i, p) EXCEPT ![k] = v]
    <3>1. \A k \in Keys, v \in Values \cup {Absent} : [i EXCEPT ![k] = v] \in Items
      BY ItemsKept
    <3>2. ASSUME NEW k \in Keys, NEW v \in Values \cup {Absent}
          PROVE  /\ Seen([i EXCEPT ![k] = v], Put(p, k, v)) = [Seen(i, p) EXCEPT ![k] = v]
                 /\ k \notin Internal => Seen(i, Put(p, k, v)) = [Seen(i, p) EXCEPT ![k] = v]
      BY SeenChanged
    <3> QED
      BY <3>1, <3>2
  <2> HIDE DEF own
  <2> QED
    BY <2>1, <2>2
<1>4. Operate(c) => frame[c] = "app"
  BY DEF Operate, SetItem, RemoveItem, Clear, SetProperty, Look, SetValue, RefuseValue,
         NavigateApp, Ask, Change
<1>5. ASSUME NEW k \in Keys, NEW v \in Values, SetItem(c, k, v)
      PROVE  Reading'
  <2>1. Change(c, Shimmed, [own EXCEPT ![k] = v], Put(shim[c], k, v), [meant[c] EXCEPT ![k] = v], TRUE)
    BY <1>5 DEF SetItem
  <2>2. /\ [own EXCEPT ![k] = v] \in Items
        /\ ~doubled[c] => Seen([own EXCEPT ![k] = v], Put(shim[c], k, v)) = [meant[c] EXCEPT ![k] = v]
        /\ ~doubled[c] /\ "setProperty" \notin Ops => [own EXCEPT ![k] = v] = [meant[c] EXCEPT ![k] = v]
    BY <1>2, <1>3, <1>4
  <2> HIDE DEF own
  <2> QED
    BY <2>1, <2>2, <1>1, ReadingChange
<1>6. ASSUME NEW k \in Keys, RemoveItem(c, k)
      PROVE  Reading'
  <2>1. Change(c, Shimmed, [own EXCEPT ![k] = Absent], Put(shim[c], k, Absent),
               [meant[c] EXCEPT ![k] = Absent], TRUE)
    BY <1>6 DEF RemoveItem
  <2>2. /\ [own EXCEPT ![k] = Absent] \in Items
        /\ ~doubled[c] => Seen([own EXCEPT ![k] = Absent], Put(shim[c], k, Absent))
                            = [meant[c] EXCEPT ![k] = Absent]
        /\ ~doubled[c] /\ "setProperty" \notin Ops
             => [own EXCEPT ![k] = Absent] = [meant[c] EXCEPT ![k] = Absent]
    BY <1>2, <1>3, <1>4
  <2> HIDE DEF own
  <2> QED
    BY <2>1, <2>2, <1>1, ReadingChange
<1>7. ASSUME NEW k \in Keys, NEW v \in Values \cup {Absent}, SetProperty(c, k, v)
      PROVE  Reading'
  <2>1. /\ Change(c, Shimmed, own, Put(shim[c], k, v), [meant[c] EXCEPT ![k] = v], FALSE)
        /\ k \notin Internal /\ "setProperty" \in Ops
    BY <1>7 DEF SetProperty
  <2>2. ~doubled[c] => Seen(own, Put(shim[c], k, v)) = [meant[c] EXCEPT ![k] = v]
    BY <2>1, <1>2, <1>3, <1>4
  <2> HIDE DEF own
  <2> QED
    BY <2>1, <2>2, <1>1, ReadingChange
<1>8. ASSUME Look(c)
      PROVE  Reading'
  <2>1. FromShim(c) = Seen(own, shim[c])
    BY DEF FromShim, Seen
  <2>2. CASE FromShim(c) = data[c][Shimmed]
    <3>1. UNCHANGED <<data, shim, meant, frame, doubled>>
      BY <1>8, <2>2 DEF Look
    <3> QED
      BY <3>1, ReadingSame
  <2>3. CASE FromShim(c) # data[c][Shimmed]
    <3>1. PICK x \in Items : x = FromShim(c)
      BY <2>1, <1>1 DEF Seen, Items
    <3>2. Change(c, Shimmed, x, ToShim(x), meant[c], TRUE)
      BY <1>8, <2>3, <3>1 DEF Look
    <3>3. Seen(x, ToShim(x)) = x
      BY SeenAnew
    <3>4. ~doubled[c] => x = meant[c]
      BY <3>1, <2>1, <1>2, <1>4
    <3> QED
      BY <3>2, <3>3, <3>4, <1>1, ReadingChange
  <2> QED
    BY <2>2, <2>3
<1>9. ASSUME NEW s \in Names, NEW k \in Keys, NEW v \in Values, SetValue(c, s, k, v)
      PROVE  Reading'
  <2>1. Change(c, s, [data[c][s] EXCEPT ![k] = v], shim[c], meant[c], TRUE) /\ s # Shimmed
    BY <1>9 DEF SetValue
  <2>2. [data[c][s] EXCEPT ![k] = v] \in Items
    BY <1>1, ItemsKept
  <2>3. /\ ~doubled[c] => Seen(own, shim[c]) = meant[c]
        /\ ~doubled[c] /\ "setProperty" \notin Ops => own = meant[c]
    BY <1>2, <1>4
  <2> QED
    BY <2>1, <2>2, <2>3, ReadingChange
<1>10. ASSUME NavigateApp(c)
       PROVE  Reading'
  <2>1. /\ shim' = [shim EXCEPT ![c] = ToShim(own)] /\ "navigate" \in Ops
        /\ UNCHANGED <<data, meant, frame, doubled>>
    BY <1>10 DEF NavigateApp, history
  <2>2. ~doubled[c] => Seen(own, ToShim(own)) = meant[c] /\ own = meant[c]
    BY <2>1, <1>1, <1>2, <1>4, SeenAnew
  <2>3. shim'[c] = ToShim(own) /\ \A d \in Clients : d # c => shim'[d] = shim[d]
    BY <2>1 DEF Typed, DataTypes
  <2>4. ASSUME NEW d \in Clients, frame[d] = "app", ~doubled[d]
        PROVE  /\ Seen(data[d][Shimmed], shim'[d]) = meant[d]
               /\ "setProperty" \notin Ops => data[d][Shimmed] = meant[d]
    <3>1. CASE d = c
      BY <3>1, <2>2, <2>3, <2>4
    <3>2. CASE d # c
      BY <3>2, <2>3, <2>4 DEF Reading
    <3> QED
      BY <3>1, <3>2
  <2> QED
    BY <2>1, <2>4 DEF Reading
<1>11. ASSUME NEW r \in Requests, NEW kind \in Kinds, Ask(c, r, kind)
       PROVE  Reading'
  BY <1>11, ReadingSame DEF Ask, frames, history
<1>12. ~Clear(c)
  BY DEF Clear
<1>13. ASSUME NEW s \in Names, NEW k \in Keys, RefuseValue(c, s, k)
       PROVE  Reading'
  <2>1. /\ data' = [data EXCEPT ![c][s][k] = Partial] /\ s # Shimmed
        /\ UNCHANGED <<frame, shim, meant, doubled>>
    BY <1>13 DEF RefuseValue, history
  <2>2. \A d \in Clients : data'[d][Shimmed] = data[d][Shimmed]
    BY <2>1, <1>1
  <2> QED
    BY <2>1, <2>2 DEF Reading
<1> QED
  BY <1>5, <1>6, <1>7, <1>8, <1>9, <1>10, <1>11, <1>12, <1>13 DEF Operate

\* A message arrives at a frame: none with data, nor another MAINREADY, comes to an
\* app that runs.
LEMMA ReadingFrameReceives ==
  ASSUME Holds, Reading, NEW c \in Clients, FrameReceives(c)
  PROVE  Reading'
<1> DEFINE m == Head(toFrame[c])
<1>1. /\ data \in [Clients -> [Names -> Items]] /\ DOMAIN shim = Clients
      /\ frame \in [Clients -> {"none", "env", "page", "app"}] /\ doubled \in [Clients -> BOOLEAN]
  BY DEF Holds, Typed, DataTypes, FrameTypes
<1>2. toFrame[c] # <<>> /\ toFrame[c] \in Seq(FrameMessages) /\ meant' = meant
  BY DEF FrameReceives, Holds, Typed, WireTypes
<1>3. /\ \A d \in Clients : d # c => /\ data'[d] = data[d] /\ shim'[d] = shim[d]
                                     /\ frame'[d] = frame[d] /\ doubled'[d] = doubled[d]
      /\ doubled[c] => doubled'[c]
      /\ frame'[c] = "app" => frame[c] = "app"
      /\ m.event \notin Ready \/ m.event = "readyCheck" => data'[c] = data[c] /\ shim'[c] = shim[c]
  <2>1. CASE m.event = "stateUpdate" /\ ReceiveState(c, m)
    BY <2>1, <1>1 DEF ReceiveState, Ready
  <2>2. CASE m.event = "mainReady" /\ ReceiveMainReady(c)
    BY <2>2, <1>1 DEF ReceiveMainReady, Ready
  <2>3. CASE m.event = "readyCheck" /\ ReceiveReadyCheck(c)
    BY <2>3, <1>1 DEF ReceiveReadyCheck, frames
  <2>4. CASE m.event = "dataReturned" /\ ReceiveReply(c, m)
    BY <2>4, <1>1 DEF ReceiveReply, frames
  <2>5. CASE m.event = "navigateTo" /\ UNCHANGED <<frames, toMain, promise, doubled>>
    BY <2>5, <1>1 DEF frames
  <2> QED
    BY <2>1, <2>2, <2>3, <2>4, <2>5 DEF FrameReceives
<1>4. frame[c] = "app" /\ ~doubled[c] => m.event \notin Ready
  <2> SUFFICES ASSUME frame[c] = "app", ~doubled[c]
               PROVE  m.event \notin Ready
    OBVIOUS
  <2>1. Live(c)
    BY <1>1 DEF Holds, Phases, Live, Typed, Kept
  <2>2. Quiet(toFrame[c])
    BY <2>1 DEF Holds, OneStart, Fits, Signals
  <2> QED
    BY <2>2, <1>2, OneLess DEF Quiet
<1> HIDE DEF m
<1> QED
  BY <1>2, <1>3, <1>4, ReadingSame

LEMMA ReadingStep ==
  ASSUME "clear" \notin Ops, Empty \notin Values, "setProperty" \notin Ops \/ "navigate" \notin Ops
  PROVE  Holds /\ Reading /\ [Next]_vars => Reading'
<1> SUFFICES ASSUME Holds, Reading, [Next]_vars PROVE Reading'
  OBVIOUS
<1>1. CASE UNCHANGED vars
  BY <1>1, ReadingSame DEF vars, frames, history
<1>2. ASSUME NEW c \in Clients, Mount(c) \/ Initialize(c)
      PROVE  Reading'
  BY <1>2, ReadingSame DEF Mount, Initialize, frames, history
<1>3. ASSUME NEW c \in Clients, Leave(c) \/ FrameLoads(c) \/ FrameReloads(c)
      PROVE  Reading'
  <2>1. /\ frame'[c] # "app" /\ meant' = meant
        /\ \A d \in Clients : d # c => /\ data'[d] = data[d] /\ shim'[d] = shim[d]
                                       /\ frame'[d] = frame[d] /\ doubled'[d] = doubled[d]
    <3>1. DOMAIN frame = Clients /\ DOMAIN data = Clients /\ DOMAIN shim = Clients
          /\ DOMAIN doubled = Clients
      BY DEF Holds, Typed, DataTypes, FrameTypes
    <3>2. CASE Leave(c)
      BY <3>1, <3>2 DEF Leave, history
    <3>3. CASE FrameLoads(c)
      <4>1. PICK b : doubled' = [doubled EXCEPT ![c] = b]
        BY <3>3 DEF FrameLoads
      <4> QED
        BY <3>1, <3>3, <4>1 DEF FrameLoads
    <3>4. CASE FrameReloads(c)
      BY <3>1, <3>4 DEF FrameReloads, history
    <3> QED
      BY <1>3, <3>2, <3>3, <3>4
  <2> QED
    BY <2>1, ReadingSame
<1>4. ASSUME NEW c \in Clients, StartApp(c)
      PROVE  Reading'
  <2>1. /\ shim' = [shim EXCEPT ![c] = ToShim(data[c][Shimmed])]
        /\ meant' = [meant EXCEPT ![c] = data[c][Shimmed]]
        /\ frame' = [frame EXCEPT ![c] = "app"] /\ UNCHANGED <<data, doubled>>
    BY <1>4 DEF StartApp
  <2>2. data[c][Shimmed] \in Items
    BY ItemsKept DEF Holds, Typed, DataTypes
  <2>3. /\ shim'[c] = ToShim(data[c][Shimmed]) /\ meant'[c] = data[c][Shimmed]
        /\ \A d \in Clients : d # c => /\ shim'[d] = shim[d] /\ meant'[d] = meant[d]
                                       /\ frame'[d] = frame[d]
    BY <2>1 DEF Holds, Typed, DataTypes, FrameTypes
  <2>4. Seen(data[c][Shimmed], shim'[c]) = meant'[c]
    BY <2>2, <2>3, SeenAnew
  <2>5. ASSUME NEW d \in Clients, frame'[d] = "app", ~doubled[d]
        PROVE  /\ Seen(data[d][Shimmed], shim'[d]) = meant'[d]
               /\ "setProperty" \notin Ops => data[d][Shimmed] = meant'[d]
    <3>1. CASE d = c
      BY <3>1, <2>3, <2>4
    <3>2. CASE d # c
      BY <3>2, <2>3, <2>5 DEF Reading
    <3> QED
      BY <3>1, <3>2
  <2> QED
    BY <2>1, <2>5 DEF Reading
<1>5. ASSUME NEW c \in Clients, MainReceives(c) \/ \E r \in Requests : FetchEnds(c, r)
      PROVE  Reading'
  BY <1>5, ReadingSame DEF MainReceives, FetchEnds, frames, history
<1>6. LocalReceives => Reading'
  BY ReadingSame DEF LocalReceives, frames, history
<1>7. CASE Next
  BY <1>2, <1>3, <1>4, <1>5, <1>6, <1>7, ReadingOperate, ReadingFrameReceives DEF Next, Holds
<1> QED
  BY <1>1, <1>7

\* An app that is alone, does not call clear(), has no empty value and does not go
\* to another page after it set properties, reads what it has written or removed
\* (getItem, setDataFromShim).  The run sandbox_clear shows what clear() does.
THEOREM ReadsCorrect ==
  ASSUME ~Overlays, "clear" \notin Ops, Empty \notin Values,
         "setProperty" \notin Ops \/ "navigate" \notin Ops
  PROVE  Spec => []ReadsAreRight
<1>1. Init => Reading
  BY DEF Init, Reading
<1>2. Holds /\ Reading => ReadsAreRight
  <2> SUFFICES ASSUME Holds, Reading, NEW c \in Clients, frame[c] = "app", ~doubled[c]
               PROVE  GetItem(c) = meant[c]
    BY DEF ReadsAreRight
  <2>1. FromShim(c) = meant[c] /\ meant[c] \in Items
    BY DEF Reading, FromShim, Seen, Holds, Typed, DataTypes
  <2>2. \A k \in Keys : meant[c][k] # Empty
    BY <2>1, ItemsDiffer DEF Items
  <2>3. GetItem(c) = [k \in Keys |-> meant[c][k]]
    BY <2>1, <2>2 DEF GetItem
  <2> QED
    BY <2>1, <2>3 DEF Items
<1> QED
  BY <1>1, <1>2, HoldsAlways, ReadingStep, PTL DEF Spec
=============================================================================
