--------------------------- MODULE ProgressTracking ----------------------------
(***************************************************************************)
(* How the page of a resource keeps what a learner does                    *)
(* (plugins/learn/assets/src/composables/useProgressTracking.js), with the *)
(* part of core/logger/api.py that answers it.                             *)
(*                                                                         *)
(* Each call of updateContentSession changes what is not saved yet and     *)
(* either flushes it or arms the debounce timer.  A flush that is worth it *)
(* takes all that is unsaved into one save; the saves are chained on       *)
(* savingPromise, so each waits for the one before.  A save that the       *)
(* server answers by 503 is sent again a few times; any other failure      *)
(* rejects it, and with it every save chained after it.                    *)
(*                                                                         *)
(* The calls are numbered.  The time a call adds is a unit, counted by the *)
(* call's number: `parts` are the calls whose time and data a save holds.  *)
(* Progress is counted in Full units, for the thousandths that page and    *)
(* server round up to: the sum of two progresses, a float, is rounded to   *)
(* its exact value or to one unit more.  A content state is the number of  *)
(* the call that brought it.                                               *)
(***************************************************************************)
EXTENDS Integers, Sequences, FiniteSets, SequencesExt

CONSTANTS
    Kinds,          \* what the page may show: of "resource", "exercise",
                    \* "practice" (a quiz of the library) and "exam"
    Items,          \* the questions
    Full,           \* a progress of 1
    Threshold,      \* progressThreshold
    TimeThreshold,  \* timeThreshold
    MaxRetries,     \* maxRetries
    NumCalls,       \* bound: calls of updateContentSession
    NumSessions,    \* bound: content sessions of the page
    MaxRounded,     \* bound: sums that are rounded above their exact value
    MaxFailures     \* bound: requests whose answer is lost

ASSUME CallBound == NumCalls \in Nat \ {0}

ASSUME ProgressUnits == Full \in Nat

Calls == 1..NumCalls
Sessions == 1..NumSessions

VARIABLES
    kind,       \* what the page shows
    here,       \* the page is mounted
    ready,      \* sessionReady: the renderer is there
    sid,        \* session_id, 0 for null
    tracking,   \* the interval timer runs
    progress,   \* progress_state
    content,    \* the contentState of extra_fields, 0 for none
    attempts,   \* pastattempts: of each item its id, Local, or None
    buffer,     \* what is not saved yet: the deltas, the dirty bit, the
                \* interactions and forceSessionUpdate
    armed,      \* updateContentSessionTimeout is set
    stack,      \* updateContentSessionDeferredStack
    saves,      \* the saves that were chained on savingPromise, in order
    waits,      \* of each returned promise, how many saves it waits for, or
                \* Unsettled while no flush has taken it
    calls,      \* calls made
    again,      \* the call of stopTracking that a repeat waits for, 0 for none
    post,       \* the request that starts a session, and its answer
    sessions,   \* the server: sessions started
    masteries,  \* the server: of each session, its mastery log
    summary,    \* the server: progress of the summary log
    stored,     \* the server: content state of the summary log
    logs,       \* the server: attempt logs, in the order of their creation
    recorded,   \* history: how often the server recorded a call
    dropped,    \* history: calls that a new session threw away
    started,    \* history: calls made when the page's session started
    rounded,    \* history: sums that were rounded above their exact value
    failures

page == <<kind, here, ready, sid, tracking>>
shown == <<progress, content, attempts>>
unsent == <<buffer, armed, stack>>
server == <<sessions, masteries, summary, stored, logs, recorded>>
past == <<dropped, started, rounded>>
vars == <<page, shown, unsent, saves, waits, calls, again, post, server, past, failures>>

None == 0
Unsettled == -1
Local == -1
NotSent == -1

Lower(a, b) == IF a < b THEN a ELSE b

\* threeDecimalPlaceRoundup, capped at 1: what the floats leave over a thousandth
\* makes it one more
RoundUp(sum, e) == Lower(Full, sum + e)

\* the units that rounding up may still add
Excess == {e \in {0, 1} : rounded + e <= MaxRounded}

Emptied == [delta |-> 0, parts |-> {}, dirty |-> FALSE, inter |-> <<>>, force |-> FALSE]

Quiz == kind \in {"practice", "exam"}

-----------------------------------------------------------------------------
(* What a flush does.                                                      *)

Finished(s) == s.state \in {"done", "failed"}

\* savingPromise is rejected
Poisoned == \E i \in DOMAIN saves : saves[i].state = "failed"

\* Fault: what is left when the page closes is only saved above the thresholds.
WorthUnforced(b, p) ==
    \/ \E k \in DOMAIN b.inter : b.inter[k].id = None
    \/ Len(b.inter) > 2
    \/ b.delta >= Threshold
    \/ b.delta > 0 /\ p >= Full
    \/ Cardinality(b.parts) >= TimeThreshold
    \/ b.dirty

\* the condition of immediatelyUpdateContentSession, with the progress p
Worth(b, p) ==
    \/ \E k \in DOMAIN b.inter : b.inter[k].id = None
    \/ Len(b.inter) > 2
    \/ b.delta >= Threshold
    \/ b.delta > 0 /\ p >= Full
    \/ Cardinality(b.parts) >= TimeThreshold
    \/ b.dirty
    \/ b.force

NewSave(b, c) ==
    [parts |-> b.parts, delta |-> b.delta, content |-> IF b.dirty THEN c ELSE NotSent,
     inter |-> b.inter, state |-> IF Poisoned THEN "failed" ELSE "waiting",
     tries |-> 0, session |-> 0, complete |-> FALSE, out |-> <<>>]

\* loggingSaving
Cleared(b) == Emptied

\* Fault: they are given savingPromise as it was before the flush.
AwaitedBefore(chain) == Len(saves)

\* the promises of a debounce wait for the save of its flush, and so for all
\* the saves before it
Awaited(chain) == Len(chain)

\* there is data to save: the dirty bit, which outlives the start of a session,
\* sends the extra fields of the new one
HasData(b) == b.parts # {} \/ b.dirty

\* immediatelyUpdateContentSession with b unsaved, at progress p and content
\* state c, for the promises of the calls in deferred
Flush(b, p, c, deferred) ==
    LET chain == IF Worth(b, p) /\ HasData(b) THEN Append(saves, NewSave(b, c)) ELSE saves
    IN /\ saves' = chain
       /\ buffer' = IF Worth(b, p) THEN Cleared(b) ELSE b
       /\ waits' = [n \in Calls |-> IF n \in deferred THEN Awaited(chain) ELSE waits[n]]
       /\ armed' = FALSE
       /\ stack' = {}

\* Fault: the promise of the last call takes the place of the earlier ones.
DeferLast(n) == {n}

\* a call that is debounced revokes the timer and keeps the promises
Defer(n) == stack \cup {n}

\* the end of updateContentSession: the call n leaves b unsaved
Finish(n, b, p, c, immediate) ==
    /\ calls' = n
    /\ progress' = p /\ content' = c
    /\ IF immediate \/ (progress < Full /\ p >= Full)
       THEN Flush(b, p, c, Defer(n))
       ELSE /\ buffer' = b /\ armed' = TRUE /\ stack' = Defer(n)
            /\ UNCHANGED <<saves, waits>>

\* the call n adds its time, if time is being tracked, and its data
WithPart(b, n) == [b EXCEPT !.parts = @ \cup {n}]

-----------------------------------------------------------------------------
(* The calls of updateContentSession.                                      *)

Next1 == calls + 1
MayCall == here /\ sid # 0 /\ calls < NumCalls - 1
Elsewhere == <<page, again, post, server, past, failures>>

Init ==
    /\ kind \in Kinds
    /\ here = TRUE /\ ready = FALSE /\ sid = 0 /\ tracking = FALSE
    /\ progress = 0 /\ content = None /\ attempts = [i \in Items |-> None]
    /\ buffer = Emptied /\ armed = FALSE /\ stack = {}
    /\ saves = <<>> /\ waits = [n \in Calls |-> Unsettled] /\ calls = 0 /\ again = 0
    /\ post = [state |-> "sent", session |-> 0, progress |-> 0, content |-> None,
               attempts |-> [i \in Items |-> None]]
    /\ sessions = 0 /\ masteries = <<>> /\ summary = 0 /\ stored = None /\ logs = <<>>
    /\ recorded = [n \in Calls |-> 0] /\ dropped = {} /\ started = 0
    /\ rounded = 0 /\ failures = 0

\* the interval timer, which gives no argument
Tick ==
    /\ MayCall /\ tracking
    /\ Finish(Next1, WithPart(buffer, Next1), progress, content, FALSE)
    /\ UNCHANGED <<attempts, Elsewhere>>

\* Fault: the progress that is not saved yet is replaced.
ProgressDeltaOnly(to, e) == RoundUp(to - progress, e)

\* progress: a position, which only counts beyond the one that was reached
ProgressDelta(to, e) == RoundUp(buffer.delta + to - progress, e)

ReachProgress(to) ==
    /\ MayCall /\ ready
    /\ to > progress
    /\ \E e \in Excess :
         /\ Finish(Next1, WithPart([buffer EXCEPT !.delta = ProgressDelta(to, e)], Next1),
                   to, content, FALSE)
         /\ rounded' = rounded + e
    /\ UNCHANGED <<attempts, page, again, post, server, dropped, started, failures>>

\* progressDelta: added, up to 1, even beyond a full progress
AddProgress ==
    /\ MayCall /\ ready /\ kind = "resource"
    /\ \E d, e \in Excess :
         /\ rounded + d + e <= MaxRounded /\ rounded' = rounded + d + e
         /\ Finish(Next1, WithPart([buffer EXCEPT !.delta = RoundUp(@ + 1, d)], Next1),
                   RoundUp(progress + 1, e), content, FALSE)
    /\ UNCHANGED <<attempts, page, again, post, server, dropped, started, failures>>

\* contentState, when it differs from the one that is known
SaveContentState ==
    /\ MayCall /\ ready /\ kind = "resource"
    /\ Finish(Next1, WithPart([buffer EXCEPT !.dirty = TRUE], Next1),
              progress, Next1, FALSE)
    /\ UNCHANGED <<attempts, Elsewhere>>

\* interaction, with the id of the attempt if the page knows it already
Answer(item) ==
    LET id == IF attempts[item] = Local THEN None ELSE attempts[item]
        b == [buffer EXCEPT !.inter = Append(@, [item |-> item, id |-> id])]
    IN /\ MayCall /\ ready /\ kind # "resource"
       /\ attempts' = [attempts EXCEPT ![item] = IF id = None THEN Local ELSE @]
       /\ Finish(Next1, WithPart(b, Next1), progress, content, id = None)
       /\ UNCHANGED Elsewhere

\* stopTrackingProgress: the interval is cleared first, so the call adds no time
StopWith(n) ==
    /\ Finish(n, [buffer EXCEPT !.force = TRUE], progress, content, TRUE)
    /\ tracking' = FALSE
    /\ UNCHANGED <<kind, sid, attempts, post, server, past, failures>>

Stop ==
    /\ MayCall
    /\ StopWith(Next1)
    /\ UNCHANGED <<here, ready, again>>

StartTracking ==
    /\ here /\ ready /\ ~tracking
    /\ tracking' = TRUE
    /\ UNCHANGED <<kind, here, ready, sid, shown, unsent, saves, waits, calls>>
    /\ UNCHANGED <<again, post, server, past, failures>>

\* onBeforeUnmount: the saves go on, the page is not there any more
Unmount ==
    /\ here /\ sid # 0
    /\ here' = FALSE /\ ready' = FALSE /\ again' = 0
    /\ StopWith(Next1)

DebounceFires ==
    /\ armed
    /\ Flush(buffer, progress, content, stack)
    /\ UNCHANGED <<shown, calls, Elsewhere>>

-----------------------------------------------------------------------------
(* The saves: makeRequestWithRetry around makeSessionUpdateRequest.        *)

\* Fault: a save does not wait for the previous one.
MyTurnAlways(i) == TRUE

\* the save before is over
MyTurn(i) == \A j \in 1..(i - 1) : saves[j].state = "done"

SaveIs(i, s) == saves' = [saves EXCEPT ![i] = s]

Quiet == <<page, shown, unsent, waits, calls, again, post, past>>

\* the request names the session the page is in when it is sent
SendSave(i) ==
    /\ \/ saves[i].state = "waiting" /\ MyTurn(i)
       \/ saves[i].state = "delayed"
    /\ SaveIs(i, [saves[i] EXCEPT !.state = "sent", !.session = sid, !.tries = @ + 1])
    /\ UNCHANGED <<Quiet, server, failures>>

\* a rejected save rejects those that wait for it
Rejected(i) ==
    [j \in DOMAIN saves |->
        IF j = i \/ (j > i /\ saves[j].state = "waiting")
        THEN [saves[j] EXCEPT !.state = "failed"] ELSE saves[j]]

\* 503: nothing was recorded; the last try rejects after its delay
SaveBusy(i) ==
    /\ saves[i].state = "sent"
    /\ saves' = IF saves[i].tries < MaxRetries
                THEN [saves EXCEPT ![i].state = "delayed"] ELSE Rejected(i)
    /\ UNCHANGED <<Quiet, server, failures>>

\* Fault: a save is sent again whatever the failure.
SaveLostRetried(i) ==
    /\ saves[i].state \in {"sent", "applied"} /\ failures < MaxFailures
    /\ failures' = failures + 1
    /\ saves' = [saves EXCEPT ![i].state = "delayed"]
    /\ UNCHANGED <<Quiet, server>>

\* the answer is lost, or is another error: the save is not sent again
SaveLost(i) ==
    /\ saves[i].state \in {"sent", "applied"} /\ failures < MaxFailures
    /\ failures' = failures + 1
    /\ saves' = Rejected(i)
    /\ UNCHANGED <<Quiet, server>>

\* "Invalid attemptlog id specified": the interaction that begins a run with one
\* item names an attempt of another mastery log
Foreign(s) ==
    \E k \in DOMAIN s.inter :
        /\ k > 1 => s.inter[k - 1].item # s.inter[k].item
        /\ s.inter[k].id # None
        /\ logs[s.inter[k].id].mastery # masteries[s.session]

\* "Cannot update a finished coach assigned quiz"
QuizIsOver == kind = "exam" /\ summary = Full

\* the whole update is rolled back
SaveRefused(i) ==
    /\ saves[i].state = "sent"
    /\ QuizIsOver \/ Foreign(saves[i])
    /\ saves' = Rejected(i)
    /\ UNCHANGED <<Quiet, server, failures>>

\* _update_or_create_attempts: one attempt log for each run of interactions
\* with the same item, found by its id or, in a quiz, by its item
Attempt(acc, x, m) ==
    LET same == {k \in DOMAIN acc.logs : acc.logs[k] = [mastery |-> m, item |-> x.item]}
    IN CASE acc.item = x.item -> acc
         [] acc.item # x.item /\ x.id # None ->
              [acc EXCEPT !.item = x.item, !.out = Append(@, x)]
         [] acc.item # x.item /\ x.id = None /\ Quiz /\ same # {} ->
              [acc EXCEPT !.item = x.item,
                          !.out = Append(@, [item |-> x.item,
                                             id |-> CHOOSE k \in same : TRUE])]
         [] OTHER ->
              [item |-> x.item,
               logs |-> Append(acc.logs, [mastery |-> m, item |-> x.item]),
               out |-> Append(acc.out, [item |-> x.item, id |-> Len(acc.logs) + 1])]

Attempted(s) ==
    FoldLeft(LAMBDA acc, x : Attempt(acc, x, masteries[s.session]),
             [item |-> None, logs |-> logs, out |-> <<>>], s.inter)

\* ProgressTrackingViewSet.update, in one transaction
ServeSave(i) ==
    LET s == saves[i] IN
    /\ s.state = "sent" /\ ~QuizIsOver /\ ~Foreign(s)
    /\ \E e \in Excess :
         /\ e = 0 \/ s.delta > 0
         /\ summary' = RoundUp(summary + s.delta, e) /\ rounded' = rounded + e
    /\ stored' = IF s.content = NotSent THEN stored ELSE s.content
    /\ logs' = Attempted(s).logs
    /\ recorded' = [n \in Calls |-> recorded[n] + IF n \in s.parts THEN 1 ELSE 0]
    /\ SaveIs(i, [s EXCEPT !.state = "applied", !.complete = (summary' = Full),
                          !.out = Attempted(s).out])
    /\ UNCHANGED <<page, shown, unsent, waits, calls, again, post>>
    /\ UNCHANGED <<sessions, masteries, dropped, started, failures>>

\* updateAttempt has no attempt of the page to give the id to, and raises
NoAttempt(out) ==
    \E k \in DOMAIN out :
        /\ \A j \in Items : attempts[j] # out[k].id
        /\ attempts[out[k].item] # Local

\* the handler of the answer
SaveAnswered(i) ==
    LET out == saves[i].out IN
    /\ saves[i].state = "applied"
    /\ IF NoAttempt(out)
       THEN saves' = Rejected(i) /\ UNCHANGED <<attempts, progress>>
       ELSE /\ SaveIs(i, [saves[i] EXCEPT !.state = "done"])
            /\ attempts' = [j \in Items |->
                    IF \E k \in DOMAIN out : out[k].item = j /\ attempts[j] = Local
                    THEN out[CHOOSE k \in DOMAIN out : out[k].item = j].id
                    ELSE attempts[j]]
            /\ progress' = IF saves[i].complete THEN Full ELSE progress
    /\ UNCHANGED <<page, content, unsent, waits, calls, again, post, server>>
    /\ UNCHANGED <<past, failures>>

-----------------------------------------------------------------------------
(* Starting a session: the first one, and the next try of what is done.    *)

Settled(n) ==
    /\ n \in 1..calls /\ waits[n] # Unsettled
    /\ \A i \in {waits[n]} \ {0} : Finished(saves[i])

\* repeat of ContentPage: stopTracking().then(initSession(true))
Repeat ==
    /\ MayCall /\ ready /\ again = 0 /\ kind # "exam"
    /\ progress = Full /\ sessions < NumSessions
    /\ again' = Next1
    /\ StopWith(Next1)
    /\ UNCHANGED <<here, ready>>

StartSession ==
    /\ here /\ again # 0 /\ Settled(again)
    /\ post.state = "none"
    /\ again' = 0 /\ ready' = FALSE
    /\ post' = [post EXCEPT !.state = "sent"]
    /\ UNCHANGED <<kind, here, sid, tracking, shown, unsent, saves, waits, calls>>
    /\ UNCHANGED <<server, past, failures>>

\* pastattempts: the attempts of the mastery log m
PastAttempts(m) ==
    [i \in Items |-> LET mine == {k \in DOMAIN logs : logs[k] = [mastery |-> m, item |-> i]}
                     IN IF mine = {} THEN None ELSE CHOOSE k \in mine : \A j \in mine : j <= k]

\* _get_or_create_masterylog: a mastery log that is not complete is taken up again
Mastery ==
    CASE sessions = 0 -> 1
      [] sessions # 0 /\ summary = Full -> masteries[sessions] + 1
      [] sessions # 0 /\ summary # Full -> masteries[sessions]

\* ProgressTrackingViewSet.create: the second session of a page is a repeat,
\* which puts the progress of the summary log back to 0
ServeSession ==
    /\ post.state = "sent" /\ sessions < NumSessions
    /\ sessions' = sessions + 1 /\ masteries' = Append(masteries, Mastery)
    /\ summary' = IF sessions = 0 THEN summary ELSE 0
    /\ post' = [state |-> "served", session |-> sessions + 1,
                progress |-> summary', content |-> stored, attempts |-> PastAttempts(Mastery)]
    /\ UNCHANGED <<page, shown, unsent, saves, waits, calls, again>>
    /\ UNCHANGED <<stored, logs, recorded, past, failures>>

\* the answer resets what the page knows, and what it has not saved
SessionStarted ==
    /\ post.state = "served"
    /\ post' = [post EXCEPT !.state = "none"]
    /\ sid' = post.session
    /\ progress' = post.progress /\ content' = post.content
    /\ attempts' = post.attempts
    /\ buffer' = [buffer EXCEPT !.delta = 0, !.parts = {}, !.inter = <<>>]
    /\ dropped' = dropped \cup buffer.parts /\ started' = calls
    /\ ready' = here
    /\ UNCHANGED <<kind, here, tracking, armed, stack, saves, waits, calls, again>>
    /\ UNCHANGED <<server, rounded, failures>>

SessionLost ==
    /\ post.state \in {"sent", "served"} /\ failures < MaxFailures
    /\ failures' = failures + 1
    /\ post' = [post EXCEPT !.state = "none"]
    /\ UNCHANGED <<page, shown, unsent, saves, waits, calls, again, server, past>>

-----------------------------------------------------------------------------
Save(i) ==
    SendSave(i) \/ SaveBusy(i) \/ SaveLost(i) \/ SaveRefused(i) \/ SaveAnswered(i)

Next ==
    \/ Tick \/ \E to \in 1..Full : ReachProgress(to)
    \/ AddProgress \/ SaveContentState \/ \E item \in Items : Answer(item)
    \/ Stop \/ StartTracking \/ Unmount \/ DebounceFires
    \/ \E i \in DOMAIN saves : Save(i) \/ ServeSave(i)
    \/ Repeat \/ StartSession \/ ServeSession \/ SessionStarted \/ SessionLost

Spec == Init /\ [][Next]_vars

\* The timer fires, requests are sent and end; the learner may do nothing more.
FairSpec ==
    /\ Spec
    /\ WF_vars(DebounceFires)
    /\ \A i \in Calls : WF_vars(i \in DOMAIN saves /\ (Save(i) \/ ServeSave(i)))
    /\ WF_vars(StartSession)
    /\ WF_vars(ServeSession \/ SessionStarted \/ SessionLost)

-----------------------------------------------------------------------------
(* Properties.                                                             *)

\* Every variable has the type the code gives it.
TypeOK ==
    /\ kind \in Kinds /\ here \in BOOLEAN /\ ready \in BOOLEAN
    /\ sid \in 0..NumSessions /\ tracking \in BOOLEAN
    /\ progress \in 0..Full /\ content \in 0..NumCalls
    /\ \A i \in Items : attempts[i] \in {Local, None} \cup DOMAIN logs
    /\ buffer.delta \in 0..Full /\ buffer.parts \subseteq Calls
    /\ armed \in BOOLEAN /\ stack \subseteq Calls
    /\ \A i \in DOMAIN saves :
         /\ saves[i].state \in {"waiting", "sent", "applied", "delayed", "done", "failed"}
         /\ saves[i].tries \in 0..MaxRetries /\ saves[i].session \in 0..NumSessions
    /\ waits \in [Calls -> {Unsettled} \cup (0..NumCalls)] /\ calls \in 0..NumCalls /\ again \in 0..NumCalls
    /\ sessions \in 0..NumSessions /\ summary \in 0..Full /\ stored \in 0..NumCalls
    /\ masteries \in Seq(1..sessions) /\ Len(masteries) = sessions
    /\ dropped \subseteq Calls /\ started \in 0..NumCalls
    /\ rounded \in 0..MaxRounded /\ failures \in 0..MaxFailures

\* The server records a call once, in spite of the retries: a save is only sent
\* again when the server said it did nothing (makeRequestWithRetry).
RecordedOnce == \A n \in Calls : recorded[n] <= 1

\* A content state that came since the page's session started is never
\* overwritten by an older one, however the saves are debounced, delayed and
\* retried (savingPromise).  One that came before may be: the answer that starts
\* a session puts back the state of the server, but leaves the dirty bit set.
StatesInOrder == [][stored > started => stored' >= stored]_stored

\* When the promise of a forced or completing call is resolved, all the learner
\* did up to that call is on the server, but for what a new session threw away:
\* on it ContentPage starts the next try, and an exam is left.
AllSavedUpTo(n) ==
    \A m \in 1..n : m \notin dropped => m \notin buffer.parts
        /\ \A i \in DOMAIN saves : m \in saves[i].parts => saves[i].state = "done"

StopMeansSaved == [][(StartSession /\ ~Poisoned) => AllSavedUpTo(again)]_vars

\* When every save is done and nothing waits, the server has the progress that
\* the page shows, but for what the two of them rounded up: no delta is lost or
\* counted twice between the debounces, the thresholds, the caps and the retries.
Near(a, b, r) == a - b <= r /\ b - a <= r

ServerKnowsProgress ==
    (/\ sid = 1 /\ sessions = 1
     /\ buffer.delta = 0 /\ \A i \in DOMAIN saves : saves[i].state = "done")
        => Near(summary, progress, rounded)

\* Every promise that updateContentSession returned is settled at last.
PromisesSettle == \A n \in Calls : (calls >= n) ~> Settled(n)

\* If no save fails, what the learner did on a page that was left is recorded.
LeftIsSaved ==
    ~here ~> \/ Poisoned
             \/ /\ buffer.parts = {}
                /\ \A i \in DOMAIN saves : \A n \in saves[i].parts : recorded[n] = 1

-----------------------------------------------------------------------------
(* Claims of the source that the code does not keep.                       *)

\* An attempt that the page began for a question is one attempt on the server.
OneAttempt ==
    \A j, k \in DOMAIN logs : logs[j] = logs[k] => j = k

\* repeat: "reset previous progress on this content to zero and start fresh".
\* What was done in the old session does not count for the new one.
FreshTry ==
    [][\A i \in DOMAIN saves : ServeSave(i) /\ saves[i].delta > 0
            => saves[i].session = sessions]_vars
=============================================================================
