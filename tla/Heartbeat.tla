------------------------------- MODULE Heartbeat -------------------------------
(***************************************************************************)
(* The heartbeat of a page (core/assets/src/heartbeat.js): one poll of the *)
(* session endpoint at a time, a timer between polls, the backoff while    *)
(* the server does not answer, the activity of the user told with a poll,  *)
(* and the sign out that a poll finds.  Around it: the interceptors of the *)
(* client every other request goes through (core-app/client.js), the       *)
(* reload that handleApiError asks for, and the restart of the device,     *)
(* which stops the heartbeat and starts it again.                          *)
(*                                                                         *)
(* A timer is a count, not a date: `timer` is the one whose id the         *)
(* heartbeat holds, `stray` counts the timers that are armed and whose id  *)
(* was overwritten.  The delay of a timer is left out; the reconnect time  *)
(* it is computed from is not.                                             *)
(***************************************************************************)
EXTENDS Integers

CONSTANTS
    Users,              \* the users who may hold the session of this browser
    Nobody,             \* the session of a visitor who is not signed in
    Unknown,            \* no session has reached the page yet
    MinReconnect,       \* MIN_RECONNECT_TIME
    TimeoutReconnect,   \* TIMEOUT_RECONNECT_TIME
    MaxReconnect,       \* MAX_RECONNECT_TIME
    MaxOutages,         \* bound: times the server goes away
    MaxFailures,        \* bound: requests that fail while the server is there
    MaxSessions         \* bound: sign-ins and sign-outs in other tabs

ASSUME ReconnectTimes ==
    /\ MinReconnect \in Nat /\ TimeoutReconnect \in Nat /\ MaxReconnect \in Nat
    /\ 0 < MinReconnect
    /\ MinReconnect <= TimeoutReconnect
    /\ TimeoutReconnect <= MaxReconnect

ASSUME SessionsDiffer == Nobody \notin Users /\ Unknown \notin Users \cup {Nobody}

ASSUME Bounds == MaxOutages \in Nat /\ MaxFailures \in Nat /\ MaxSessions \in Nat

VARIABLES
    page,       \* "open", or how the page was left
    enabled,    \* HeartBeat._enabled
    active,     \* HeartBeat._active
    listening,  \* the activity listeners are on the document
    polling,    \* HeartBeat._activePromise is set
    told,       \* the poll in flight says the user was active
    timer,      \* 1 when the timer of _timerId is armed
    stray,      \* armed timers whose id is lost
    connected,  \* connection.connected of the store
    reconnect,  \* connection.reconnectTime of the store, 0 for null
    reload,     \* connection.reloadOnReconnect of the store
    mine,       \* the user of core.session, Unknown before the first answer
    restart,    \* the restart of the device as this page sees it
    up,         \* the server answers
    session,    \* the user of this browser's session on the server
    outages, failures, sessions,
    acted,      \* history: the user acted since the last poll was over
    broken      \* history: a load failed since the connection was lost

beat == <<enabled, active, listening, polling, told, timer, stray>>
link == <<connected, reconnect, reload, broken>>
server == <<up, session, outages, sessions>>
vars == <<page, beat, link, mine, restart, server, failures, acted>>

Sessions == Users \cup {Nobody}
Phases == {"no", "asked", "waitDown", "waitUp", "done", "failed"}
Lower(a, b) == IF a < b THEN a ELSE b

-----------------------------------------------------------------------------
(* The methods of the heartbeat.                                           *)

\* startPolling: enabled for the first time, the page polls at once
Init ==
    /\ page = "open"
    /\ enabled = TRUE /\ active = FALSE /\ listening = TRUE
    /\ polling = TRUE /\ told = FALSE /\ timer = 0 /\ stray = 0
    /\ connected = TRUE /\ reconnect = 0 /\ reload = FALSE /\ broken = FALSE
    /\ mine = Unknown /\ restart = "no"
    /\ up = TRUE /\ session \in Sessions
    /\ outages = 0 /\ failures = 0 /\ sessions = 0
    /\ acted = FALSE

\* _wait, n times, when t timers of _timerId and s others are armed
Wait(n, t, s) ==
    /\ timer' = Lower(1, t + n)
    /\ stray' = s + (t + n) - Lower(1, t + n)

\* pollSessionEndPoint, when the timer of _timerId is t
Poll(t) ==
    IF enabled /\ ~polling
    THEN /\ polling' = TRUE
         /\ told' = (connected /\ active)
         /\ listening' = (listening \/ active)
         /\ timer' = 0
         /\ acted' = FALSE
         /\ UNCHANGED <<enabled, active>>
    ELSE /\ timer' = t
         /\ UNCHANGED <<enabled, active, listening, polling, told, acted>>

\* final: the poll is over, and the next one is n timers away (the ones the
\* answer armed before)
Final(n) ==
    /\ polling' = FALSE /\ told' = FALSE
    /\ active' = (active /\ ~enabled)
    /\ Wait(IF enabled THEN n + 1 ELSE n, timer, stray)
    /\ UNCHANGED <<enabled, listening, acted>>

\* monitorDisconnect with the status of the failure; a status of 0 is a request
\* that could not be completed
Disconnected(code) ==
    IF connected
    THEN /\ connected' = FALSE
         /\ reconnect' = IF code = 0 THEN MinReconnect ELSE TimeoutReconnect
    ELSE UNCHANGED <<connected, reconnect>>

Codes == {0, 504}

\* Fault: the backoff starts again from the status of each failure.
BackedOffAnew == MinReconnect

\* a failed poll of a page that knows it is disconnected backs off
BackedOff == Lower(2 * reconnect, MaxReconnect)

\* a failure that is the server's or, at most MaxFailures times, the network's
MayFail ==
    \/ ~up /\ UNCHANGED failures
    \/ up /\ failures < MaxFailures /\ failures' = failures + 1

-----------------------------------------------------------------------------
(* What ends a poll.                                                       *)

\* _setConnected, the part before the reload of the page
Reconnected ==
    /\ connected' = TRUE /\ reconnect' = 0 /\ broken' = FALSE
    /\ UNCHANGED reload

\* the page is left with the answer of a poll
Leave(how) ==
    /\ page' = how
    /\ UNCHANGED <<beat, mine, acted>>

\* Fault: only a session without a user is compared.
StaleOnlyNobody == mine # Unknown /\ session # mine /\ session = Nobody

\* the session that the answer brings is not the one of the page
Stale == mine # Unknown /\ session # mine

PollAnswered ==
    /\ page = "open" /\ polling /\ up
    /\ Reconnected
    /\ CASE ~connected /\ reload -> Leave("reloaded")
         [] ~(~connected /\ reload) /\ Stale ->
              Leave(IF session = Nobody THEN "signedOut" ELSE "redirected")
         [] OTHER -> /\ mine' = session
                     /\ Final(IF connected THEN 0 ELSE 1)
                     /\ UNCHANGED page
    /\ UNCHANGED <<restart, server, failures>>

\* an error that is not one of the disconnection codes: the server is there
PollErrors ==
    /\ page = "open" /\ polling /\ up
    /\ failures < MaxFailures /\ failures' = failures + 1
    /\ Reconnected
    /\ IF ~connected /\ reload
       THEN Leave("reloaded")
       ELSE /\ Final(IF connected THEN 0 ELSE 1)
            /\ UNCHANGED <<page, mine>>
    /\ UNCHANGED <<restart, server>>

\* Fault: the promise of the poll is deleted, the timer of a lost one is not
\* armed.
PollLostSilent ==
    /\ page = "open" /\ polling
    /\ MayFail
    /\ IF connected
       THEN \E code \in Codes : Disconnected(code)
       ELSE reconnect' = BackedOff /\ UNCHANGED connected
    /\ polling' = FALSE /\ told' = FALSE /\ active' = (active /\ ~enabled)
    /\ Wait(IF connected THEN 1 ELSE 0, timer, stray)
    /\ UNCHANGED <<enabled, listening, acted>>
    /\ UNCHANGED <<page, reload, broken, mine, restart, server>>

PollLost ==
    /\ page = "open" /\ polling
    /\ MayFail
    /\ IF connected
       THEN \E code \in Codes : Disconnected(code)
       ELSE reconnect' = BackedOff /\ UNCHANGED connected
    /\ Final(IF connected THEN 1 ELSE 0)
    /\ UNCHANGED <<page, reload, broken, mine, restart, server>>

-----------------------------------------------------------------------------
(* What starts one.                                                        *)

TimerFires ==
    /\ page = "open" /\ timer = 1
    /\ Poll(0)
    /\ UNCHANGED <<page, stray, link, mine, restart, server, failures>>

StrayFires ==
    /\ page = "open" /\ stray > 0
    /\ stray' = stray - 1
    /\ Poll(timer)
    /\ UNCHANGED <<page, link, mine, restart, server, failures>>

\* the user presses "try now" of the snackbar that says there is no connection
TryNow ==
    /\ page = "open" /\ ~connected /\ ~polling
    /\ Poll(timer)
    /\ UNCHANGED <<page, stray, link, mine, restart, server, failures>>

\* an event of the document, which setUserActive is told of if the heartbeat
\* listens, or of a content renderer, which calls it in any case
UserActs(rendered) ==
    /\ page = "open"
    /\ active' = (active \/ listening \/ rendered)
    /\ listening' = (listening /\ active)
    /\ acted' = (acted \/ ~polling)
    /\ UNCHANGED <<page, enabled, polling, told, timer, stray, link, mine>>
    /\ UNCHANGED <<restart, server, failures>>

-----------------------------------------------------------------------------
(* The requests of the rest of the page.                                   *)

\* a request is answered by 403: the page polls, or leaves if it has no session
ClientForbidden ==
    /\ page = "open" /\ up
    /\ failures < MaxFailures /\ failures' = failures + 1
    /\ IF mine = Unknown
       THEN Leave("signedOut")
       ELSE Poll(timer) /\ UNCHANGED <<page, mine, stray>>
    /\ UNCHANGED <<link, restart, server>>

\* a request is lost, or cancelled because there is no connection, and the
\* caller gives the error to handleApiError: `loading` is its reloadOnReconnect
ClientLost(code, loading) ==
    /\ page = "open"
    /\ failures < MaxFailures /\ failures' = failures + 1
    /\ Disconnected(code)
    /\ Wait(IF connected THEN 1 ELSE 0, timer, stray)
    /\ reload' = loading
    /\ broken' = (broken \/ loading)
    /\ UNCHANGED <<page, enabled, active, listening, polling, told, mine>>
    /\ UNCHANGED <<restart, server, acted>>

-----------------------------------------------------------------------------
(* The restart of the device (useDeviceRestart).                           *)

\* restart: the heartbeat stops and the request is sent, or cancelled
Restart ==
    /\ page = "open" /\ restart = "no" /\ mine \in Users
    /\ enabled' = FALSE /\ listening' = FALSE /\ timer' = 0
    /\ restart' = IF connected THEN "asked" ELSE "failed"
    /\ UNCHANGED <<page, active, polling, told, stray, link, mine>>
    /\ UNCHANGED <<server, failures, acted>>

\* the server says it runs, and begins to restart
RestartAnswered ==
    /\ page = "open" /\ restart = "asked" /\ up
    /\ restart' = "waitDown"
    /\ UNCHANGED <<page, beat, link, mine, server, failures, acted>>

\* the server refuses, or the request is lost; the promise of restart rejects
RestartLost ==
    /\ page = "open" /\ restart = "asked"
    /\ MayFail
    /\ restart' = "failed"
    /\ \/ UNCHANGED <<connected, reconnect, timer, stray>>
       \/ /\ \E code \in Codes : Disconnected(code)
          /\ Wait(IF connected THEN 1 ELSE 0, timer, stray)
    /\ UNCHANGED <<page, enabled, active, listening, polling, told, reload>>
    /\ UNCHANGED <<broken, mine, server, acted>>

\* checkStatus(true): asks every half second until the server is not there, which
\* a restart between two questions never is, or until it says that it does not run,
\* or a question of the page is lost, which may be before it goes
SeesDown ==
    /\ page = "open" /\ restart = "waitDown" /\ MayFail
    /\ restart' = "waitUp"
    /\ UNCHANGED <<page, beat, link, mine, server, acted>>

\* Fault: the page waits for the server, and leaves the heartbeat stopped.
SeesUpStopped ==
    /\ page = "open" /\ restart = "waitUp" /\ up
    /\ restart' = "done"
    /\ UNCHANGED <<page, beat, link, mine, server, failures, acted>>

\* checkStatus(false), then startPolling
SeesUp ==
    /\ page = "open" /\ restart = "waitUp" /\ up
    /\ restart' = "done"
    /\ enabled' = TRUE /\ listening' = TRUE
    /\ IF polling
       THEN UNCHANGED <<polling, told, timer, acted>>
       ELSE /\ polling' = TRUE /\ told' = (connected /\ active)
            /\ timer' = 0 /\ acted' = FALSE
    /\ UNCHANGED <<page, active, stray, link, mine, server, failures>>

-----------------------------------------------------------------------------
(* The server.                                                             *)

GoesDown ==
    /\ up /\ outages < MaxOutages
    /\ up' = FALSE /\ outages' = outages + 1
    /\ UNCHANGED <<page, beat, link, mine, restart, session, sessions>>
    /\ UNCHANGED <<failures, acted>>

ComesUp ==
    /\ ~up
    /\ up' = TRUE
    /\ UNCHANGED <<page, beat, link, mine, restart, session, sessions>>
    /\ UNCHANGED <<outages, failures, acted>>

\* the session expires, or another tab of the browser signs in or out
SessionChanges ==
    /\ up /\ sessions < MaxSessions
    /\ session' \in Sessions \ {session}
    /\ sessions' = sessions + 1
    /\ UNCHANGED <<page, beat, link, mine, restart, up, outages, failures, acted>>

-----------------------------------------------------------------------------
PollEnds == PollAnswered \/ PollErrors \/ PollLost

Next ==
    \/ PollEnds \/ TimerFires \/ StrayFires \/ TryNow
    \/ \E rendered \in BOOLEAN : UserActs(rendered)
    \/ ClientForbidden
    \/ \E code \in Codes, loading \in BOOLEAN : ClientLost(code, loading)
    \/ Restart \/ RestartAnswered \/ RestartLost \/ SeesDown \/ SeesUp
    \/ GoesDown \/ ComesUp \/ SessionChanges

Spec == Init /\ [][Next]_vars

\* A request ends, a timer of the browser fires, and the page goes on asking
\* whether the server is back.  Nothing makes the server come back.
FairSpec ==
    /\ Spec
    /\ WF_vars(PollEnds) /\ WF_vars(TimerFires) /\ WF_vars(StrayFires)
    /\ WF_vars(RestartAnswered \/ RestartLost) /\ WF_vars(~up /\ SeesDown)
    /\ WF_vars(SeesUp)

-----------------------------------------------------------------------------
(* Properties.                                                             *)

\* Every variable has the type the code gives it.
TypeOK ==
    /\ page \in {"open", "signedOut", "redirected", "reloaded"}
    /\ enabled \in BOOLEAN /\ active \in BOOLEAN /\ listening \in BOOLEAN
    /\ polling \in BOOLEAN /\ told \in BOOLEAN
    /\ timer \in {0, 1} /\ stray \in Nat
    /\ connected \in BOOLEAN /\ reconnect \in Nat /\ reload \in BOOLEAN
    /\ mine \in Sessions \cup {Unknown} /\ restart \in Phases
    /\ up \in BOOLEAN /\ session \in Sessions
    /\ outages \in 0..MaxOutages /\ failures \in 0..MaxFailures
    /\ sessions \in 0..MaxSessions
    /\ acted \in BOOLEAN /\ broken \in BOOLEAN

\* A heartbeat that is enabled never dies: whatever a poll ends in, and whatever
\* happens while it runs, a poll is in flight or the timer the heartbeat holds
\* is armed (pollSessionEndPoint, final, _wait, stopPolling, startPolling).
NeverStops == page = "open" /\ enabled => polling \/ timer = 1

\* A page that is connected has no reconnect time, and one that is not waits
\* between MIN_RECONNECT_TIME and MAX_RECONNECT_TIME (monitorDisconnect,
\* _setConnected and the interceptor of the heartbeat).
BackoffInRange ==
    IF connected THEN reconnect = 0 ELSE reconnect \in MinReconnect..MaxReconnect

\* As long as the server stays lost the page asks less and less often: neither
\* the failures of other requests nor a poll the user forced makes the reconnect
\* time fall (the interceptor of the heartbeat, the guard of monitorDisconnect).
BackoffHolds == [][~connected /\ ~connected' => reconnect' >= reconnect]_vars

\* If the server comes back for good, a page whose heartbeat is enabled finds
\* out, or has been left.
Reconnects == <>[](up /\ enabled) => []<>(connected \/ page # "open")

\* A page whose user is no longer the user of the session does not go on showing
\* that user's data: with a server that answers it is left, unless the session
\* becomes that user's again (the handler of _checkSession).
StaleIsLeft ==
    \A s \in Sessions : <>[](up /\ enabled) =>
        (page = "open" /\ mine = s /\ session # s ~> page # "open" \/ session = s)

\* A restart whose beginning the page has seen ends with the heartbeat running
\* again, once the server is back (useDeviceRestart.restart).
RestartResumes == <>[]up => (restart = "waitUp" ~> enabled \/ page # "open")

-----------------------------------------------------------------------------
(* Claims of the source that the code does not keep.                       *)

\* "If we were disconnected while loading, we need to reload the page to ensure
\* that we are in a consistent state" (_setConnected).
ReloadsIfBroken == [][~connected /\ connected' /\ broken => page' # "open"]_vars

\* A poll will "record whether the user was active in the last interval"
\* (_checkSession).
ActivityIsTold == [][~polling /\ polling' /\ connected /\ acted => told']_vars
=============================================================================
