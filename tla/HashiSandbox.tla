----------------------------- MODULE HashiSandbox -----------------------------
(***************************************************************************)
(* How an HTML5 app that runs in a sandboxed frame keeps its data and asks *)
(* for content (packages/hashi, with the two components that use it:       *)
(* html5_viewer/.../Html5AppRendererIndex.vue and                          *)
(* learn/.../ChannelRenderer/CustomContentRenderer.vue).                   *)
(*                                                                         *)
(* A client is one MainClient with its iframe.  The environment in the     *)
(* iframe and the client each hold the data of every store; they tell each *)
(* other with window.postMessage.  What the frames send, and what a client *)
(* sends to itself (sendLocalMessage), arrives at the one window of the    *)
(* page, and every client that was ever made there handles it: nothing     *)
(* removes a listener, and a message does not name its client.             *)
(*                                                                         *)
(* Of the five stores, Shimmed is the localStorage, with the shim that the *)
(* app sees; another one is any whose data the app only changes through    *)
(* methods (SCORM, xAPI).  Cookies and the user's data are left out.       *)
(***************************************************************************)
EXTENDS Integers, Sequences, FiniteSets, SequencesExt

CONSTANTS
    Clients,        \* numbers, in the order they are made
    HostChoices,    \* what may use each client: "html5" or "custom"
    Stores,         \* the names of the stores, in the order of `storage`
    Keys,
    Internal,       \* the keys that are methods of the shim (internalKeys)
    Values,         \* the values of an item
    Empty,          \* the value '', which is falsy
    Absent,         \* no item
    Partial,        \* an object with nothing in it, which is no value
    Ops,            \* what the apps do with the localStorage
    Requests,       \* the requests of the apps
    Overlays,       \* whether a client may be opened while another one is
    MaxActs,        \* bound: changes and requests of the apps
    MaxLoads        \* bound: documents loaded in the iframes

ASSUME StoresDiffer == Stores # <<>> /\ Stores \in Seq(ToSet(Stores)) /\ IsInjective(Stores)

ASSUME ClientsNumbered == Clients \subseteq Int

ASSUME HostsKnown == HostChoices \subseteq [Clients -> {"html5", "custom"}]

ASSUME ItemsDiffer ==
    /\ Absent \notin Values \cup {Empty, Partial} /\ Partial \notin Values \cup {Empty}
    /\ Internal \subseteq Keys

ASSUME BoundsAreNumbers == MaxActs \in Nat /\ MaxLoads \in Nat

VARIABLES
    open,       \* of each client: "no", "mounting", "open" or "left"
    host,       \* of each client
    order,      \* the clients that listen, in the order they were made
    main,       \* of each client, the data of its stores
    frame,      \* of each client: "none", "env" (listening), "page" (the page
                \* of the app loads), "app"
    data,       \* of each frame, the data of its stores
    shim,       \* of each frame, the properties of the shim
    toFrame, toMain,    \* messages under way
    local,      \* messages from the window to itself
    saved,      \* of each client, the last content state its host was given
    promise,    \* of each request, the client that asked, and what came of it
    fetches,    \* the requests that custom hosts are fetching content for
    acts, loads,
    written,    \* history: the data an app left, by the changes that it made
                \* and that were not refused
    meant,      \* history: what a localStorage would hold
    doubled     \* history: the client heard of the environment twice

mains == <<open, host, order, main>>
frames == <<frame, data, shim>>
wires == <<toFrame, toMain, local>>
asked == <<promise, fetches>>
history == <<written, meant, doubled>>
vars == <<mains, frames, wires, saved, asked, acts, loads, history>>

Items == [Keys -> Values \cup {Absent, Partial}]
NoItems == [k \in Keys |-> Absent]
Names == ToSet(Stores)
Shimmed == Stores[1]
NoData == [s \in Names |-> NoItems]
NotAsked == [of |-> Absent, kind |-> "none", state |-> "none"]

-----------------------------------------------------------------------------
(* The messages.                                                           *)

State(s, d) == [event |-> "stateUpdate", store |-> s, data |-> d]
AllStates(d) == [event |-> "stateUpdate", data |-> d]
IframeReady == [event |-> "iframeReady"]
MainReady == [event |-> "mainReady"]
ReadyCheck == [event |-> "readyCheck"]
DataRequested(r) == [event |-> "dataRequested", req |-> r]
CollectionRequested(r) == [event |-> "collectionRequested", req |-> r]
NavigateTo(r) == [event |-> "navigateTo", req |-> r]
DataReturned(r, status) == [event |-> "dataReturned", req |-> r, status |-> status]

\* setData of every store that has data
SetData(d, ss) == [n \in DOMAIN ss |-> State(ss[n], d[ss[n]])]

\* the stores that have data, in their order
WithData(d) ==
    {ss \in UNION {[1..n -> Names] : n \in 0..Len(Stores)} :
        /\ ToSet(ss) = {s \in Names : d[s] # NoItems}
        /\ \A m, n \in DOMAIN ss :
             m < n => \E i, j \in DOMAIN Stores : i < j /\ ss[m] = Stores[i] /\ ss[n] = Stores[j]}

ToFrame(c, msgs) == toFrame' = [toFrame EXCEPT ![c] = @ \o msgs]
ToMain(c, msgs) == toMain' = [toMain EXCEPT ![c] = @ \o msgs]

Listening == ToSet(order)
Live(c) == open[c] = "open"

\* the frame of c was told to run its app, or is about to be
Started(c) ==
    \/ frame[c] \in {"page", "app"}
    \/ \E n \in DOMAIN toFrame[c] : toFrame[c][n] = MainReady

-----------------------------------------------------------------------------
(* The host mounts: the frame begins to load, and the client is made.      *)

Init ==
    /\ open = [c \in Clients |-> "no"] /\ host \in HostChoices /\ order = <<>>
    /\ main = [c \in Clients |-> NoData]
    /\ frame = [c \in Clients |-> "none"]
    /\ data = [c \in Clients |-> NoData] /\ shim = [c \in Clients |-> NoItems]
    /\ toFrame = [c \in Clients |-> <<>>] /\ toMain = [c \in Clients |-> <<>>] /\ local = <<>>
    /\ saved \in [Clients -> {[s \in Names |-> IF s = Shimmed THEN d ELSE NoItems] :
                               d \in [Keys -> Values \cup {Absent}]}]
    /\ \A c \in Clients : host[c] = "custom" => saved[c] = NoData
    /\ promise = [r \in Requests |-> NotAsked] /\ fetches = {}
    /\ acts = 0 /\ loads = 0
    /\ written = saved
    /\ meant = [c \in Clients |-> NoItems]
    /\ doubled = [c \in Clients |-> FALSE]

\* a page is left for another one only when its last messages have arrived
\* (the next page has data to fetch first)
Settled == local = <<>> /\ \A d \in Clients : toMain[d] = <<>>

Mount(c) ==
    /\ open[c] = "no" /\ loads < MaxLoads
    /\ \A d \in Clients : d < c => open[d] # "no"
    /\ Overlays \/ (Settled /\ \A d \in Clients : open[d] \in {"no", "left"})
    /\ open' = [open EXCEPT ![c] = "mounting"]
    /\ UNCHANGED <<host, order, main, frames, wires, saved, asked, acts, loads, history>>

\* new Hashi, then initialize with the content state that is saved: the stores
\* that have none are not sent
Initialize(c) ==
    /\ open[c] = "mounting"
    /\ open' = [open EXCEPT ![c] = "open"]
    /\ order' = Append(order, c)
    /\ main' = [main EXCEPT ![c] = saved[c]]
    /\ \E ss \in WithData(saved[c]) : ToFrame(c, SetData(saved[c], ss) \o <<ReadyCheck>>)
    /\ UNCHANGED <<host, frames, toMain, local, saved, asked, acts, loads, history>>

\* the host is destroyed, and its iframe with it; the client goes on listening
Leave(c) ==
    /\ Live(c)
    /\ open' = [open EXCEPT ![c] = "left"]
    /\ frame' = [frame EXCEPT ![c] = "none"]
    /\ shim' = [shim EXCEPT ![c] = NoItems]
    /\ toFrame' = [toFrame EXCEPT ![c] = <<>>]
    /\ promise' = [r \in Requests |-> IF promise[r].of = c
                                      THEN [promise[r] EXCEPT !.state = "gone"] ELSE promise[r]]
    /\ UNCHANGED <<host, order, main, data, toMain, local, saved, fetches>>
    /\ UNCHANGED <<acts, loads, history>>

-----------------------------------------------------------------------------
(* The environment in the frame (SandboxEnvironment).                      *)

\* what the document of a frame hears of what was sent before it was there: all
\* that a client sends in one go is lost, or none
Heard(msgs) ==
    {SubSeq(msgs, n, Len(msgs)) :
        n \in {m \in 1..(Len(msgs) + 1) : m > 1 => msgs[m - 1].event # "stateUpdate"}}

Announced(msgs) == \E n \in DOMAIN msgs : msgs[n] = IframeReady

\* the constructor
FrameLoads(c) ==
    /\ open[c] \in {"mounting", "open"} /\ frame[c] = "none" /\ loads < MaxLoads
    /\ loads' = loads + 1
    /\ frame' = [frame EXCEPT ![c] = "env"]
    /\ data' = [data EXCEPT ![c] = NoData]
    /\ \E msgs \in Heard(toFrame[c]) :
         /\ toFrame' = [toFrame EXCEPT ![c] = msgs]
         /\ doubled' = [doubled EXCEPT ![c] = @ \/ Announced(toMain[c])
                          \/ \E n \in DOMAIN msgs : msgs[n] = MainReady]
    /\ ToMain(c, <<IframeReady>>)
    /\ UNCHANGED <<mains, shim, local, saved, asked, acts, written, meant>>

\* the document of the frame is loaded again
FrameReloads(c) ==
    /\ Live(c) /\ frame[c] # "none" /\ loads < MaxLoads
    /\ frame' = [frame EXCEPT ![c] = "none"]
    /\ shim' = [shim EXCEPT ![c] = NoItems]
    /\ promise' = [r \in Requests |-> IF promise[r].of = c
                                      THEN [promise[r] EXCEPT !.state = "gone"] ELSE promise[r]]
    /\ UNCHANGED <<mains, data, wires, saved, fetches, acts, loads, history>>

\* setDataToShim: an item whose value is falsy is removed from the shim
ToShim(d) == [k \in Keys |-> IF k \in Internal \/ d[k] = Empty THEN Absent ELSE d[k]]

\* __setData of the store, by a message of the client
ReceiveState(c, m) ==
    /\ data' = [data EXCEPT ![c][m.store] = m.data]
    /\ shim' = IF m.store = Shimmed /\ frame[c] = "app"
               THEN [shim EXCEPT ![c] = ToShim(m.data)] ELSE shim
    /\ UNCHANGED <<frame, toMain, promise, doubled>>

\* createIframe: an app that runs is removed
ReceiveMainReady(c) ==
    /\ frame' = [frame EXCEPT ![c] = "page"]
    /\ shim' = [shim EXCEPT ![c] = NoItems]
    /\ UNCHANGED <<data, toMain, promise, doubled>>

\* Fault: the environment does not answer, since it announced itself already.
ReceiveReadyCheckSilent(c) == UNCHANGED <<frames, toMain, promise, doubled>>

\* the first announcement may have been missed
ReceiveReadyCheck(c) ==
    /\ ToMain(c, <<IframeReady>>)
    /\ doubled' = [doubled EXCEPT ![c] = @ \/ Started(c) \/ Announced(toMain[c])]
    /\ UNCHANGED <<frames, promise>>

\* the handler of sendMessageAwaitReply for this message_id
ReceiveReply(c, m) ==
    /\ promise' = IF promise[m.req].state = "pending" /\ promise[m.req].of = c
                  THEN [promise EXCEPT ![m.req].state = m.status] ELSE promise
    /\ UNCHANGED <<frames, toMain, doubled>>

FrameReceives(c) ==
    /\ frame[c] # "none" /\ toFrame[c] # <<>>
    /\ toFrame' = [toFrame EXCEPT ![c] = Tail(@)]
    /\ LET m == Head(toFrame[c]) IN
         \/ m.event = "stateUpdate" /\ ReceiveState(c, m)
         \/ m.event = "mainReady" /\ ReceiveMainReady(c)
         \/ m.event = "readyCheck" /\ ReceiveReadyCheck(c)
         \/ m.event = "dataReturned" /\ ReceiveReply(c, m)
         \/ m.event = "navigateTo" /\ UNCHANGED <<frames, toMain, promise, doubled>>
    /\ UNCHANGED <<mains, local, saved, fetches, acts, loads, written, meant>>

-----------------------------------------------------------------------------
(* The app.                                                                *)

\* initializeIframe, which the page of the app calls as it loads: a new shim
StartApp(c) ==
    /\ frame[c] = "page"
    /\ frame' = [frame EXCEPT ![c] = "app"]
    /\ shim' = [shim EXCEPT ![c] = ToShim(data[c][Shimmed])]
    /\ meant' = [meant EXCEPT ![c] = data[c][Shimmed]]
    /\ UNCHANGED <<mains, data, wires, saved, asked, acts, loads, written, doubled>>

\* the app goes to another page of its own
NavigateApp(c) ==
    /\ frame[c] = "app" /\ "navigate" \in Ops
    /\ shim' = [shim EXCEPT ![c] = ToShim(data[c][Shimmed])]
    /\ UNCHANGED <<mains, frame, data, wires, saved, asked, acts, loads, history>>

\* what an operation leaves in data and in the shim, what it stands for, and
\* whether it calls stateUpdated
Change(c, s, d, p, w, tells) ==
    /\ frame[c] = "app"
    /\ data' = [data EXCEPT ![c][s] = d]
    /\ shim' = [shim EXCEPT ![c] = p]
    /\ meant' = [meant EXCEPT ![c] = w]
    /\ written' = [written EXCEPT ![c][s] = d]
    /\ IF tells THEN ToMain(c, <<State(s, d)>>) ELSE UNCHANGED toMain
    /\ UNCHANGED <<mains, frame, toFrame, local, saved, asked, loads, doubled>>

Acts(c) == acts < MaxActs /\ acts' = acts + 1

Put(p, k, v) == IF k \in Internal THEN p ELSE [p EXCEPT ![k] = v]

SetItem(c, k, v) ==
    /\ "setItem" \in Ops /\ Acts(c)
    /\ Change(c, Shimmed, [data[c][Shimmed] EXCEPT ![k] = v], Put(shim[c], k, v),
              [meant[c] EXCEPT ![k] = v], TRUE)

\* Fault: the removal is not told, as a property that is deleted is not.
RemoveItemSilent(c, k) ==
    /\ "removeItem" \in Ops /\ Acts(c)
    /\ Change(c, Shimmed, [data[c][Shimmed] EXCEPT ![k] = Absent], Put(shim[c], k, Absent),
              [meant[c] EXCEPT ![k] = Absent], FALSE)

RemoveItem(c, k) ==
    /\ "removeItem" \in Ops /\ Acts(c)
    /\ Change(c, Shimmed, [data[c][Shimmed] EXCEPT ![k] = Absent], Put(shim[c], k, Absent),
              [meant[c] EXCEPT ![k] = Absent], TRUE)

Clear(c) ==
    /\ "clear" \in Ops /\ Acts(c)
    /\ Change(c, Shimmed, NoItems, shim[c], NoItems, TRUE)

\* localStorage.k = v, and delete localStorage.k
SetProperty(c, k, v) ==
    /\ "setProperty" \in Ops /\ Acts(c) /\ k \notin Internal
    /\ Change(c, Shimmed, data[c][Shimmed], Put(shim[c], k, v),
              [meant[c] EXCEPT ![k] = v], FALSE)

\* setDataFromShim, as length, key and getItem call it: the data become what
\* the shim has, and then the shim what the data have
FromShim(c) == [k \in Keys |-> IF k \in Internal THEN data[c][Shimmed][k] ELSE shim[c][k]]

Look(c) ==
    /\ frame[c] = "app" /\ "look" \in Ops
    /\ LET d == FromShim(c) IN
         IF d = data[c][Shimmed]
         THEN UNCHANGED <<data, shim, meant, written, toMain>>
              /\ UNCHANGED <<mains, frame, toFrame, local, saved, asked, loads, doubled>>
         ELSE Change(c, Shimmed, d, ToShim(d), meant[c], TRUE)
    /\ UNCHANGED acts

\* LMSSetValue, and the like
SetValue(c, s, k, v) ==
    /\ s # Shimmed /\ Acts(c)
    /\ Change(c, s, [data[c][s] EXCEPT ![k] = v], shim[c], meant[c], TRUE)

\* LMSSetValue of what is refused: the objects on the way to the value are made
\* before that is found out, and nobody is told
RefuseValue(c, s, k) ==
    /\ frame[c] = "app" /\ s # Shimmed /\ data[c][s][k] = Absent /\ Acts(c)
    /\ data' = [data EXCEPT ![c][s][k] = Partial]
    /\ UNCHANGED <<mains, frame, shim, wires, saved, asked, loads, history>>

\* the API that window.kolibri offers, by what comes of the request: "query"
\* fetches, "version" is answered at once, "unfit" asks for content only and for
\* topics only, or has no options, "navigate" is an event of its own
Kinds == {"query", "unfit", "version", "navigate"}

Ask(c, r, kind) ==
    /\ frame[c] = "app" /\ promise[r].state = "none" /\ Acts(c)
    /\ promise' = [promise EXCEPT ![r] = [of |-> c, kind |-> kind, state |-> "pending"]]
    /\ ToMain(c, <<IF kind = "navigate" THEN NavigateTo(r) ELSE DataRequested(r)>>)
    /\ UNCHANGED <<mains, frames, toFrame, local, saved, fetches, loads, history>>

-----------------------------------------------------------------------------
(* The window of the page: each client that listens handles a message.     *)

ToLive(msgs(_)) ==
    toFrame' = [c \in Clients |-> IF c \in Listening /\ Live(c)
                                  THEN toFrame[c] \o msgs(c) ELSE toFrame[c]]

\* the custom hosts, the ones of pages that were left too; what those send to
\* their frame goes nowhere
Customs == {c \in Listening : host[c] = "custom"}

\* Fault: the app is started before it is given its data.
AnswerReadyLate(c) == <<MainReady>> \o SetData(main[c], Stores)

\* the handler of IFRAMEREADY
AnswerReady(c) == SetData(main[c], Stores) \o <<MainReady>>

\* the stores of every client take the data, and each tells the window
HearState(m) ==
    /\ main' = [c \in Clients |-> IF c \in Listening
                                  THEN [main[c] EXCEPT ![m.store] = m.data] ELSE main[c]]
    /\ local' = local \o [n \in DOMAIN order |-> AllStates(main'[order[n]])]
    /\ UNCHANGED <<toFrame, fetches>>

HearReady ==
    /\ ToLive(AnswerReady)
    /\ UNCHANGED <<main, local, fetches>>

\* every client passes it on
HearRequest(m) ==
    /\ local' = local \o [n \in DOMAIN order |-> CollectionRequested(m.req)]
    /\ UNCHANGED <<main, toFrame, fetches>>

\* navigateTo of the custom hosts; the clients send the event back to the frames
HearNavigate(m) ==
    /\ ToLive(LAMBDA c : <<NavigateTo(m.req)>>)
    /\ fetches' = fetches \cup (Customs \X {m.req})
    /\ UNCHANGED <<main, local>>

MainReceives(c) ==
    /\ toMain[c] # <<>>
    /\ toMain' = [toMain EXCEPT ![c] = Tail(@)]
    /\ LET m == Head(toMain[c]) IN
         \/ m.event = "stateUpdate" /\ HearState(m)
         \/ m.event = "iframeReady" /\ HearReady
         \/ m.event = "dataRequested" /\ HearRequest(m)
         \/ m.event = "navigateTo" /\ HearNavigate(m)
    /\ UNCHANGED <<open, host, order, frames, saved, promise, acts, loads, history>>

\* Fault: the host is only given the data of a store it had none of.
HearLocalStateOnce(m) ==
    /\ saved' = [c \in Clients |-> IF Live(c) /\ host[c] = "html5" /\ saved[c] = NoData
                                   THEN m.data ELSE saved[c]]
    /\ UNCHANGED <<toFrame, fetches>>

\* onStateUpdate of the html5 hosts (one that was destroyed emits to nobody)
HearLocalState(m) ==
    /\ saved' = [c \in Clients |-> IF Live(c) /\ host[c] = "html5" THEN m.data ELSE saved[c]]
    /\ UNCHANGED <<toFrame, fetches>>

\* fetchContentCollection and the like, of the custom hosts
HearLocalRequest(m) ==
    LET kind == promise[m.req].kind IN
    /\ fetches' = IF kind = "query" THEN fetches \cup (Customs \X {m.req}) ELSE fetches
    /\ IF kind = "version"
       THEN ToLive(LAMBDA c : IF c \in Customs THEN <<DataReturned(m.req, "resolved")>> ELSE <<>>)
       ELSE UNCHANGED toFrame
    /\ UNCHANGED saved

\* Fault: what a host answers to the window is not passed on to the frame.
HearLocalReplyDropped(m) == UNCHANGED <<toFrame, saved, fetches>>

\* the clients pass it on
HearLocalReply(m) ==
    /\ ToLive(LAMBDA c : <<m>>)
    /\ UNCHANGED <<saved, fetches>>

LocalReceives ==
    /\ local # <<>>
    /\ local' = Tail(local)
    /\ LET m == Head(local) IN
         \/ m.event = "stateUpdate" /\ HearLocalState(m)
         \/ m.event = "collectionRequested" /\ HearLocalRequest(m)
         \/ m.event = "dataReturned" /\ HearLocalReply(m)
    /\ UNCHANGED <<mains, frames, toMain, promise, acts, loads, history>>

\* the content is there, or could not be fetched: what was navigated to is
\* answered to the window, the rest to the frame
FetchEnds(c, r) ==
    /\ <<c, r>> \in fetches
    /\ fetches' = fetches \ {<<c, r>>}
    /\ \E status \in {"resolved", "rejected"} :
         IF promise[r].kind = "navigate"
         THEN local' = Append(local, DataReturned(r, status)) /\ UNCHANGED toFrame
         ELSE /\ toFrame' = IF Live(c) THEN [toFrame EXCEPT ![c] = Append(@, DataReturned(r, status))]
                            ELSE toFrame
              /\ UNCHANGED local
    /\ UNCHANGED <<mains, frames, toMain, saved, promise, acts, loads, history>>

-----------------------------------------------------------------------------
Operate(c) ==
    \/ \E k \in Keys, v \in Values : SetItem(c, k, v)
    \/ \E k \in Keys : RemoveItem(c, k)
    \/ Clear(c)
    \/ \E k \in Keys, v \in Values \cup {Absent} : SetProperty(c, k, v)
    \/ Look(c)
    \/ \E s \in Names, k \in Keys, v \in Values : SetValue(c, s, k, v)
    \/ \E s \in Names, k \in Keys : RefuseValue(c, s, k)
    \/ NavigateApp(c)
    \/ \E r \in Requests, kind \in Kinds : Ask(c, r, kind)

Next ==
    \/ \E c \in Clients :
         \/ Mount(c) \/ Initialize(c) \/ Leave(c)
         \/ FrameLoads(c) \/ FrameReloads(c) \/ StartApp(c)
         \/ Operate(c)
         \/ FrameReceives(c) \/ MainReceives(c)
         \/ \E r \in Requests : FetchEnds(c, r)
    \/ LocalReceives

Spec == Init /\ [][Next]_vars

\* Documents load, messages arrive and fetches end.
FairSpec ==
    /\ Spec
    /\ WF_vars(LocalReceives)
    /\ \A c \in Clients :
         /\ WF_vars(Initialize(c)) /\ WF_vars(FrameLoads(c)) /\ WF_vars(StartApp(c))
         /\ WF_vars(FrameReceives(c)) /\ WF_vars(MainReceives(c))
         /\ \A r \in Requests : WF_vars(FetchEnds(c, r))

-----------------------------------------------------------------------------
(* Properties.                                                             *)

\* what may be under way to a frame, to the window, and from the window to itself
States == {State(s, d) : s \in Names, d \in Items}
Returns == {DataReturned(r, status) : r \in Requests, status \in {"resolved", "rejected"}}
FrameMessages ==
    States \cup Returns \cup {MainReady, ReadyCheck} \cup {NavigateTo(r) : r \in Requests}
WindowMessages ==
    States \cup {IframeReady} \cup {DataRequested(r) : r \in Requests}
           \cup {NavigateTo(r) : r \in Requests}
LocalMessages ==
    {AllStates(d) : d \in [Names -> Items]} \cup {CollectionRequested(r) : r \in Requests}
                                            \cup Returns

\* Every variable has the type the code gives it.
TypeOK ==
    /\ open \in [Clients -> {"no", "mounting", "open", "left"}]
    /\ host \in HostChoices /\ order \in Seq(Clients) /\ IsInjective(order)
    /\ main \in [Clients -> [Names -> Items]] /\ data \in [Clients -> [Names -> Items]]
    /\ saved \in [Clients -> [Names -> Items]] /\ written \in [Clients -> [Names -> Items]]
    /\ shim \in [Clients -> Items] /\ meant \in [Clients -> Items]
    /\ \A c \in Clients : \A k \in Internal : shim[c][k] = Absent
    /\ frame \in [Clients -> {"none", "env", "page", "app"}]
    /\ toFrame \in [Clients -> Seq(FrameMessages)] /\ toMain \in [Clients -> Seq(WindowMessages)]
    /\ local \in Seq(LocalMessages)
    /\ promise \in [Requests -> [of : Clients \cup {Absent}, kind : Kinds \cup {"none"},
                               state : {"none", "pending", "resolved", "rejected", "gone"}]]
    /\ doubled \in [Clients -> BOOLEAN]
    /\ fetches \subseteq Clients \X Requests
    /\ acts \in 0..MaxActs /\ loads \in 0..MaxLoads

\* d is what the last of the messages brings of a store; without one, it is before
Says(m, s) == m.event = "stateUpdate" /\ m.store = s

Settles(msgs, s, before, d) ==
    \/ d = before /\ \A n \in DOMAIN msgs : ~Says(msgs[n], s)
    \/ \E n \in DOMAIN msgs :
         /\ Says(msgs[n], s) /\ msgs[n].data = d
         /\ \A m \in DOMAIN msgs : m > n => ~Says(msgs[m], s)

\* the same for what the clients tell the window of all stores
Tells(m) == m.event = "stateUpdate"

SettlesAll(msgs, before, d) ==
    \/ d = before /\ \A n \in DOMAIN msgs : ~Tells(msgs[n])
    \/ \E n \in DOMAIN msgs :
         /\ Tells(msgs[n]) /\ msgs[n].data = d
         /\ \A m \in DOMAIN msgs : m > n => ~Tells(msgs[m])

\* the data d of a store, but for the empty objects of sets that were refused, are w
ButForRefused(s, d, w) ==
    \/ d = w
    \/ s # Shimmed /\ \A k \in Keys : d[k] # w[k] => d[k] = Partial /\ w[k] = Absent

\* What the client has, or will have when the messages have arrived, is what the
\* app has, but for what refused sets left in the frame: no other operation changes
\* the data of a store without telling, and nothing of an earlier page or of the
\* start comes after (stateUpdated, updateData, setByKeyPath).  And
\* what the host saves, or will then save, is what its client has, whichever other
\* clients still listen and tell the window what they have (onStateUpdate).
InStep ==
    \A c \in Clients : Live(c) =>
        /\ frame[c] = "app" /\ ~doubled[c]
             => \A s \in Names : \E w \in Items :
                  Settles(toMain[c], s, main[c][s], w) /\ ButForRefused(s, data[c][s], w)
        /\ host[c] = "html5" => SettlesAll(local, saved[c], main[c])

\* An app starts with all the data it left, in the session before or in the document
\* that was loaded before; what a refused set left is gone (the handler of IFRAMEREADY).
StartsFromNewest ==
    [][\A c \in Clients : frame[c] = "page" /\ frame'[c] = "app" /\ ~doubled[c]
            => data[c] = written[c]]_vars

\* Whichever of the frame and the client is there first, the app is run in the
\* end (READYCHECK, IFRAMEREADY, MAINREADY).
AppRuns ==
    \A c \in Clients : open[c] \in {"mounting", "open"} ~> frame[c] = "app" \/ open[c] = "left"

\* When an app stays and stops changing, the data its host has been given last are
\* those of the app, but for what refused sets left, whichever clients listen.
SavedAtLast ==
    \A c \in Clients :
        <>[](Live(c) /\ host[c] = "html5" /\ frame[c] = "app" /\ ~doubled[c])
            => <>[](\A s \in Names : ButForRefused(s, data[c][s], saved[c][s]))

\* In a custom channel every request but the unfit ones is answered, whichever of
\* the two ways the answer takes (sendMessage, sendLocalMessage).
RequestsSettle ==
    \A r \in Requests :
        (promise[r].state = "pending" /\ promise[r].kind # "unfit" /\ host[promise[r].of] = "custom")
            ~> promise[r].state # "pending"

-----------------------------------------------------------------------------
(* Claims of the source that the code does not keep.                       *)

\* what getItem finds
GetItem(c) == [k \in Keys |-> IF FromShim(c)[k] = Empty THEN Absent ELSE FromShim(c)[k]]

\* "an API-compatible replacement for localStorage" (baseStorage.js): what the
\* app reads is what it has written, removed or cleared.
ReadsAreRight ==
    \A c \in Clients : frame[c] = "app" /\ ~doubled[c] => GetItem(c) = meant[c]

\* READYCHECK is sent for a frame that missed it, and IFRAMEREADY for a client
\* that missed it: an app is not started a second time.
StartsOnce ==
    [][\A c \in Clients : frame[c] = "app" => frame'[c] # "page"]_vars

\* sendMessageAwaitReply "waits for the data to either be returned or for an
\* error" (packages/hashi/README.md).
AllSettle ==
    \A r \in Requests : (promise[r].state = "pending") ~> (promise[r].state # "pending")
=============================================================================
