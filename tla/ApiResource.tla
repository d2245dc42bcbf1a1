----------------------------- MODULE ApiResource ------------------------------
(***************************************************************************)
(* The API layer of the client (api-resource.js): a Resource caches Model  *)
(* and Collection objects by key; each object keeps its own list of        *)
(* promises, and every fetch, save and delete waits for the promises that  *)
(* were in that list when it was called.                                   *)
(*                                                                         *)
(* A row of the server is a value, Unborn or Gone.  A Model has one        *)
(* attribute besides its id, and exists on the server when it is asked for *)
(* (its saves are PATCHes); a Collection is filtered, and its filter       *)
(* selects every row.  The key of a Model is an id and a view (getParams   *)
(* and endpointName), so a row has a Model for every view it is asked for  *)
(* in.  An object is a key and a number: removing an object from the cache *)
(* makes the next call on that key work on a new object, while calls made  *)
(* before go on with the old one.                                          *)
(***************************************************************************)
EXTENDS Naturals

CONSTANTS
    Ids,         \* the ids of rows
    Views,       \* what the Models of an id differ in
    Plain,       \* the view of the Models that a Collection holds
    Lists,       \* the keys of collections
    NumCalls,    \* how many calls a page makes
    MaxClears,   \* how often it clears the cache or has an object fetched anew
    Values,      \* the values of the attribute
    Stored,      \* those that rows have when the page opens
    Unborn, Gone \* rows that do not exist yet, or no longer

ASSUME KeysDiffer == (Ids \X Views) \cap Lists = {}
ASSUME BoundsAreNat == NumCalls \in Nat /\ MaxClears \in Nat
ASSUME SomeKeys == Ids # {} /\ Plain \in Views /\ Values # {} /\ Stored \subseteq Values
ASSUME RowsDiffer == Unborn # Gone /\ {Unborn, Gone} \cap Values = {}

VARIABLES
    row,         \* the rows of the server
    current,     \* [Keys -> Nat]: the object the cache holds for a key
    attributes,  \* what a Model object holds
    synced,      \* the objects whose synced (_synced of a Collection) is true
    members,     \* the Model objects of a Collection object
    state,       \* [Calls -> States]
    owner,       \* the object a call was made on
    op,          \* what it asks for
    value,       \* what it saves
    waits,       \* the promises it waits for
    promises,    \* the calls that are still in the promises of their object
    answer,      \* the rows an answer tells of
    clears,      \* how often the cache was cleared or an object un-cached
    since        \* history: the states of the rows since a fetch was called

serverVars == <<row, answer>>
cacheVars == <<current, attributes, synced, members, clears>>
callVars == <<state, since, owner, op, value, waits, promises>>
vars == <<serverVars, cacheVars, callVars>>

Calls == 1..NumCalls      \* in the order in which they are made
Models == Ids \X Views
Keys == Models \cup Lists
Numbers == 0..(NumCalls + MaxClears)
Objects == Keys \X Numbers
ModelObjects == Models \X Numbers
Rows == Values \cup {Unborn, Gone}
Settled == {"resolved", "rejected"}
InFlight == {"sent", "answered"}
Pending == {"waiting"} \cup InFlight
States == {"free", "waiting", "stuck"} \cup Settled \cup InFlight

Ops == {"fetch", "refetch", "save", "delete"}
Fetches == {"fetch", "refetch"}
Payload(o) == IF o = "save" THEN Values ELSE {CHOOSE v \in Values : TRUE}

Alive(m) == row[m] \notin {Unborn, Gone}
IsModel(o) == o[1] \in Models
IdOf(o) == o[1][1]
Cached(k) == <<k, current[k]>>

\* The synced getter: a Collection also needs all its Models synced.
Synced(o) == o \in synced /\ members[o] \subseteq synced

PromisesOf(o) == {c \in promises : owner[c] = o}

\* Every variable has the type the code gives it.
TypeOK ==
    /\ row \in [Ids -> Rows]
    /\ current \in [Keys -> Numbers]
    /\ attributes \in [ModelObjects -> Rows]
    /\ synced \subseteq Objects
    /\ members \in [Objects -> SUBSET ModelObjects]
    /\ state \in [Calls -> States]
    /\ owner \in [Calls -> Objects]
    /\ op \in [Calls -> Ops]
    /\ value \in [Calls -> Values]
    /\ waits \in [Calls -> SUBSET Calls]
    /\ promises \subseteq Calls
    /\ answer \in [Calls -> [Ids -> Rows]]
    /\ clears \in 0..MaxClears
    /\ since \in [Calls -> SUBSET [Ids -> Rows]]

\* Nothing is cached; some rows exist.  What a call asks is fixed when it is
\* made: before that its fields hold any value.
Init ==
    /\ row \in [Ids -> Stored \cup {Unborn}]
    /\ current = [k \in Keys |-> 0]
    /\ attributes = [o \in ModelObjects |-> Unborn]
    /\ synced = {}
    /\ members = [o \in Objects |-> {}]
    /\ state = [c \in Calls |-> "free"]
    /\ owner = [c \in Calls |-> CHOOSE o \in Objects : TRUE]
    /\ op = [c \in Calls |-> "fetch"]
    /\ value = [c \in Calls |-> CHOOSE v \in Values : TRUE]
    /\ waits = [c \in Calls |-> {}]
    /\ promises = {}
    /\ answer = [c \in Calls |-> [m \in Ids |-> Unborn]]
    /\ clears = 0
    /\ since = [c \in Calls |-> {}]

-----------------------------------------------------------------------------
(* Making a call. *)

\* Fault: only the last promise is waited for.
CallWaitsForLast(c, k, o, v) ==
    /\ state[c] = "free" /\ \A d \in 1..(c - 1) : state[d] # "free"
    /\ k \in Models => row[k[1]] # Unborn
    /\ state' = [state EXCEPT ![c] = "waiting"]
    /\ owner' = [owner EXCEPT ![c] = Cached(k)]
    /\ op' = [op EXCEPT ![c] = o]
    /\ value' = [value EXCEPT ![c] = v]
    /\ waits' = [waits EXCEPT ![c] = {d \in PromisesOf(Cached(k)) :
                                        \A e \in PromisesOf(Cached(k)) : e <= d}]
    /\ promises' = promises \cup {c}
    /\ since' = [since EXCEPT ![c] = IF o \in Fetches THEN {row} ELSE {}]
    /\ UNCHANGED <<serverVars, cacheVars>>

\* fetchModel, saveModel, deleteModel, fetchCollection, saveCollection,
\* deleteCollection: the cached object, its promises as they are now.
Call(c, k, o, v) ==
    /\ state[c] = "free" /\ \A d \in 1..(c - 1) : state[d] # "free"
    /\ k \in Models => row[k[1]] # Unborn
    /\ state' = [state EXCEPT ![c] = "waiting"]
    /\ owner' = [owner EXCEPT ![c] = Cached(k)]
    /\ op' = [op EXCEPT ![c] = o]
    /\ value' = [value EXCEPT ![c] = v]
    /\ waits' = [waits EXCEPT ![c] = PromisesOf(Cached(k))]
    /\ promises' = promises \cup {c}
    /\ since' = [since EXCEPT ![c] = IF o \in Fetches THEN {row} ELSE {}]
    /\ UNCHANGED <<serverVars, cacheVars>>

Ready(c) == state[c] = "waiting" /\ \A d \in waits[c] : state[d] = "resolved"

\* Fault: a forced fetch asks the cache as well.
NothingToDoForced(c) ==
    LET o == owner[c] IN
    \/ op[c] \in {"fetch", "refetch"} /\ Synced(o)
    \/ op[c] = "save" /\ IsModel(o) /\ o \in synced /\ attributes[o] = value[c]

\* What is asked for is known to be so already: a fetch of a synced object, a
\* save of a synced Model with nothing dirty.
NothingToDo(c) ==
    LET o == owner[c] IN
    \/ op[c] = "fetch" /\ Synced(o)
    \/ op[c] = "save" /\ IsModel(o) /\ o \in synced /\ attributes[o] = value[c]

Settle(c, s) ==
    /\ state' = [state EXCEPT ![c] = s]
    /\ since' = [since EXCEPT ![c] = {}]

\* Resolved without a request; the promise stays in the list.
ResolveFromCache(c) ==
    /\ Ready(c)
    /\ NothingToDo(c)
    /\ Settle(c, "resolved")
    /\ UNCHANGED <<serverVars, cacheVars, owner, op, value, waits, promises>>

\* A fetch or a save marks the object as not synced, a delete does not.
Send(c) ==
    /\ Ready(c)
    /\ ~NothingToDo(c)
    /\ state' = [state EXCEPT ![c] = "sent"]
    /\ synced' = IF op[c] = "delete" THEN synced ELSE synced \ {owner[c]}
    /\ UNCHANGED <<serverVars, current, attributes, members, clears,
                   since, owner, op, value, waits, promises>>

\* Fault: nobody handles that Promise.all rejects.
CascadeUnhandled(c) == FALSE

\* Promise.all rejects: so does the call, and its promise stays in the list.
Cascade(c) ==
    /\ state[c] = "waiting"
    /\ \E d \in waits[c] : state[d] = "rejected"
    /\ Settle(c, "rejected")
    /\ UNCHANGED <<serverVars, cacheVars, owner, op, value, waits, promises>>

-----------------------------------------------------------------------------
(* The server, as far as the client relies on it. *)

ServeModel(c, m) ==
    /\ Alive(m)
    /\ row' = CASE op[c] = "save" -> [row EXCEPT ![m] = value[c]]
                [] op[c] = "delete" -> [row EXCEPT ![m] = Gone]
                [] OTHER -> row
    /\ answer' = [answer EXCEPT ![c] = row']

\* The answer to a bulk save tells of the rows it made only.
ServeList(c) ==
    \/ /\ op[c] \in {"fetch", "refetch"}
       /\ answer' = [answer EXCEPT ![c] = row]
       /\ UNCHANGED row
    \/ /\ op[c] = "save"
       /\ \E made \in SUBSET {m \in Ids : row[m] = Unborn} :
            /\ made # {}
            /\ row' = [m \in Ids |-> IF m \in made THEN value[c] ELSE row[m]]
            /\ answer' = [answer EXCEPT ![c] =
                    [m \in Ids |-> IF m \in made THEN value[c] ELSE Unborn]]
    \/ /\ op[c] = "delete"
       /\ row' = [m \in Ids |-> IF Alive(m) THEN Gone ELSE row[m]]
       /\ UNCHANGED answer

ServerActs(c) ==
    /\ state[c] = "sent"
    /\ state' = [state EXCEPT ![c] = "answered"]
    /\ IF IsModel(owner[c]) THEN ServeModel(c, IdOf(owner[c])) ELSE ServeList(c)
    /\ since' = [d \in Calls |-> IF state[d] \in Pending /\ op[d] \in Fetches
                                  THEN since[d] \cup {row'} ELSE since[d]]
    /\ UNCHANGED <<cacheVars, owner, op, value, waits, promises>>

-----------------------------------------------------------------------------
(* The answer arrives. *)

\* The handler of a fetch or a save of a Model.
SetModel(c) ==
    LET o == owner[c] IN
    /\ attributes' = [attributes EXCEPT ![o] = answer[c][IdOf(o)]]
    /\ synced' = synced \cup {o}
    /\ UNCHANGED <<current, members>>

\* The handler of a fetch or a save of a Collection: every row of the answer is
\* set on the Model that the cache holds for it by now, and all of them count as
\* synced, whatever they were told since the answer was given.
SetCollection(c) ==
    LET told == {m \in Ids : answer[c][m] \notin {Unborn, Gone}}
        objs == {Cached(<<m, Plain>>) : m \in told}
    IN
    /\ attributes' = [o \in ModelObjects |->
                        IF o \in objs THEN answer[c][IdOf(o)] ELSE attributes[o]]
    /\ members' = [members EXCEPT ![owner[c]] = objs]
    /\ synced' = synced \cup objs \cup {owner[c]}
    /\ UNCHANGED current

\* An object is made by the first call on its key, or by the answer of a list.
Made(o) == \E c \in Calls : state[c] # "free" /\ o \in {owner[c]} \cup members[owner[c]]

\* The keys lose the objects that were made for them.  (A call removes a key once,
\* so the last number is never passed.)
Drop(keys) ==
    current' = [k \in Keys |->
                    IF k \in keys /\ Made(Cached(k)) /\ current[k] < NumCalls + MaxClears
                    THEN current[k] + 1 ELSE current[k]]

\* The handler of a delete takes its key out of the cache, and those of its
\* members, whatever object they hold by now.
Forget(c) ==
    LET o == owner[c] IN
    /\ Drop(IF IsModel(o) THEN {o[1]} ELSE {o[1]} \cup {x[1] : x \in members[o]})
    /\ synced' = IF IsModel(o) THEN synced \ {o} ELSE synced
    /\ UNCHANGED <<attributes, members>>

\* The promise resolves and leaves the list.
Arrives(c) ==
    /\ state[c] = "answered"
    /\ \/ op[c] = "delete" /\ Forget(c)
       \/ op[c] # "delete" /\ IsModel(owner[c]) /\ SetModel(c)
       \/ op[c] # "delete" /\ ~IsModel(owner[c]) /\ SetCollection(c)
    /\ Settle(c, "resolved")
    /\ promises' = promises \ {c}
    /\ UNCHANGED <<serverVars, clears, owner, op, value, waits>>

\* logError reads the params of the failed request: a bulk save has none, so
\* the handler raises before it rejects.
LogErrorRaises(c) == op[c] = "save" /\ ~IsModel(owner[c])

\* A request that is cancelled, as the page is disconnected, has no config:
\* logError returns before.
Cancelled(c) == state[c] = "sent"

\* The server refuses, the request is lost or cancelled, or the answer is lost.
Fails(c) ==
    /\ state[c] \in InFlight
    /\ \/ /\ LogErrorRaises(c)
          /\ Settle(c, "stuck")
          /\ UNCHANGED promises
       \/ /\ LogErrorRaises(c) => Cancelled(c)
          /\ Settle(c, "rejected")
          /\ promises' = promises \ {c}
    /\ UNCHANGED <<serverVars, cacheVars, owner, op, value, waits>>

-----------------------------------------------------------------------------
(* Clearing the cache, at any time. *)

\* The calls that were made before go on with the objects they were made on.
ClearCache ==
    /\ clears < MaxClears
    /\ \E k \in Keys : Made(Cached(k))
    /\ Drop(Keys)
    /\ clears' = clears + 1
    /\ UNCHANGED <<serverVars, callVars, attributes, synced, members>>

\* unCacheModel, unCacheCollection: the next fetch is to ask the server.
UnCache(k) ==
    /\ clears < MaxClears
    /\ Cached(k) \in synced
    /\ synced' = synced \ {Cached(k)}
    /\ clears' = clears + 1
    /\ UNCHANGED <<serverVars, callVars, current, attributes, members>>

-----------------------------------------------------------------------------
Client(c) == ResolveFromCache(c) \/ Send(c) \/ Cascade(c) \/ Arrives(c) \/ Fails(c)

Next ==
    \/ \E c \in Calls, k \in Keys : \E o \in Ops : \E v \in Payload(o) : Call(c, k, o, v)
    \/ \E c \in Calls : Client(c) \/ ServerActs(c)
    \/ ClearCache
    \/ \E k \in Keys : UnCache(k)

\* A promise that can go on does, and a request ends, one way or the other.
Fairness == \A c \in Calls : WF_vars(Client(c))

Spec == Init /\ [][Next]_vars
FairSpec == Spec /\ Fairness

-----------------------------------------------------------------------------
(* Correctness. *)

\* Two requests about one object are never under way together, whatever the
\* page calls and however the calls before ended.
OneRequestAtATime ==
    \A c, d \in Calls :
        state[c] \in InFlight /\ state[d] \in InFlight /\ owner[c] = owner[d] => c = d

\* What an object gives is what r says of its rows.
Shows(o, r) ==
    IF IsModel(o) THEN attributes[o] = r[IdOf(o)]
    ELSE \A m \in Ids :
            IF r[m] \in {Unborn, Gone}
            THEN ~\E x \in members[o] : IdOf(x) = m
            ELSE /\ \E x \in members[o] : IdOf(x) = m
                 /\ \A x \in members[o] : IdOf(x) = m => attributes[x] = r[m]

\* A fetch that is forced, or that asked the server, gives the rows as they were at
\* one moment since it was called: never what an object held before, whatever was
\* saved, listed, deleted or cleared while it waited for its turn.
FetchesAreFresh ==
    [][\A c \in Calls :
        /\ op[c] = "refetch" \/ (op[c] = "fetch" /\ state[c] = "answered")
        /\ state[c] # "resolved" /\ state'[c] = "resolved"
        => \E r \in since[c] : Shows(owner[c], r)']_vars

\* Every call settles, unless a bulk save that failed is ahead of it.
CallsSettle ==
    \A c \in Calls :
        state[c] = "waiting" ~>
            \/ state[c] \in Settled \cup {"stuck"}
            \/ \E d \in waits[c] : state[d] = "stuck"

\* The promises are a line before each object.
PhaseIn(s) ==
    CASE s = "free" -> "none"
      [] s = "waiting" -> "queued"
      [] s \in InFlight -> "serving"
      [] s \in Settled \cup {"stuck"} -> "over"

Phase == [c \in Calls |-> PhaseIn(state[c])]

Line == INSTANCE RequestLine
            WITH Things <- Objects, phase <- Phase, thing <- owner, ahead <- waits

\* The calls on an object are served one at a time, in the order in which they
\* were made.
ServedInLine == Line!Spec

-----------------------------------------------------------------------------
(* What the code says of itself and does not do. *)

\* Every promise resolves or rejects.
EveryCallSettles ==
    \A c \in Calls : state[c] = "waiting" ~> state[c] \in Settled

\* "Model is synced with the server, so we can do dirty checking" (in save): one
\* that counts as synced has what the server has, or its row is gone.
SyncedMeansSynced ==
    \A m \in Models : Cached(m) \in synced =>
        row[m[1]] \in {attributes[Cached(m)], Gone}
=============================================================================
