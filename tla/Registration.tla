----------------------------- MODULE Registration -----------------------------
(***************************************************************************)
(* How ONE user registers for ONE auction.  The user has auction pages and *)
(* dashboard cards open in several tabs; each is a client with its own     *)
(* query cache and its own join and leave mutations.  The HTTP server      *)
(* keeps the registration in PostgreSQL (the participants row), grants     *)
(* access with a bit in Redis and serves the catalogue from a versioned    *)
(* Redis cache.  Every request is several steps at the server, and those   *)
(* of different tabs interleave.                                           *)
(***************************************************************************)
EXTENDS Integers, FiniteSets

CONSTANTS
    Pages,       \* auction pages that are open
    Cards,       \* dashboards with the auction's card that are open
    Deadline,    \* registration closes (five minutes before the start)
    Start,
    End,
    MaxClock,    \* bound: the time
    MaxJoins,    \* bound: how often the user registers
    MaxLeaves,   \* bound: how often the user unregisters
    MaxReads,    \* bound: reads under way, when some nobody waits for are among them
    MaxEvents,   \* bound: how many events happen
    Events       \* what may happen, each kind once

EventKinds == {"bit",      \* SETBIT fails
               "cache",    \* a command on the catalogue's version or entries fails
               "count",    \* the count of the participants rows fails
               "db",       \* another PostgreSQL statement fails
               "restart",  \* Redis loses its data
               "reply",    \* an answer is lost
               "focus"}    \* a window gets the focus

Clients == Pages \cup Cards

ASSUME RegistrationAssumption ==
    /\ Pages \cap Cards = {} /\ IsFiniteSet(Clients)
    /\ Deadline \in Nat /\ Start \in Nat /\ End \in Nat
    /\ Deadline < Start /\ Start < End
    /\ MaxLeaves \in Nat /\ MaxReads \in Nat /\ MaxJoins \in Nat /\ MaxClock \in Nat /\ MaxEvents \in Nat
    /\ Events \subseteq EventKinds

VARIABLES
    row,         \* PostgreSQL: the participants row exists
    bit,         \* Redis: the participant bit
    version,     \* Redis: the catalogue version
    cache,       \* Redis: is_registered in the cached catalogue of each version
    now,
    registered,  \* is_registered in each client's query data
    hasJoined,   \* state of each page
    modal,       \* the modal that is open on each card
    join,        \* each client's join mutation: its step, and whether the effect sent it
    leave,       \* each client's leave mutation
    reads,       \* catalogue reads under way
    \* history and bounds
    joins,       \* joins the user sent
    leaves,      \* leaves the user sent
    granted,     \* a join has reported success
    missed,      \* since the version last changed, a change of the row has not changed it
    events       \* events so far

redisVars  == <<bit, version, cache>>
clientVars == <<registered, hasJoined, modal, join, leave>>
histVars   == <<joins, leaves, granted, missed, events>>
vars == <<row, redisVars, now, clientVars, reads, histVars>>

Versions == 0..(2 * MaxLeaves + 1)
YesNo(b) == IF b THEN "yes" ELSE "no"

IdleJoin == [step |-> "idle", auto |-> FALSE]

\* A read of the catalogue by client c, that c waits for when it is current.
Read(c) == [client |-> c, current |-> TRUE, step |-> "version", version |-> 0, value |-> "none"]

\* Every tab has loaded the catalogue.
Init ==
    /\ row \in BOOLEAN /\ bit = row
    /\ version = 0 /\ cache = [v \in Versions |-> "none"]
    /\ now = 0
    /\ registered = [c \in Clients |-> YesNo(row)]
    /\ hasJoined = [p \in Pages |-> FALSE]
    /\ modal = [c \in Cards |-> "none"]
    /\ join = [c \in Clients |-> IdleJoin] /\ leave = [c \in Clients |-> "idle"]
    /\ reads = {}
    /\ joins = 0 /\ leaves = 0 /\ granted = FALSE /\ missed = FALSE /\ events = {}

NoEvent == UNCHANGED events
Happen(kinds) ==
    /\ kinds \subseteq Events \ events
    /\ Cardinality(events \cup kinds) <= MaxEvents
    /\ events' = events \cup kinds
Event(kind) == Happen({kind})
Unless(ok, kind) == IF ok THEN {} ELSE {kind}

-----------------------------------------------------------------------------
(* What the clients show *)

\* The auction page.
Phase == IF now >= End THEN "completed" ELSE IF now >= Start THEN "live" ELSE "upcoming"
CanRegister(p) == ~hasJoined[p] /\ Phase # "completed" /\ now < Deadline
CanUnregister(p) == hasJoined[p] /\ Phase = "upcoming"

\* The dashboard card.  ('Join Live' needs a deadline after the start.)
ActionText(c) ==
    CASE now > End      -> "Closed"
      [] now >= Start /\ now <= End ->
            IF registered[c] = "yes" THEN "Enter Console"
            ELSE IF now < Deadline THEN "Join Live" ELSE "Registration closed"
      [] OTHER          ->
            IF registered[c] = "yes" THEN "Unregister"
            ELSE IF now < Deadline THEN "Register" ELSE "Registration closed"

-----------------------------------------------------------------------------
(* The clients *)

serverUnchanged == UNCHANGED <<row, redisVars, now>>

\* Send a join; the buttons are disabled while one is pending.
SendJoin(c, auto) ==
    /\ join[c].step = "idle"
    /\ join' = [join EXCEPT ![c] = [step |-> "check", auto |-> auto]]
    /\ IF auto THEN UNCHANGED joins ELSE joins < MaxJoins /\ joins' = joins + 1
    /\ serverUnchanged
    /\ UNCHANGED <<registered, hasJoined, modal, leave, reads, leaves, granted, missed, events>>

\* handleJoinAuction of the page.
JoinAuction(p) == CanRegister(p) /\ SendJoin(p, FALSE)

\* The page's effect, run again with every render and so every second: the
\* query data says registered, the page has not joined, no join is pending.
AutoJoin(p) == registered[p] = "yes" /\ ~hasJoined[p] /\ SendJoin(p, TRUE)

\* handleActionClick of the card.
ActionClick(c) ==
    /\ modal[c] = "none"
    /\ \/ ActionText(c) \in {"Register", "Join Live"} /\ modal' = [modal EXCEPT ![c] = "join"]
       \/ ActionText(c) = "Unregister" /\ modal' = [modal EXCEPT ![c] = "leave"]
    /\ serverUnchanged
    /\ UNCHANGED <<registered, hasJoined, join, leave, reads, histVars>>

\* Cancel and Done; a click beside a modal closes it too, also while a request is
\* pending.
CloseModal(c) ==
    /\ modal[c] # "none"
    /\ modal' = [modal EXCEPT ![c] = "none"]
    /\ serverUnchanged
    /\ UNCHANGED <<registered, hasJoined, join, leave, reads, histVars>>

ConfirmRegistration(c) == modal[c] = "join" /\ SendJoin(c, FALSE)

SendLeave(c) ==
    /\ leave[c] = "idle" /\ leaves < MaxLeaves
    /\ leave' = [leave EXCEPT ![c] = "delete"]
    /\ leaves' = leaves + 1
    /\ serverUnchanged
    /\ UNCHANGED <<registered, hasJoined, modal, join, reads, joins, granted, missed, events>>

Unregister(p) == CanUnregister(p) /\ SendLeave(p)
ConfirmLeave(c) == modal[c] = "leave" /\ SendLeave(c)

\* The reads after client c starts a new one: the answer to the one it waited for
\* will not be looked at, but the server still works on it (within the bound).
Refetched(c) ==
    LET all == {[r EXCEPT !.current = r.current /\ r.client # c] : r \in reads} \cup {Read(c)}
    IN  IF Cardinality(all) <= MaxReads THEN all ELSE {r \in all : r.current}

\* A refetch by itself: the window gets the focus and the data is old.
Refetch(c) ==
    /\ ~\E r \in reads : r.client = c /\ r.current
    /\ Event("focus")
    /\ reads' = Refetched(c)
    /\ serverUnchanged /\ UNCHANGED <<clientVars, joins, leaves, granted, missed>>

\* onSuccess of the join mutation.
PageJoined(p) ==
    /\ hasJoined' = [hasJoined EXCEPT ![p] = TRUE]
    /\ UNCHANGED modal
CardJoined(c) ==
    /\ modal' = [modal EXCEPT ![c] = "success"]
    /\ UNCHANGED hasJoined
JoinSuccess(c) ==
    /\ join[c].step = "ok" /\ NoEvent
    /\ join' = [join EXCEPT ![c] = IdleJoin]
    /\ IF c \in Pages THEN PageJoined(c) ELSE CardJoined(c)
    /\ reads' = Refetched(c)
    /\ granted' = TRUE
    /\ serverUnchanged /\ UNCHANGED <<registered, leave, joins, leaves, missed>>

\* onError of the join mutation: 'You have already joined this auction' is as
\* good as a success for the page and makes the card refetch.
JoinError(c) ==
    /\ \/ join[c].step \in {"error", "already"} /\ NoEvent
       \/ join[c].step = "ok" /\ Event("reply")
    /\ join' = [join EXCEPT ![c] = IdleJoin]
    /\ hasJoined' = IF c \in Pages /\ join[c].step = "already"
                    THEN [hasJoined EXCEPT ![c] = TRUE] ELSE hasJoined
    /\ modal' = IF c \in Cards THEN [modal EXCEPT ![c] = IF @ = "join" THEN "none" ELSE @] ELSE modal
    /\ reads' = IF c \in Cards /\ join[c].step = "already" THEN Refetched(c) ELSE reads
    /\ serverUnchanged /\ UNCHANGED <<registered, leave, joins, leaves, granted, missed>>

\* onSuccess and onError of the leave mutation.
LeaveSettled(c) ==
    /\ \/ leave[c] \in {"ok", "error"} /\ NoEvent
       \/ leave[c] = "ok" /\ Event("reply")
    /\ LET success == leave[c] = "ok" /\ events' = events
       IN  /\ hasJoined' = IF c \in Pages /\ success THEN [hasJoined EXCEPT ![c] = FALSE] ELSE hasJoined
           /\ reads' = IF success THEN Refetched(c) ELSE reads
    /\ leave' = [leave EXCEPT ![c] = "idle"]
    /\ modal' = IF c \in Cards THEN [modal EXCEPT ![c] = IF @ = "leave" THEN "none" ELSE @] ELSE modal
    /\ serverUnchanged /\ UNCHANGED <<registered, join, joins, leaves, granted, missed>>

-----------------------------------------------------------------------------
(* join_auction_service *)

JoinTo(c, step) == join' = [join EXCEPT ![c].step = step]
joinUnchanged == UNCHANGED <<now, registered, hasJoined, modal, leave, reads, joins, leaves, granted>>

\* Variant: an existing registration is answered at once.
JoinCheckKeepBit(c) ==
    /\ join[c].step = "check" /\ NoEvent
    /\ JoinTo(c, IF row THEN "ok" ELSE IF now >= Deadline THEN "error" ELSE "insert")
    /\ joinUnchanged /\ UNCHANGED <<row, redisVars, missed>>

\* An existing registration only needs its bit; a new one meets the deadline.  A
\* count that fails finds no registration, another query that fails is an error.
JoinCheck(c) ==
    /\ join[c].step = "check"
    /\ \/ \E counted \in BOOLEAN :
             /\ Happen(Unless(counted, "count"))
             /\ JoinTo(c, IF counted /\ row THEN "rehydrate"
                          ELSE IF now >= Deadline THEN "error" ELSE "insert")
       \/ Event("db") /\ JoinTo(c, "error")
    /\ joinUnchanged /\ UNCHANGED <<row, redisVars, missed>>

\* The table's unique constraint rejects a second row.
JoinInsert(c) ==
    /\ join[c].step = "insert"
    /\ \/ NoEvent /\ row' = TRUE /\ JoinTo(c, IF row THEN "already" ELSE "grant")
       \/ Event("db") /\ UNCHANGED row /\ JoinTo(c, "error")
    /\ joinUnchanged /\ UNCHANGED <<redisVars, missed>>

\* set_participant_bit.
Grant(c) ==
    /\ join[c].step \in {"rehydrate", "grant"}
    /\ bit' = TRUE

\* invalidate_auction_catalog, after a change of the row; nobody hears of a failure.
Invalidate(changed, incremented) ==
    IF ~changed THEN UNCHANGED <<version, missed>>
    ELSE /\ version' = IF incremented THEN version + 1 ELSE version
         /\ missed' = ~incremented

\* Variant: a failed SETBIT is ignored, as leave does.
JoinGrantUnchecked(c) ==
    /\ \/ NoEvent /\ Grant(c)
       \/ Event("bit") /\ join[c].step \in {"rehydrate", "grant"} /\ UNCHANGED bit
    /\ Invalidate(join[c].step = "grant", TRUE)
    /\ JoinTo(c, "ok")
    /\ joinUnchanged /\ UNCHANGED <<row, cache>>

\* The bit, and for a new registration the catalogue's version; a SETBIT that
\* fails fails the request before that.  (The two Redis commands, and those of
\* leave, are one step: no other step reads both.)
JoinGrant(c) ==
    /\ \/ \E incremented \in BOOLEAN :
             /\ Grant(c)
             /\ ~incremented => join[c].step = "grant"
             /\ Happen(Unless(incremented, "cache"))
             /\ Invalidate(join[c].step = "grant", incremented)
             /\ JoinTo(c, "ok")
       \/ /\ join[c].step \in {"rehydrate", "grant"} /\ Event("bit")
          /\ JoinTo(c, "error")
          /\ missed' = (missed \/ join[c].step = "grant")
          /\ UNCHANGED <<bit, version>>
    /\ joinUnchanged /\ UNCHANGED <<row, cache>>

(* leave_auction_service *)

LeaveTo(c, step) == leave' = [leave EXCEPT ![c] = step]
leaveUnchanged == UNCHANGED <<now, registered, hasJoined, modal, join, reads, joins, leaves, granted>>

LeaveDelete(c) ==
    /\ leave[c] = "delete"
    /\ \/ /\ NoEvent
          /\ IF now >= Start \/ ~row
             THEN LeaveTo(c, "error") /\ UNCHANGED row
             ELSE LeaveTo(c, "revoke") /\ row' = FALSE
       \/ Event("db") /\ LeaveTo(c, "error") /\ UNCHANGED row
    /\ leaveUnchanged /\ UNCHANGED <<redisVars, missed>>

\* Clearing the bit is best effort.
LeaveRevoke(c) ==
    /\ leave[c] = "revoke"
    /\ \E cleared, incremented \in BOOLEAN :
          /\ Happen(Unless(cleared, "bit") \cup Unless(incremented, "cache"))
          /\ bit' = (bit /\ ~cleared)
          /\ Invalidate(TRUE, incremented)
    /\ LeaveTo(c, "ok")
    /\ leaveUnchanged /\ UNCHANGED <<row, cache>>

-----------------------------------------------------------------------------
(* get_auctions_service, as far as is_registered goes *)

readUnchanged ==
    UNCHANGED <<row, bit, version, now, hasJoined, modal, join, leave, joins, leaves, granted, missed>>

ReadTo(r, next) ==
    /\ reads' = (reads \ {r}) \cup {next}
    /\ UNCHANGED registered

\* The read is over, and the client takes the answer if it still waits for it.
Answer(r, value) ==
    /\ registered' = IF r.current THEN [registered EXCEPT ![r.client] = value] ELSE registered
    /\ reads' = reads \ {r}

\* auction_catalog_version: 0 when it cannot be read.
ReadVersion(r) ==
    /\ r.step = "version"
    /\ \E known \in BOOLEAN :
          /\ Happen(Unless(known, "cache"))
          /\ ReadTo(r, [r EXCEPT !.step = "lookup", !.version = IF known THEN version ELSE 0])
    /\ readUnchanged /\ UNCHANGED cache

\* A GET that fails is a miss.
ReadCache(r) ==
    /\ r.step = "lookup"
    /\ \/ NoEvent /\ cache[r.version] # "none" /\ Answer(r, cache[r.version])
       \/ /\ IF cache[r.version] = "none" THEN NoEvent ELSE Event("cache")
          /\ ReadTo(r, [r EXCEPT !.step = "database"])
    /\ readUnchanged /\ UNCHANGED cache

\* The query of a client that still waits for its answer is sent again after an error.
ReadDatabase(r) ==
    /\ r.step = "database"
    /\ \/ NoEvent /\ ReadTo(r, [r EXCEPT !.step = "store", !.value = YesNo(row)])
       \/ /\ Event("db") /\ UNCHANGED registered
          /\ reads' = (reads \ {r}) \cup (IF r.current THEN {Read(r.client)} ELSE {})
    /\ readUnchanged /\ UNCHANGED cache

\* Variant: what was read is stored under the version of the moment.
ReadStoreLatest(r) ==
    /\ r.step = "store" /\ NoEvent
    /\ cache' = [cache EXCEPT ![version] = r.value]
    /\ Answer(r, r.value)
    /\ readUnchanged

\* SET_EX under the key of the version that was read first, if it succeeds.  (That
\* the entry expires turns a hit into a miss, and the database is never staler.)
ReadStore(r) ==
    /\ r.step = "store"
    /\ \/ NoEvent /\ cache' = [cache EXCEPT ![r.version] = r.value]
       \/ Event("cache") /\ UNCHANGED cache
    /\ Answer(r, r.value)
    /\ readUnchanged

-----------------------------------------------------------------------------
RedisRestart ==
    /\ Event("restart")
    /\ bit' = FALSE /\ version' = 0 /\ cache' = [v \in Versions |-> "none"]
    /\ UNCHANGED <<row, now, clientVars, reads, joins, leaves, granted, missed>>

Tick ==
    /\ now < MaxClock
    /\ now' = now + 1
    /\ UNCHANGED <<row, redisVars, clientVars, reads, histVars>>

ServerStep ==
    \/ \E c \in Clients : \/ JoinCheck(c) \/ JoinInsert(c) \/ JoinGrant(c)
                          \/ LeaveDelete(c) \/ LeaveRevoke(c)
    \/ \E r \in reads : ReadVersion(r) \/ ReadCache(r) \/ ReadDatabase(r) \/ ReadStore(r)
ClientStep(c) == JoinSuccess(c) \/ JoinError(c) \/ LeaveSettled(c)

Next ==
    \/ \E p \in Pages : JoinAuction(p) \/ AutoJoin(p) \/ Unregister(p)
    \/ \E c \in Cards : ActionClick(c) \/ CloseModal(c) \/ ConfirmRegistration(c) \/ ConfirmLeave(c)
    \/ \E c \in Clients : Refetch(c) \/ ClientStep(c)
    \/ ServerStep
    \/ RedisRestart \/ Tick

Spec == Init /\ [][Next]_vars

\* The server works on every request, answers arrive or are lost, and effects
\* run.  The steps of one request follow each other whatever the other requests
\* and the refetches do, so each has its own fairness.
FairSpec ==
    /\ Spec
    /\ \A c \in Clients :
          /\ WF_vars(JoinCheck(c) \/ JoinInsert(c) \/ JoinGrant(c))
          /\ WF_vars(LeaveDelete(c) \/ LeaveRevoke(c))
          /\ WF_vars(ClientStep(c))
    /\ \A p \in Pages : WF_vars(AutoJoin(p))

-----------------------------------------------------------------------------
(* Properties *)

\* The variables have their types.
TypeOK ==
    /\ row \in BOOLEAN /\ bit \in BOOLEAN
    /\ version \in Versions /\ cache \in [Versions -> {"none", "yes", "no"}]
    /\ now \in 0..MaxClock
    /\ registered \in [Clients -> {"yes", "no"}]
    /\ hasJoined \in [Pages -> BOOLEAN]
    /\ modal \in [Cards -> {"none", "join", "leave", "success"}]
    /\ join \in [Clients -> [step : {"idle", "check", "rehydrate", "insert", "grant",
                                     "ok", "already", "error"}, auto : BOOLEAN]]
    /\ leave \in [Clients -> {"idle", "delete", "revoke", "ok", "error"}]
    /\ reads \subseteq [client : Clients, current : BOOLEAN, version : Versions,
                        step : {"version", "lookup", "database", "store"},
                        value : {"none", "yes", "no"}]
    /\ \A c \in Clients : Cardinality({r \in reads : r.client = c /\ r.current}) <= 1
    /\ joins \in 0..MaxJoins /\ leaves \in 0..MaxLeaves /\ granted \in BOOLEAN
    /\ missed \in BOOLEAN /\ events \subseteq Events

\* auction.rs:343 "Do not report a successful registration unless the access
\* record is available": once a join has reported success the user is registered
\* and has access, as long as no tab unregisters and Redis keeps its data, also
\* when SETBIT fails for a tab, answers are lost and the tabs join concurrently.
SuccessHasAccess ==
    granted /\ leaves = 0 /\ "restart" \notin events => row /\ bit

\* A change of the registration that has not invalidated the catalogue yet.
Invalidating == \E c \in Clients : join[c].step = "grant" \/ leave[c] = "revoke"

\* The catalogue of the current version is never stale: no read that started
\* before a registration or its end stores what it saw under the version that
\* follows, although version, lookup, database and store are separate steps of which
\* each may fail.  An invalidation that is skipped (its INCR fails, or the SETBIT
\* before it) leaves a stale catalogue, but only until the next one succeeds.
CatalogueFresh ==
    "restart" \notin events /\ ~missed /\ ~Invalidating =>
        /\ cache[version] \in {"none", YesNo(row)}
        /\ \A r \in reads : r.step = "store" /\ r.version = version => r.value = YesNo(row)

\* A registered user whose page knows it gets into the room with the access bit, also
\* after the registration deadline and during the auction, although Redis has lost the
\* bit and requests and answers fail (the effect tries again); unless the user
\* unregisters, Redis loses its data again, or a count that fails has the page told
\* 'already joined' without its bit.
RegisteredEntersRoom ==
    \A p \in Pages, lost \in BOOLEAN :
        /\ row /\ registered[p] = "yes" /\ ~hasJoined[p] /\ join[p].step = "idle"
        /\ \A c \in Clients : leave[c] # "revoke"
        /\ lost = ("restart" \in events)
        ~> \/ hasJoined[p] /\ bit
           \/ ~row \/ registered[p] = "no"
           \/ lost # ("restart" \in events)
           \/ "count" \in events
===============================================================================
