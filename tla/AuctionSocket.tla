---------------------------- MODULE AuctionSocket ----------------------------
(***************************************************************************)
(* How one browser tab keeps its connection to ONE auction room:           *)
(* SocketContext's socket map, reference count and reconnection, and the   *)
(* subscription of the page (useAuctionSocket).  Pages of the auction come *)
(* and go, so several socket objects live at a time: the one in the map    *)
(* and older ones whose ticket request or timer is still under way.        *)
(* The gateway that sells and takes the single-use tickets is external.    *)
(***************************************************************************)
EXTENDS Integers, FiniteSets

CONSTANTS
    MaxMounts,   \* bound: how often a page of the auction is opened
    Events,      \* what may happen: "drop" a connection is lost, "ticket" a ticket
                 \* request fails, "refused" a handshake fails
    MaxEvents    \* bound: how often each of them happens

ASSUME SocketAssumption ==
    /\ MaxMounts \in Nat /\ MaxEvents \in Nat
    /\ Events \subseteq {"drop", "ticket", "refused"}

VARIABLES
    mounted,      \* a page of the auction is open
    refCount,     \* refCounts.get(auctionId), 0 when there is no entry
    entry,        \* sockets.get(auctionId), 0 when there is no entry
    sock,         \* the socket objects created so far
    listening,    \* sockets that carry the handlers of the open page
    isConnected,  \* the flag the console shows
    used,         \* tickets the gateway has taken
    \* history and bounds
    mounts, sold, events

vars == <<mounted, refCount, entry, sock, listening, isConnected, used, mounts, sold, events>>

Sockets == 1..MaxMounts
None == 0

\* A socket that does not exist yet, or has nothing under way.
Idle == [net |-> "closed", chain |-> "none", ticket |-> 0]

Init ==
    /\ mounted = FALSE /\ refCount = 0 /\ entry = None
    /\ sock = [k \in Sockets |-> Idle] /\ listening = {} /\ isConnected = FALSE
    /\ used = {} /\ mounts = 0 /\ sold = 0 /\ events = [e \in Events |-> 0]

NoEvent == UNCHANGED events
Event(kind) ==
    /\ kind \in Events /\ events[kind] < MaxEvents
    /\ events' = [events EXCEPT ![kind] = @ + 1]

-----------------------------------------------------------------------------
(* The page *)

\* subscribeToAuction: a socket is created when the map has none.
SocketFor == IF entry # None THEN entry ELSE mounts + 1

\* Variant: the handlers are added before the subscription.
SubscribeListenFirst ==
    /\ ~mounted /\ mounts < MaxMounts
    /\ mounted' = TRUE /\ mounts' = mounts + 1 /\ refCount' = refCount + 1
    /\ entry' = SocketFor
    /\ sock' = IF entry = None THEN [sock EXCEPT ![SocketFor].chain = "first"] ELSE sock
    /\ listening' = listening \cup ({entry} \ {None})
    /\ NoEvent /\ UNCHANGED <<isConnected, used, sold>>

\* A page opens: it subscribes, the first ticket is requested, then its handlers
\* are added to the socket in the map.
Subscribe ==
    /\ ~mounted /\ mounts < MaxMounts
    /\ mounted' = TRUE /\ mounts' = mounts + 1 /\ refCount' = refCount + 1
    /\ entry' = SocketFor
    /\ sock' = IF entry = None THEN [sock EXCEPT ![SocketFor].chain = "first"] ELSE sock
    /\ listening' = listening \cup {entry'}
    /\ NoEvent /\ UNCHANGED <<isConnected, used, sold>>

\* The page closes: its handlers are taken off the socket in the map; without
\* subscribers that socket is disconnected and forgotten.
Unsubscribe ==
    /\ mounted
    /\ mounted' = FALSE /\ refCount' = refCount - 1
    /\ listening' = listening \ {entry}
    /\ IF refCount' > 0 \/ entry = None THEN UNCHANGED <<sock, isConnected, entry>>
       ELSE /\ sock' = [sock EXCEPT ![entry].net = "closed"]
            /\ isConnected' = (isConnected /\ sock[entry].net # "open")
            /\ entry' = None
    /\ NoEvent /\ UNCHANGED <<used, mounts, sold>>

-----------------------------------------------------------------------------
(* One socket object *)

\* refreshTicket succeeds and the socket connects, the first time only while
\* somebody is subscribed.
TicketArrives(k) ==
    /\ sock[k].chain \in {"first", "again"}
    /\ sold' = sold + 1
    /\ sock' = [sock EXCEPT ![k] =
          [net    |-> IF @.chain = "first" /\ refCount = 0 THEN "closed" ELSE "opening",
           chain  |-> "none",
           ticket |-> sold']]
    /\ NoEvent /\ UNCHANGED <<mounted, refCount, entry, listening, isConnected, used, mounts>>

\* refreshTicket fails: the first time, the auction leaves the map.
TicketFails(k) ==
    /\ sock[k].chain \in {"first", "again"} /\ Event("ticket")
    /\ entry' = IF sock[k].chain = "first" THEN None ELSE entry
    /\ sock' = [sock EXCEPT ![k].chain = "none"]
    /\ UNCHANGED <<mounted, refCount, listening, isConnected, used, mounts, sold>>

\* The gateway takes the ticket: 'connect'.
Opened(k) ==
    /\ sock[k].net = "opening" /\ sock[k].ticket \notin used
    /\ used' = used \cup {sock[k].ticket}
    /\ sock' = [sock EXCEPT ![k].net = "open"] /\ isConnected' = TRUE
    /\ NoEvent /\ UNCHANGED <<mounted, refCount, entry, listening, mounts, sold>>

\* The handshake fails: 'connect_error' is logged.
Refused(k) ==
    /\ sock[k].net = "opening" /\ Event("refused")
    /\ used' = used \cup {sock[k].ticket}
    /\ sock' = [sock EXCEPT ![k].net = "closed"]
    /\ UNCHANGED <<mounted, refCount, entry, listening, isConnected, mounts, sold>>

\* Variant: the client library reconnects by itself.
DropReconnect(k) ==
    /\ sock[k].net = "open" /\ Event("drop")
    /\ sock' = [sock EXCEPT ![k].net = "opening"]
    /\ isConnected' = FALSE
    /\ UNCHANGED <<mounted, refCount, entry, listening, used, mounts, sold>>

\* Variant: nothing follows a disconnection.
DropGiveUp(k) ==
    /\ sock[k].net = "open" /\ Event("drop")
    /\ sock' = [sock EXCEPT ![k].net = "closed"]
    /\ isConnected' = FALSE
    /\ UNCHANGED <<mounted, refCount, entry, listening, used, mounts, sold>>

\* 'disconnect' for another reason than disconnect(): a timer is set.
Drop(k) ==
    /\ sock[k].net = "open" /\ Event("drop")
    /\ sock' = [sock EXCEPT ![k].net = "closed", ![k].chain = "timer"]
    /\ isConnected' = FALSE
    /\ UNCHANGED <<mounted, refCount, entry, listening, used, mounts, sold>>

\* The timer: a new ticket is requested while somebody is subscribed.
TimerFires(k) ==
    /\ sock[k].chain = "timer"
    /\ sock' = [sock EXCEPT ![k].chain = IF refCount > 0 THEN "again" ELSE "none"]
    /\ NoEvent /\ UNCHANGED <<mounted, refCount, entry, listening, isConnected, used, mounts, sold>>

Next ==
    \/ Subscribe \/ Unsubscribe
    \/ \E k \in Sockets :
          TicketArrives(k) \/ TicketFails(k) \/ Opened(k) \/ Refused(k) \/ Drop(k) \/ TimerFires(k)

\* Requests are answered, handshakes end and timers fire.
Spec ==
    /\ Init /\ [][Next]_vars
    /\ \A k \in Sockets : WF_vars(TicketArrives(k)) /\ WF_vars(Opened(k)) /\ WF_vars(TimerFires(k))

-----------------------------------------------------------------------------
(* Properties *)

\* The variables have their types; the reference count is that of the open page.
TypeOK ==
    /\ mounted \in BOOLEAN /\ refCount = (IF mounted THEN 1 ELSE 0)
    /\ entry \in Sockets \cup {None}
    /\ sock \in [Sockets -> [net : {"closed", "opening", "open"},
                             chain : {"none", "first", "timer", "again"}, ticket : 0..sold]]
    /\ listening \subseteq Sockets /\ isConnected \in BOOLEAN
    /\ used \subseteq 1..sold /\ mounts \in 0..MaxMounts
    /\ sold <= MaxMounts + (IF "drop" \in Events THEN events["drop"] ELSE 0)
    /\ events \in [Events -> 0..MaxEvents]

\* SocketContext.tsx:141 "Gateway tickets are single-use ... instead of replaying
\* the consumed handshake query": every handshake, of the socket in the map and of
\* those left behind, presents a ticket of its own.
TicketsUsedOnce ==
    \A k \in Sockets : sock[k].net = "opening" =>
        /\ sock[k].ticket \notin used
        /\ \A j \in Sockets \ {k} : sock[j].net = "opening" => sock[j].ticket # sock[k].ticket

\* onEvent and useAuctionSocket: an open page hears the socket in the map, and a
\* socket left behind by an earlier page no longer feeds the store as long as no
\* ticket request has failed (a failed one empties the map under a newer socket).
PageHearsItsSocket ==
    /\ mounted /\ entry # None => entry \in listening
    /\ "ticket" \in Events /\ events["ticket"] = 0 => listening = {entry} \ {None}

\* A page that stays open ends up connected, and shown as connected, whatever is
\* left of earlier pages and however often connections are lost, as long as
\* tickets and handshakes do not fail.
StaysConnected ==
    <>[](mounted /\ \A e \in Events \ {"drop"} : events[e] = 0) =>
        <>[](entry # None /\ isConnected /\ sock[entry].net = "open")
=============================================================================
