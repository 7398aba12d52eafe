------------------------- MODULE AuctionSocketProofs -------------------------
(***************************************************************************)
(* Proofs about AuctionSocket, for any number of mounts and of failures:   *)
(* no ticket is presented twice, and a page hears the socket in the map.   *)
(***************************************************************************)
EXTENDS AuctionSocket, TLAPS

Socks == [net : {"closed", "opening", "open"}, chain : {"none", "first", "timer", "again"}, ticket : Nat]

Shapes ==
    /\ mounted \in BOOLEAN /\ refCount = (IF mounted THEN 1 ELSE 0)
    /\ mounts \in 0..MaxMounts /\ entry \in 0..mounts
    /\ sock \in [Sockets -> Socks]
    /\ sold \in Nat /\ events \in [Events -> Nat]

\* The gateway knows and the sockets hold only tickets that were sold, so that the
\* next one is new to all of them.
TicketInv ==
    /\ TicketsUsedOnce
    /\ \A n \in used : n \in 0..sold
    /\ \A k \in Sockets : sock[k].ticket <= sold

SocketInv == Shapes /\ TicketInv /\ PageHearsItsSocket

-----------------------------------------------------------------------------
(* The inductive invariant *)

\* No page is open, no socket exists.
LEMMA SocketInit == Init => SocketInv
  <1> SUFFICES ASSUME Init PROVE SocketInv
    OBVIOUS
  <1> USE SocketAssumption DEF Init, Idle, None
  <1>1. Shapes
    <2>1. sock \in [Sockets -> Socks]
      BY DEF Socks
    <2>2. events \in [Events -> Nat]
      OBVIOUS
    <2>3. mounted = FALSE /\ refCount = 0 /\ mounts = 0 /\ entry = 0 /\ sold = 0
      OBVIOUS
    <2>4. mounts \in 0..MaxMounts /\ entry \in 0..mounts /\ sold \in Nat
      BY <2>3
    <2>5. mounted \in BOOLEAN /\ refCount = (IF mounted THEN 1 ELSE 0)
      BY <2>3
    <2>6. QED
      BY <2>1, <2>2, <2>4, <2>5 DEF Shapes
  <1>2. TicketInv
    BY DEF TicketInv, TicketsUsedOnce
  <1>3. PageHearsItsSocket
    BY DEF PageHearsItsSocket
  <1>4. QED
    BY <1>1, <1>2, <1>3 DEF SocketInv

\* subscribeToAuction: the handlers go to the socket in the map, which is new when
\* the map was empty.  No handshake starts.
LEMMA SubscribeStep ==
    ASSUME SocketInv, Subscribe
    PROVE  SocketInv'
  <1> USE DEF SocketInv, Shapes, None
  <1>1. /\ ~mounted /\ mounts < MaxMounts /\ mounted' = TRUE /\ mounts' = mounts + 1
        /\ refCount' = refCount + 1 /\ UNCHANGED <<used, sold, events>>
        /\ entry' = (IF entry # 0 THEN entry ELSE mounts + 1)
        /\ listening' = listening \cup {entry'}
        /\ sock' = sock \/ sock' = [sock EXCEPT ![mounts + 1].chain = "first"]
    BY DEF Subscribe, SocketFor, NoEvent
  <1>6. mounts + 1 \in Sockets /\ mounts' \in 0..MaxMounts /\ entry' \in 0..mounts'
    BY <1>1, SocketAssumption DEF Sockets
  <1>2. /\ sock' \in [Sockets -> Socks]
        /\ \A k \in Sockets : sock'[k].net = sock[k].net /\ sock'[k].ticket = sock[k].ticket
    <2>1. CASE sock' = sock
      BY <2>1
    <2>2. CASE sock' = [sock EXCEPT ![mounts + 1].chain = "first"]
      BY <2>2, <1>6 DEF Socks
    <2>3. QED
      BY <1>1, <2>1, <2>2
  <1>3. Shapes'
    BY <1>1, <1>6, <1>2
  <1>4. TicketInv'
    BY <1>1, <1>2 DEF TicketInv, TicketsUsedOnce
  <1>5. PageHearsItsSocket'
    BY <1>1 DEF PageHearsItsSocket
  <1>7. QED
    BY <1>3, <1>4, <1>5

\* unsubscribeFromAuction: the page is the only subscriber, so the socket leaves
\* the map together with the page's handlers.
LEMMA UnsubscribeStep ==
    ASSUME SocketInv, Unsubscribe
    PROVE  SocketInv'
  <1> USE DEF SocketInv, Shapes, None
  <1>1. /\ mounted' = FALSE /\ refCount' = 0 /\ entry' = 0
        /\ listening' = listening \ {entry}
        /\ UNCHANGED <<used, mounts, sold, events>>
        /\ sock' = sock \/ (entry # 0 /\ sock' = [sock EXCEPT ![entry].net = "closed"])
    BY DEF Unsubscribe, NoEvent
  <1>2. /\ sock' \in [Sockets -> Socks]
        /\ \A k \in Sockets : sock'[k].net \in {sock[k].net, "closed"} /\ sock'[k].ticket = sock[k].ticket
    <2>1. CASE sock' = sock
      BY <2>1
    <2>2. CASE entry # 0 /\ sock' = [sock EXCEPT ![entry].net = "closed"]
      <3>1. entry \in Sockets
        BY <2>2, SocketAssumption DEF Sockets
      <3>2. QED
        BY <2>2, <3>1 DEF Socks
    <2>3. QED
      BY <1>1, <2>1, <2>2
  <1>3. Shapes'
    <2>1. mounts' \in 0..MaxMounts /\ entry' \in 0..mounts'
      BY <1>1, SocketAssumption
    <2>2. QED
      BY <1>1, <1>2, <2>1
  <1>4. TicketInv'
    BY <1>1, <1>2 DEF TicketInv, TicketsUsedOnce
  <1>5. PageHearsItsSocket'
    BY <1>1 DEF PageHearsItsSocket
  <1>6. QED
    BY <1>3, <1>4, <1>5

\* refreshTicket: the ticket is a new one, for the gateway and for every socket.
LEMMA TicketArrivesStep ==
    ASSUME SocketInv, NEW k \in Sockets, TicketArrives(k)
    PROVE  SocketInv'
  <1> USE DEF SocketInv, Shapes
  <1>1. /\ UNCHANGED <<mounted, refCount, entry, listening, used, mounts, events>>
        /\ sold' = sold + 1
    BY DEF TicketArrives, NoEvent
  <1>2. /\ sock' \in [Sockets -> Socks]
        /\ \A j \in Sockets : j # k => sock'[j] = sock[j]
        /\ sock'[k].ticket = sold + 1
    BY <1>1 DEF TicketArrives, Socks
  <1>3. Shapes' /\ PageHearsItsSocket'
    BY <1>1, <1>2 DEF PageHearsItsSocket
  <1>4. TicketInv'
    <2>1. /\ \A j \in Sockets : sock[j].ticket \in Nat /\ sock[j].ticket < sold + 1
          /\ \A n \in used : n \in 0..sold
          /\ sold + 1 \notin used
      BY DEF TicketInv, Socks
    <2>2. TicketsUsedOnce'
      BY <1>1, <1>2, <2>1 DEF TicketInv, TicketsUsedOnce
    <2>3. QED
      BY <1>1, <1>2, <2>1, <2>2 DEF TicketInv
  <1>5. QED
    BY <1>3, <1>4

\* A failed first request empties the map.  From then on an older socket may still
\* carry the handlers, which the second part of the property leaves out.
LEMMA TicketFailsStep ==
    ASSUME SocketInv, NEW k \in Sockets, TicketFails(k)
    PROVE  SocketInv'
  <1> USE DEF SocketInv, Shapes, None
  <1>1. /\ UNCHANGED <<mounted, refCount, listening, used, mounts, sold>>
        /\ entry' \in {entry, 0}
        /\ "ticket" \in Events /\ events' = [events EXCEPT !["ticket"] = events["ticket"] + 1]
    BY DEF TicketFails, Event
  <1>2. events' \in [Events -> Nat] /\ events'["ticket"] # 0
    BY <1>1
  <1>3. /\ sock' \in [Sockets -> Socks]
        /\ \A j \in Sockets : sock'[j].net = sock[j].net /\ sock'[j].ticket = sock[j].ticket
    BY DEF TicketFails, Socks
  <1>4. Shapes'
    BY <1>1, <1>2, <1>3
  <1>5. TicketInv'
    BY <1>1, <1>3 DEF TicketInv, TicketsUsedOnce
  <1>6. PageHearsItsSocket'
    BY <1>1, <1>2 DEF PageHearsItsSocket
  <1>7. QED
    BY <1>4, <1>5, <1>6

\* The gateway takes a ticket, whether the handshake succeeds or not: no other
\* socket holds it.
LEMMA HandshakeStep ==
    ASSUME SocketInv, NEW k \in Sockets, Opened(k) \/ Refused(k)
    PROVE  SocketInv'
  <1> USE DEF SocketInv, Shapes
  <1>1. /\ UNCHANGED <<mounted, refCount, entry, listening, mounts, sold>>
        /\ sock[k].net = "opening" /\ used' = used \cup {sock[k].ticket}
    BY DEF Opened, Refused
  <1>2. /\ events' \in [Events -> Nat]
        /\ "ticket" \in Events => events'["ticket"] = events["ticket"]
    BY DEF Opened, Refused, NoEvent, Event
  <1>3. /\ sock' \in [Sockets -> Socks]
        /\ \A j \in Sockets : j # k => sock'[j] = sock[j]
        /\ sock'[k].net # "opening" /\ sock'[k].ticket = sock[k].ticket
    BY DEF Opened, Refused, Socks
  <1>4. Shapes'
    BY <1>1, <1>2, <1>3
  <1>5. TicketInv'
    <2>1. sock[k].ticket \in 0..sold
      BY DEF TicketInv, Socks
    <2>2. TicketsUsedOnce'
      BY <1>1, <1>3 DEF TicketInv, TicketsUsedOnce
    <2>3. QED
      BY <1>1, <1>3, <2>1, <2>2 DEF TicketInv
  <1>6. PageHearsItsSocket'
    BY <1>1, <1>2 DEF PageHearsItsSocket
  <1>7. QED
    BY <1>4, <1>5, <1>6

\* A lost connection and its timer start no handshake by themselves.
LEMMA DropStep ==
    ASSUME SocketInv, NEW k \in Sockets, Drop(k) \/ TimerFires(k)
    PROVE  SocketInv'
  <1> USE DEF SocketInv, Shapes
  <1>1. UNCHANGED <<mounted, refCount, entry, listening, used, mounts, sold>>
    BY DEF Drop, TimerFires
  <1>2. /\ events' \in [Events -> Nat]
        /\ "ticket" \in Events => events'["ticket"] = events["ticket"]
    BY DEF Drop, TimerFires, NoEvent, Event
  <1>3. /\ sock' \in [Sockets -> Socks]
        /\ \A j \in Sockets : sock'[j].net \in {sock[j].net, "closed"} /\ sock'[j].ticket = sock[j].ticket
    BY DEF Drop, TimerFires, Socks
  <1>4. Shapes'
    BY <1>1, <1>2, <1>3
  <1>5. TicketInv'
    BY <1>1, <1>3 DEF TicketInv, TicketsUsedOnce
  <1>6. PageHearsItsSocket'
    BY <1>1, <1>2 DEF PageHearsItsSocket
  <1>7. QED
    BY <1>4, <1>5, <1>6

\* Every step of the page and of a socket keeps the invariant.
LEMMA SocketStep == SocketInv /\ [Next]_vars => SocketInv'
  <1> SUFFICES ASSUME SocketInv, [Next]_vars PROVE SocketInv'
    OBVIOUS
  <1>1. CASE UNCHANGED vars
    BY <1>1 DEF vars, SocketInv, Shapes, TicketInv, TicketsUsedOnce, PageHearsItsSocket
  <1>2. CASE Next
    BY <1>2, SubscribeStep, UnsubscribeStep, TicketArrivesStep, TicketFailsStep, HandshakeStep,
       DropStep DEF Next
  <1>3. QED
    BY <1>1, <1>2

\* The invariant of the sockets of one tab.
THEOREM SocketInvariant == Spec => []SocketInv
  BY SocketInit, SocketStep, PTL DEF Spec

-----------------------------------------------------------------------------
(* The results *)

\* SocketContext: no two handshakes, of the socket in the map or of one left
\* behind, present the same ticket, and none presents a ticket already taken.
THEOREM TicketsAreSingleUse == Spec => []TicketsUsedOnce
  <1>1. SocketInv => TicketsUsedOnce
    BY DEF SocketInv, TicketInv
  <1>2. QED
    BY <1>1, SocketInvariant, PTL

\* useAuctionSocket: an open page hears the socket in the map, and until a ticket
\* request has failed it hears no other.
THEOREM PagesHearTheirSocket == Spec => []PageHearsItsSocket
  <1>1. SocketInv => PageHearsItsSocket
    BY DEF SocketInv
  <1>2. QED
    BY <1>1, SocketInvariant, PTL
=============================================================================
