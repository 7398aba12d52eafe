----------------------------- MODULE AuctionRoom -----------------------------
(***************************************************************************)
(* The live auction room of ONE registered user: the browser's auction     *)
(* store, bidding console and timer worker, one Socket.IO connection, the  *)
(* WebSocket server's connection handler and its fan-out of live updates.  *)
(* The engine that decides the bids is external here (BidEngine models     *)
(* it): it takes the queued bids in order, keeps the accepted ones in      *)
(* Redis and publishes every decision, best effort.                        *)
(***************************************************************************)
EXTENDS BidRule, FiniteSets

CONSTANTS
    AuctionType,
    StartPrice,
    Step,
    Amounts,     \* what is bid
    Start, End,
    ClientLag,   \* how far the browser's clock is behind
    Window,      \* how many bids a snapshot holds (10 leading, 50 recent in the code)
    MaxMine,     \* bound: bids the user places
    MaxOther,    \* bound: bids of the other participants
    MaxClock,    \* bound: the time
    MaxEvents,   \* bound: how many events happen
    Events       \* what may happen once: "drop" the connection closes, "publish" an update
                 \* is lost, "redis" a snapshot read fails, "grpc" a bid is not forwarded

ASSUME RoomAssumption ==
    /\ AuctionType \in AuctionTypes
    /\ StartPrice \in Nat \ {0} /\ Step \in Nat \ {0} /\ Amounts \subseteq Nat \ {0}
    /\ Start \in Nat /\ End \in Nat /\ Start < End /\ ClientLag \in Nat
    /\ Window \in Nat \ {0} /\ MaxMine \in Nat /\ MaxOther \in Nat
    /\ MaxClock \in Nat /\ MaxEvents \in Nat
    /\ Events \subseteq {"drop", "publish", "redis", "grpc"}

VARIABLES
    now,         \* the servers' clock
    hydrated,    \* the scheduler has put the auction into Redis
    pipeline,    \* bids that gRPC has queued for the engine
    accepted,    \* the accepted bids in Redis, oldest first
    updates,     \* decisions published to auction:updates, not fanned out yet
    session,     \* the server's handler of the connection
    sent,        \* place_bid messages on their way to the server
    inbox,       \* messages on their way to the browser
    store,       \* the auction slice
    worker,      \* the status that the timer worker counts for, or "off"
    posted,      \* the worker has asked for an update of the status
    \* history and bounds
    bids,        \* how many bids have been placed, by each bidder
    base,        \* the best price when the session that filled the store joined the room
    told,        \* own bids whose decision the store has seen since it was filled
    events

serverVars  == <<hydrated, pipeline, accepted, updates>>
browserVars == <<store, worker, posted>>
vars == <<now, serverVars, session, sent, inbox, browserVars, bids, base, told, events>>

Bidders == {"me", "other"}
NoSession == [phase |-> "none", completed |-> FALSE, best |-> StartPrice, leading |-> <<>>, recent |-> <<>>]

\* initialState of the slice, before any auction_init.
InitialStore == [known |-> FALSE, price |-> 0, bids |-> {}, status |-> "waiting"]

Init ==
    /\ now = 0 /\ hydrated = FALSE
    /\ pipeline = <<>> /\ accepted = <<>> /\ updates = <<>>
    /\ session = NoSession /\ sent = {} /\ inbox = <<>>
    /\ store = InitialStore /\ worker = "off" /\ posted = FALSE
    /\ bids = [b \in Bidders |-> 0] /\ base = StartPrice /\ told = {} /\ events = {}

Event(kind) ==
    /\ kind \in Events \ events /\ Cardinality(events) < MaxEvents
    /\ events' = events \cup {kind}
NoEvent == UNCHANGED events

Connected == session.phase # "none"
ClientNow == now - ClientLag

-----------------------------------------------------------------------------
(* The auction slice *)

StatusAtStrict(t) == IF t > End THEN "ended" ELSE IF t > Start THEN "active" ELSE "waiting"  \* Variant: the start instant is too early.

\* The status at time t: the start instant is active, and so is the end instant.
StatusAt(t) == IF t > End THEN "ended" ELSE IF t >= Start THEN "active" ELSE "waiting"

Valid(bs) == {b \in bs : b.status # "rejected"}
Leading(bs) == CHOOSE a \in {b.amount : b \in bs} : \A b \in bs : RanksFirst(AuctionType, a, b.amount)

\* The price after a reconciliation: that of the best bid that is not rejected,
\* else the starting price (null, here 0, before the first auction_init).
LeadingPrice(s, bs) ==
    IF Valid(bs) # {} THEN Leading(Valid(bs)) ELSE IF s.known THEN StartPrice ELSE 0

\* addOptimisticBid.
AddOptimisticBid(s, bid) ==
    [s EXCEPT !.bids = @ \cup {[id |-> <<"local", bid.n>>, bidder |-> "optimistic",
                                amount |-> bid.amount, status |-> "pending"]},
              !.price = IF bid.amount # @ /\ RanksFirst(AuctionType, bid.amount, @) THEN bid.amount ELSE @]

MatchesById(s, bid) == {b \in s.bids : b.id = <<bid.bidder, bid.n>>}  \* Variant: no optimistic match.

\* The entry an event is about: the one with its id, else the newest pending one
\* with its amount (the list is kept newest first).
Matches(s, bid) ==
    LET same == {b \in s.bids : b.id = <<bid.bidder, bid.n>>}
        awaiting == {b \in s.bids : b.status = "pending" /\ b.amount = bid.amount}
    IN  IF same # {} THEN same ELSE {b \in awaiting : \A c \in awaiting : b.id[2] >= c.id[2]}

Reconciled(s, bid, executed) ==
    LET match == Matches(s, bid)
        entry(id) == [id |-> id, bidder |-> bid.bidder, amount |-> bid.amount,
                      status |-> IF executed THEN "confirmed" ELSE "rejected"]
    IN  (s.bids \ match) \cup (IF match = {} THEN {entry(<<bid.bidder, bid.n>>)}
                               ELSE {entry(b.id) : b \in match})

\* Variant: a rejection leaves the price alone.
ReconcileBidKeepPrice(s, bid, executed) ==
    LET after == Reconciled(s, bid, executed)
    IN  [s EXCEPT !.bids = after, !.price = IF executed THEN LeadingPrice(s, after) ELSE @]

\* reconcileBid: the entry takes over the event and keeps its id; the price is
\* computed again.
ReconcileBid(s, bid, executed) ==
    LET after == Reconciled(s, bid, executed)
    IN  [s EXCEPT !.bids = after, !.price = LeadingPrice(s, after)]

\* A snapshot's bids, all executed, reconciled in turn.
ReconcileAll(s, seq) ==
    LET upTo[i \in 0..Len(seq)] == IF i = 0 THEN s ELSE ReconcileBid(upTo[i - 1], seq[i], TRUE)
    IN  upTo[Len(seq)]

\* initAuction.
InitAuction == [known |-> TRUE, price |-> StartPrice, bids |-> {}, status |-> StatusAt(ClientNow)]

\* What the Leaderboard shows: each bidder's best bid that is not rejected.
Leaderboard(bs) ==
    {b \in Valid(bs) : \A c \in Valid(bs) : c.bidder = b.bidder => RanksFirst(AuctionType, b.amount, c.amount)}

\* The bid that WinnerModal congratulates.
Winner(bs) == CHOOSE b \in Valid(bs) : \A c \in Valid(bs) : RanksFirst(AuctionType, b.amount, c.amount)

-----------------------------------------------------------------------------
(* The browser *)

\* The effect of useTimerWorker: a change of status or times replaces the worker.
RestartWorker ==
    IF store'.status # store.status \/ ~store.known
    THEN worker' = (IF store'.status = "ended" THEN "off" ELSE store'.status) /\ posted' = FALSE
    ELSE UNCHANGED <<worker, posted>>

\* The connection opens: the gateway has taken the ticket and the server's
\* on_connect starts.
Connect ==
    /\ ~Connected
    /\ session' = [NoSession EXCEPT !.phase = "check"]
    /\ NoEvent
    /\ UNCHANGED <<now, serverVars, sent, inbox, browserVars, bids, base, told>>

\* The connection closes; what is on its way is lost, the store stays.
Drop ==
    /\ Connected /\ Event("drop")
    /\ session' = NoSession /\ sent' = {} /\ inbox' = <<>>
    /\ UNCHANGED <<now, serverVars, browserVars, bids, base, told>>

CanBid == store.known /\ store.status = "active" /\ Connected

\* The best amount the console lets through; 1 stands for 0.01.
NextValid ==
    IF AuctionType = "FORWARD" THEN store.price + Step
    ELSE IF store.price - Step >= 1 THEN store.price - Step ELSE 1

\* submit: the optimistic bid goes into the store, then the message is sent.
Submit(amount) ==
    /\ CanBid /\ bids["me"] < MaxMine
    /\ RanksFirst(AuctionType, amount, NextValid)
    /\ LET bid == [bidder |-> "me", n |-> bids["me"] + 1, amount |-> amount]
       IN  store' = AddOptimisticBid(store, bid) /\ sent' = sent \cup {bid}
    /\ bids' = [bids EXCEPT !["me"] = @ + 1]
    /\ NoEvent
    /\ UNCHANGED <<now, serverVars, session, inbox, worker, posted, base, told>>

\* auction_init: the store is filled again from the snapshot.
OnAuctionInit ==
    /\ inbox # <<>> /\ Head(inbox).type = "init"
    /\ store' = ReconcileAll(ReconcileAll(InitAuction, Head(inbox).recent), Head(inbox).leading)
    /\ RestartWorker
    /\ base' = Head(inbox).best /\ told' = {}
    /\ inbox' = Tail(inbox) /\ NoEvent
    /\ UNCHANGED <<now, serverVars, session, sent, bids>>

\* bid_update: one decision.  The slice takes it also before any auction_init.
OnBidUpdate ==
    /\ inbox # <<>> /\ Head(inbox).type = "update"
    /\ LET bid == Head(inbox).bid
       IN  /\ store' = ReconcileBid(store, bid, Head(inbox).executed)
           /\ told' = told \cup (IF bid.bidder = "me" THEN {bid.n} ELSE {})
    /\ inbox' = Tail(inbox) /\ NoEvent
    /\ UNCHANGED <<now, serverVars, session, sent, worker, posted, bids, base>>

\* The worker's interval: it asks once, then stops.
WorkerTick ==
    /\ \/ worker = "waiting" /\ ClientNow >= Start
       \/ worker = "active" /\ ClientNow >= End
    /\ posted' = TRUE /\ worker' = "off" /\ NoEvent
    /\ UNCHANGED <<now, serverVars, session, sent, inbox, store, bids, base, told>>

\* The worker's message: updateAuctionStatus.
OnWorkerMessage ==
    /\ posted
    /\ store' = [store EXCEPT !.status = StatusAt(ClientNow)]
    /\ IF store'.status # store.status THEN RestartWorker ELSE posted' = FALSE /\ UNCHANGED worker
    /\ NoEvent
    /\ UNCHANGED <<now, serverVars, session, sent, inbox, bids, base, told>>

-----------------------------------------------------------------------------
(* The WebSocket server *)

sessionOnly == UNCHANGED <<now, serverVars, sent, browserVars, bids, base, told>>

InRoom == session.phase \in {"waiting", "joined", "leading", "recent", "serving"}
BestAccepted == IF accepted = <<>> THEN StartPrice ELSE accepted[Len(accepted)].amount

\* The session waits in the room when the auction is not in Redis yet.
CheckInitialized ==
    /\ session.phase = "check"
    /\ session' = [session EXCEPT !.phase = IF hydrated THEN "checked" ELSE "waiting"]
    /\ NoEvent /\ UNCHANGED inbox /\ sessionOnly

\* The auction's state is validated and the room joined.
JoinRoom ==
    /\ session.phase = "checked"
    /\ session' = [session EXCEPT !.phase = "joined", !.completed = (now >= End), !.best = BestAccepted]
    /\ NoEvent /\ UNCHANGED inbox /\ sessionOnly

ReadOldest(seq) == SubSeq(seq, 1, IF Len(seq) > Window THEN Window ELSE Len(seq))  \* Variant: the wrong end.

\* The newest bids of the stream, or the leading ones of the sorted set: the
\* accepted bids improve, so they are the same.
ReadNewest(seq) == SubSeq(seq, IF Len(seq) > Window THEN Len(seq) - Window + 1 ELSE 1, Len(seq))

\* ZRANGE or ZREVRANGE; when it fails there is no auction_init, but the session
\* takes bids.
ReadLeadingBids ==
    /\ session.phase = "joined"
    /\ \/ session' = [session EXCEPT !.phase = "leading", !.leading = ReadNewest(accepted)] /\ NoEvent
       \/ session' = [session EXCEPT !.phase = "serving"] /\ Event("redis")
    /\ UNCHANGED inbox /\ sessionOnly

\* XREVRANGE; when it fails the history is empty.
ReadRecentEvents ==
    /\ session.phase = "leading"
    /\ \/ session' = [session EXCEPT !.phase = "recent", !.recent = ReadNewest(accepted)] /\ NoEvent
       \/ session' = [session EXCEPT !.phase = "recent"] /\ Event("redis")
    /\ UNCHANGED inbox /\ sessionOnly

\* auction_init is emitted and the handler of place_bid registered.
EmitInit ==
    /\ session.phase = "recent"
    /\ inbox' = Append(inbox, [type |-> "init", leading |-> session.leading,
                               recent |-> session.recent, best |-> session.best])
    /\ session' = [NoSession EXCEPT !.phase = "serving", !.completed = session.completed]
    /\ NoEvent /\ sessionOnly

\* BidSession::authorize.
Authorized == ~session.completed /\ now >= Start /\ now < End

\* place_bid: an authorized bid goes to gRPC, any other is answered by an error
\* that does not change the store.  Without a handler the message is ignored.
PlaceBid(bid) ==
    /\ bid \in sent
    /\ sent' = sent \ {bid}
    /\ \/ /\ session.phase = "serving" /\ Authorized
          /\ pipeline' = Append(pipeline, bid) /\ NoEvent
       \/ ~(session.phase = "serving" /\ Authorized) /\ NoEvent /\ UNCHANGED pipeline
       \/ session.phase = "serving" /\ Authorized /\ Event("grpc") /\ UNCHANGED pipeline
    /\ UNCHANGED <<now, hydrated, accepted, updates, session, inbox, browserVars, bids, base, told>>

\* The fan-out of auction:updates to the room.
FanOut ==
    /\ updates # <<>>
    /\ updates' = Tail(updates)
    /\ inbox' = IF InRoom THEN Append(inbox, Head(updates)) ELSE inbox
    /\ NoEvent
    /\ UNCHANGED <<now, hydrated, pipeline, accepted, session, sent, browserVars, bids, base, told>>

-----------------------------------------------------------------------------
(* The rest of the system *)

external == UNCHANGED <<now, session, sent, inbox, browserVars, base, told>>

\* The scheduler puts the auction into Redis once it has started.
Hydrate ==
    /\ ~hydrated /\ now >= Start /\ hydrated' = TRUE
    /\ NoEvent /\ UNCHANGED <<pipeline, accepted, updates, bids>> /\ external

\* Another participant's bid reaches the queue.
OtherBid(amount) ==
    /\ hydrated /\ now < End /\ bids["other"] < MaxOther
    /\ pipeline' = Append(pipeline, [bidder |-> "other", n |-> bids["other"] + 1, amount |-> amount])
    /\ bids' = [bids EXCEPT !["other"] = @ + 1]
    /\ NoEvent /\ UNCHANGED <<hydrated, accepted, updates>> /\ external

\* The engine decides the next bid and publishes the decision, best effort.
Decide ==
    /\ pipeline # <<>>
    /\ LET bid == Head(pipeline)
           executed == is_better_bid(AuctionType, BestAccepted, bid.amount, Step)
       IN  /\ accepted' = IF executed THEN Append(accepted, bid) ELSE accepted
           /\ \/ updates' = Append(updates, [type |-> "update", bid |-> bid, executed |-> executed]) /\ NoEvent
              \/ UNCHANGED updates /\ Event("publish")
    /\ pipeline' = Tail(pipeline)
    /\ UNCHANGED <<hydrated, bids>> /\ external

Tick ==
    /\ now < MaxClock /\ now' = now + 1
    /\ NoEvent /\ UNCHANGED <<serverVars, session, sent, inbox, browserVars, bids, base, told>>

Browser == Connect \/ OnAuctionInit \/ OnBidUpdate \/ WorkerTick \/ OnWorkerMessage
Server == CheckInitialized \/ JoinRoom \/ ReadLeadingBids \/ ReadRecentEvents \/ EmitInit \/ FanOut

Next ==
    \/ Browser \/ Server \/ Drop \/ Hydrate \/ Decide \/ Tick
    \/ \E amount \in Amounts : Submit(amount) \/ OtherBid(amount)
    \/ \E bid \in sent : PlaceBid(bid)

Spec == Init /\ [][Next]_vars

\* Time passes and the browser runs its timer worker and the worker's messages;
\* nothing is asked of the network, the servers or the user.
FairSpec == Spec /\ WF_vars(Tick) /\ WF_vars(WorkerTick) /\ WF_vars(OnWorkerMessage)

-----------------------------------------------------------------------------
(* Properties *)

Bid == [bidder : Bidders, n : 1..(MaxMine + MaxOther), amount : Amounts]
Entry == [id : ({"local"} \cup Bidders) \X (1..(MaxMine + MaxOther)), bidder : {"optimistic"} \cup Bidders,
          amount : Amounts, status : {"pending", "confirmed", "rejected"}]

\* The variables have their types; the snapshots are no longer than the code
\* asks for, and the store holds no two entries with one id.
TypeOK ==
    /\ now \in 0..MaxClock /\ hydrated \in BOOLEAN
    /\ \A i \in 1..Len(pipeline) : pipeline[i] \in Bid
    /\ \A i \in 1..Len(accepted) : accepted[i] \in Bid
    /\ \A i \in 1..Len(updates) : updates[i].bid \in Bid /\ updates[i].executed \in BOOLEAN
    /\ session.phase \in {"none", "check", "waiting", "checked", "joined", "leading", "recent", "serving"}
    /\ Len(session.leading) <= Window /\ Len(session.recent) <= Window
    /\ sent \subseteq Bid
    /\ \A i \in 1..Len(inbox) : inbox[i].type \in {"init", "update"}
    /\ store.known \in BOOLEAN /\ store.price \in Amounts \cup {0, StartPrice}
    /\ store.status \in {"waiting", "active", "ended"} /\ store.bids \subseteq Entry
    /\ \A a, b \in store.bids : a.id = b.id => a = b
    /\ worker \in {"off", "waiting", "active"} /\ posted \in BOOLEAN
    /\ bids \in [Bidders -> 0..(MaxMine + MaxOther)] /\ base \in Amounts \cup {StartPrice}
    /\ told \subseteq 1..MaxMine /\ events \subseteq Events

\* auctionSlice reconcileBid, addOptimisticBid and initAuction each compute the
\* price their own way; whatever order bids, rejections, snapshots and
\* reconnections come in, the price shown is that of the leader on the
\* leaderboard and of the winner announced.
LeaderIsPrice ==
    store.known /\ Valid(store.bids) # {} =>
        /\ Winner(store.bids).amount = store.price
        /\ \E b \in Leaderboard(store.bids) : b.amount = store.price

\* useAuctionSocket, auction_init: the room is joined before the snapshot is read,
\* so a browser that has taken the snapshot shows a price at least as good as the
\* best one when its session joined, although bids are decided, published and lost
\* meanwhile and a snapshot holds only the newest bids.
CatchesUp == store.known => RanksFirst(AuctionType, store.price, base)

\* The own bids of an amount that the console shows as awaiting confirmation, and
\* those it has taken whose decision the store has not seen.
Awaiting(a) == {b.id[2] : b \in {c \in store.bids : c.status = "pending" /\ c.amount = a}}
Undecided(a) == {b.id[2] : b \in {c \in store.bids : c.id[1] = "local" /\ c.amount = a}} \ told

\* auctionSlice reconcileBid: for every amount, the console shows no more own bids
\* as awaiting confirmation than have no decision yet.  (At the lowest price of a
\* reverse auction the console takes the same amount again; the newest of the equal
\* bids is matched, which need not be the one decided.)
DecidedIsNotPending ==
    \A a \in Amounts : Cardinality(Awaiting(a)) <= Cardinality(Undecided(a))

\* useTimerWorker and updateAuctionStatus: a browser in the waiting room leaves it
\* once its clock reaches the start, although the worker asks only once and the
\* clock is late; no message from the server is needed.
OpensOnTime == store.known ~> store.status # "waiting"
=============================================================================
