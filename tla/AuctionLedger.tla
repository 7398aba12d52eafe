---------------------------- MODULE AuctionLedger ----------------------------
(***************************************************************************)
(* What the auction engine promises, without processes, queues, replays or *)
(* retries: one sequential book of accepted bids.  While the auction is    *)
(* open a bid that beats the last accepted one by the step is accepted,    *)
(* any other bid is rejected, a request has one verdict for good, and      *)
(* nothing changes once the auction is closed.                             *)
(*                                                                         *)
(* README.md, "Per-auction actors and backpressure" and "Ledger, auditing, *)
(* and idempotency"; BidEngine is shown to implement it.                   *)
(***************************************************************************)
EXTENDS BidRule

CONSTANTS Bids, AuctionType, StartPrice, Step

VARIABLES
    accepted,   \* the accepted bids, in order
    rejected,   \* the requests that were rejected
    open        \* the auction still takes bids

ledgerVars == <<accepted, rejected, open>>

CurrentPrice == IF accepted = <<>> THEN StartPrice ELSE accepted[Len(accepted)].amount
Improves(b) == is_better_bid(AuctionType, CurrentPrice, b.amount, Step)
IsAccepted(id) == \E i \in DOMAIN accepted : accepted[i].id = id

LedgerInit == accepted = <<>> /\ rejected = {} /\ open = TRUE

Accept(b) ==
    /\ open
    /\ Improves(b)
    /\ ~IsAccepted(b.id) /\ b.id \notin rejected
    /\ accepted' = Append(accepted, b)
    /\ UNCHANGED <<rejected, open>>

Reject(b) ==
    /\ open
    /\ ~Improves(b)
    /\ ~IsAccepted(b.id)
    /\ rejected' = rejected \cup {b.id}
    /\ UNCHANGED <<accepted, open>>

Close ==
    /\ open
    /\ open' = FALSE
    /\ UNCHANGED <<accepted, rejected>>

LedgerNext == (\E b \in Bids : Accept(b) \/ Reject(b)) \/ Close

LedgerSpec == LedgerInit /\ [][LedgerNext]_ledgerVars
=============================================================================
