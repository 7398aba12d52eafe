----------------------------- MODULE MCBidEngine -----------------------------
(* Values for the constants of BidEngine. *)
EXTENDS BidEngine, TLC

Bid(id, amount) == [id |-> id, amount |-> amount]

\* From a starting price of 10 and a step of 2: r1 and r2 each improve it, r2
\* does not improve on r1, r3 beats both.
ReverseBids == {Bid("r1", 8), Bid("r2", 7), Bid("r3", 5)}

\* A forward auction from 4 with step 2 and a reserve of 8: r1 improves but
\* misses the reserve, r2 does not improve on r1, r3 beats both.
ForwardBids == {Bid("r1", 6), Bid("r2", 7), Bid("r3", 9)}

\* A bid and one with an invalid amount.
OneGoodOneBad == {Bid("r1", 8), Bid("r0", 0)}

\* Engine processes are interchangeable.
EngineSymmetry == Permutations(Engines)
=============================================================================
