--------------------------- MODULE MCFinalization ---------------------------
(* Values for the constants of Finalization. *)
EXTENDS Finalization

Bid(id, amount) == [id |-> id, amount |-> amount]

\* From 4 with a step of 2 and a reserve of 7: b1 improves but misses the
\* reserve, b2 improves on it and meets the reserve.
ForwardBids == {Bid("b1", 6), Bid("b2", 8)}

\* From 10 with a step of 2: both improve, b2 on b1.
ReverseBids == {Bid("b1", 8), Bid("b2", 5)}
=============================================================================
