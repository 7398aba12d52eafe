------------------------------- MODULE BidRule -------------------------------
(***************************************************************************)
(* The pricing rule of an auction: which bid improves the current price,   *)
(* which of a set of accepted bids ranks first, and whether the first one  *)
(* wins.  apps/auction-engine/src/types.rs, actor/runtime.rs, ledger.rs.   *)
(*                                                                         *)
(* Money is f64 in the code.  The rule only compares sums and differences  *)
(* of finite positive values, so amounts are naturals here; an amount of 0 *)
(* stands for every value the code refuses (zero, negative, NaN, infinite).*)
(***************************************************************************)
EXTENDS Integers, Sequences

AuctionTypes == {"REVERSE", "FORWARD"}

\* is_better_bid: the amount beats the current price by at least the step.
is_better_bid(auction_type, current_price, amount, minimum_bid_step) ==
    /\ amount > 0
    /\ minimum_bid_step > 0
    /\ \/ auction_type = "REVERSE" /\ amount <= current_price - minimum_bid_step
       \/ auction_type = "FORWARD" /\ amount >= current_price + minimum_bid_step

\* An amount that ranks no worse than another in the accepted-bid sorted set:
\* ZRANGE 0 0 reads the lowest score, ZREVRANGE 0 0 the highest.
RanksFirst(auction_type, a, b) ==
    IF auction_type = "REVERSE" THEN a <= b ELSE a >= b

\* The member ZRANGE / ZREVRANGE 0 0 returns from a non-empty sorted set.
BestBid(auction_type, bids) ==
    CHOOSE d \in bids : \A x \in bids : RanksFirst(auction_type, d.amount, x.amount)

\* The forward reserve: a best bid below it does not win (0 is "no reserve").
MeetsReserve(auction_type, reserve_price, amount) ==
    auction_type = "FORWARD" => amount >= reserve_price
=============================================================================
