---------------------------- MODULE MCAuctionRoom ----------------------------
(* The instances of AuctionRoom. *)
EXTENDS AuctionRoom
===============================================================================
