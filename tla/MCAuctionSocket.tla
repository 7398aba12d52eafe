--------------------------- MODULE MCAuctionSocket ---------------------------
(* The instances of AuctionSocket. *)
EXTENDS AuctionSocket
===============================================================================
