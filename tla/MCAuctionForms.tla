---------------------------- MODULE MCAuctionForms ----------------------------
(* Values for the constants of AuctionForms. *)
EXTENDS AuctionForms

Nothing == [f \in Fields |-> {}]

\* One value per input that matters, and for each check one that it refuses:
\* starts of minute 3 fail the lead time from minute 1 on, ends of minute 7 the
\* five minutes, the price 0 the server's validation.
FormEntries ==
    [shipment |-> [Nothing EXCEPT !["title"] = {1}, !["place"] = {1}, !["at"] = {1},
                                  !["pickup"] = {1}, !["start"] = {3}, !["end"] = {7},
                                  !["price"] = {0, 5}],
     forward  |-> [Nothing EXCEPT !["title"] = {1}, !["place"] = {1}, !["end"] = {5, 6},
                                  !["price"] = {0, 5}],
     auction  |-> [Nothing EXCEPT !["title"] = {1}, !["type"] = {REVERSE, FORWARD},
                                  !["start"] = {1}, !["end"] = {5, 6}, !["price"] = {5},
                                  !["reserve"] = {4, 6}],
     listing  |-> [Nothing EXCEPT !["title"] = {1}, !["type"] = {REVERSE, FORWARD},
                                  !["price"] = {5, 6}, !["reserve"] = {6}]]
===============================================================================
