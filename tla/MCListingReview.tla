--------------------------- MODULE MCListingReview ---------------------------
(* The instances of ListingReview. *)
EXTENDS ListingReview, TLC

\* Administrators are interchangeable.
AdminSymmetry == Permutations(Admins)
===============================================================================
