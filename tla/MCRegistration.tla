---------------------------- MODULE MCRegistration ----------------------------
(* The instances of Registration: an auction page and a dashboard card. *)
EXTENDS Registration
===============================================================================
