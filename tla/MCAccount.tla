------------------------------ MODULE MCAccount ------------------------------
(* Two tabs, both at the sign-up page or one of them at the sign-in page.   *)
EXTENDS Account, TLC

CONSTANTS t1, t2

MCTabs == {t1, t2}
MCStarts == {t1 :> "signup" @@ t2 :> "signup", t1 :> "signup" @@ t2 :> "login"}
=============================================================================
