---------------------------- MODULE MCGuardSpending ----------------------------
(* Small instances of GuardSpending for TLC. *)
EXTENDS GuardSpending, TLC

CONSTANTS r1, r2, upgrade, navigation, h1, h2

\* An upgrade and the navigation of another session.
KindOf == r1 :> upgrade @@ r2 :> navigation
SessionOf == r1 :> h1 @@ r2 :> h2
===============================================================================
