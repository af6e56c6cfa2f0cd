----------------------------- MODULE MCDashboard -----------------------------
(***************************************************************************)
(* Instances of Dashboard for TLC: an administrator and a trader sign in   *)
(* on the same tab, one after the other in either order.                   *)
(***************************************************************************)
EXTENDS Dashboard

CONSTANTS admin, trader, t1, t2

OneEach == [t \in Tokens |-> IF t = t1 THEN admin ELSE trader]
=============================================================================
