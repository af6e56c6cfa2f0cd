------------------------ MODULE MCSessionSecurity --------------------------
(***************************************************************************)
(* Instances of SessionSecurity for TLC.  Users are interchangeable, and   *)
(* so are device ids: no action and no invariant tells one from another.   *)
(***************************************************************************)
EXTENDS SessionSecurity, TLC

CONSTANTS trader, analyst, web, lab

Symmetry == Permutations(Users) \cup Permutations(Devices)
=============================================================================
