------------------------------ MODULE MCAuthTx ------------------------------
(***************************************************************************)
(* Instances of AuthTx for TLC.                                            *)
(***************************************************************************)
EXTENDS AuthTx

CONSTANTS u1, d1, d2, e1, e2
=============================================================================
