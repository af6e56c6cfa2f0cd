------------------------------- MODULE MCLab -------------------------------
(***************************************************************************)
(* Instances of Lab for TLC.  Amounts are multiples of 250,000 won, the    *)
(* average order; a tick outlasts the window for peers.                    *)
(***************************************************************************)
EXTENDS Lab

CONSTANT d1
=============================================================================
