----------------------------- MODULE MCTrading -----------------------------
(***************************************************************************)
(* Instances of AuditTrail, and with it of Trading, for TLC.  At 10,000    *)
(* won a share takes one tick of 50 won of slippage, two shares reach      *)
(* HighAmount and take two ticks; at 10 won a sale sits on the floor of    *)
(* one tick.  20,100 won pays for two orders of one share at 10,000        *)
(* exactly, slippage included, for one order of two shares at the quote    *)
(* only.                                                                   *)
(***************************************************************************)
EXTENDS AuditTrail

CONSTANTS u1, s1

OneUserCash == [u \in {u1} |-> 20100]

\* A session whose orders the controls let through.
TrustedView ==
    {[trust |-> "TRUSTED", strength |-> "PASSWORD_PLUS_DEVICE", highRisk |-> FALSE]}

AllViews == SessionViews
=============================================================================
