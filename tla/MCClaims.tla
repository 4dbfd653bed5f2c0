------------------------------- MODULE MCClaims -------------------------------
(* Instances of ClaimSystem for TLC. *)
EXTENDS ClaimSystem

CONSTANTS m1, m2

OneMiner == {m1}
TwoMiners == {m1, m2}
=============================================================================
