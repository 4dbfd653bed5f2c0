--------------------------- MODULE MCConnections ---------------------------
(* Instance of Connections for TLC: two connections, of two miners, that    *)
(* come from one address.                                                   *)
EXTENDS Connections

CONSTANTS u1, u2, m1, m2

TwoConns == {u1, u2}
TwoMiners == {m1, m2}
OneEach == [u \in TwoConns |-> IF u = u1 THEN m1 ELSE m2]
=============================================================================
