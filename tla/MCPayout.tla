------------------------------ MODULE MCPayout ------------------------------
(* Instances of Payout for TLC. *)
EXTENDS Payout

CONSTANTS c1, c2, c3, m1, m2

TwoConns == {c1, c2}
ThreeConns == {c1, c2, c3}
TwoMiners == {m1, m2}
\* All connections are of one miner, the commission goes to another.
BothOfOne == [u \in TwoConns |-> m1]
AllOfOne == [u \in ThreeConns |-> m1]
\* Challenges that both have worked for, and that one has mined alone.
Both == [u \in TwoConns |-> IF u = c1 THEN 1 ELSE 2]
Alone(u) == [v \in {u} |-> 1]
BothOrOne == {Both, Alone(c1), Alone(c2)}
\* A challenge that c1 has mined with a connection of too long a name.
BothOrLong == {Both, Alone(c2), [u \in {c1, c3} |-> 1]}
=============================================================================
