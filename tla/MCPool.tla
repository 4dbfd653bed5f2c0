-------------------------------- MODULE MCPool --------------------------------
(* Instances of Pool for TLC. *)
EXTENDS Pool

CONSTANT c1

OneConn == {c1}
\* Bounds of a run: no connection is lost, each is given work once, after which
\* it does not become ready again, and no round starts with the last challenge.
WorkOnce ==
  /\ gone = {}
  /\ main.old < MaxChallenge
  /\ \A c \in Conns : work[c] # None => ready = {} /\ rdy = RdyIdle
===============================================================================
