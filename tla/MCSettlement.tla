----------------------------- MODULE MCSettlement -----------------------------
(* Instances of Settlement for TLC. *)
EXTENDS Settlement

CONSTANTS c1, c2

OneConn == {c1}
TwoConns == {c1, c2}

(* Bounds of a run: several clients, solutions of several difficulties and   *)
(* the websocket until the chain first moves, with the rounds that fail      *)
(* there, and until what moved it is announced; from then on one solution at *)
(* a time, over RPC alone.                                                   *)
Solo ==
  /\ Cardinality(tasks) <= 1
  /\ \A t \in tasks : t.conn = c1 /\ t.sol.diff = MinDiff
  /\ epoch.submissions[c2] = None /\ main.subs[c2] = None
  /\ \A m \in Announced : m.subs[c2] = None /\ m.best.diff = MinDiff
  /\ \A s \in {epoch.submissions[c1], main.subs[c1], epoch.solution, main.sol} :
       s = None \/ s.diff = MinDiff
NoNotes == ws = WsIdle /\ notes = <<>>
ToAnnounce ==
  /\ chain = 2 /\ main.tx = "landed" /\ main.i = 0 /\ tasks = {}
  /\ main.pc \in {"send", "finalize", "settle"}
Part == chain = 1 \/ (NoNotes /\ (Solo \/ ToAnnounce))
==============================================================================
