------------------------- MODULE ProofTrackingSystem -------------------------
(***************************************************************************)
(* systems/proof_tracking_system.rs: a websocket subscription to the       *)
(* pool's proof account.  A notification is compared with last_challenge   *)
(* under one lock and written to proof under another.                      *)
(***************************************************************************)
EXTENDS PoolState

VARIABLE ws  \* [pc, new]: what the loop is about to do, with which proof

wsVars == <<ws>>

WsIdle == [pc |-> "next", new |-> 0]

WsTypeOK == ws \in [pc : {"next", "write"}, new : Challenges]

WsInit == ws = WsIdle

\* account_sub_notifications.next(), then the comparison with last_challenge.
WsReceive ==
  /\ ws.pc = "next"
  /\ notes # <<>>
  /\ notes' = Tail(notes)
  /\ ws' = IF Head(notes) = lastChallenge
           THEN ws
           ELSE [pc |-> "write", new |-> Head(notes)]
  /\ UNCHANGED <<poolVars, clientVars, chain, clock, stray>>

WsWrite ==
  /\ ws.pc = "write"
  /\ proof' = ws.new
  /\ ws' = WsIdle
  /\ UNCHANGED <<lastChallenge, nonce, ranges, epoch, closed, db>>
  /\ UNCHANGED <<clientVars, chainVars>>

\* The stream ends and the loop subscribes again: what was in flight is lost,
\* and the new subscription starts silent.
WsReconnect ==
  /\ ws.pc = "next"
  /\ notes # <<>>
  /\ notes' = <<>>
  /\ UNCHANGED <<poolVars, clientVars, chain, clock, stray, ws>>

WsNext == WsReceive \/ WsWrite \/ WsReconnect
=============================================================================
