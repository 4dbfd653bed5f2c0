--------------------------------- MODULE Pool ---------------------------------
(***************************************************************************)
(* The systems main.rs spawns around one challenge of the pool, running    *)
(* side by side over the state they share: proof tracking, the handling of *)
(* client messages, the handing out of work and the submission of the best *)
(* solution.  A step of one of them is one acquisition of one lock.        *)
(***************************************************************************)
EXTENDS Settlement, HandleReadyClientsSystem

vars == <<settlementVars, readyVars>>

TypeOK == SettlementTypeOK /\ ReadyTypeOK

Init == SettlementInit /\ ReadyInit

ChainNext == Tick \/ LandStray \/ TouchProof

Restart ==
  /\ SettlementRestart
  /\ rdy' = RdyIdle
  /\ sends' = {}

Next ==
  \/ Restart
  \/ ChainNext /\ UNCHANGED <<wsVars, handlerVars, readyVars, submissionVars>>
  \/ WsNext /\ UNCHANGED <<handlerVars, readyVars, submissionVars>>
  \/ HandlerNext /\ UNCHANGED <<wsVars, readyVars, submissionVars>>
  \/ ReadyNext /\ UNCHANGED <<wsVars, handlerVars, submissionVars>>
  \/ SubmissionNext /\ UNCHANGED <<wsVars, handlerVars, readyVars>>

Spec == Init /\ [][Next]_vars

-----------------------------------------------------------------------------
(* Settlement is what Pool does to the epoch and to the proof: handing out   *)
(* work and checking a solution are internal to it, and the moment at which  *)
(* a task finds its solution valid is the moment at which it arrives.        *)

Abstract == INSTANCE Settlement WITH
  nonce <- 0,
  ranges <- NoRanges,
  ready <- {},
  online <- {},
  gone <- {},
  work <- [c \in Conns |-> None],
  tasks <- {t \in tasks : t.pc \in {"read", "write"}}

\* Every behaviour of Pool is one of Settlement, so what holds there of the
\* epoch, the window, the proof and the announcements holds in Pool.
RefinesSettlement == Abstract!SettlementSpec

-----------------------------------------------------------------------------
(* What the program's own messages say, and does not hold.                  *)

\* pool_submission_system.rs:301 and :734: "Add new db challenge, reset
\* epoch_hashes, and open the submission window", "New challenge successfully
\* added to db": between rounds, the challenge of the epoch has its row.
EpochChallengeHasRow ==
  main.pc = "top" /\ (\A k \in Trackers : trackers[k].pc = "idle")
    => epoch.challenge \in db

\* pool_submission_system.rs:836: "Failed to send tx. Discarding and refreshing
\* data.": what is discarded was not sent, let alone paid by the chain.
DiscardedWasNotMined == main.route = "discard" => main.tx # "landed"
=============================================================================
