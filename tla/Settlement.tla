------------------------------ MODULE Settlement ------------------------------
(***************************************************************************)
(* Pool as the submission loop and its trackers see it: how work is handed *)
(* out and how a solution is checked is left open, and a solution arrives  *)
(* at some moment at which it is valid for the proof.                      *)
(***************************************************************************)
EXTENDS ProofTrackingSystem, ClientMessageHandlerSystem, PoolSubmissionSystem

settlementVars == <<sharedVars, wsVars, handlerVars, submissionVars>>

SettlementTypeOK ==
  SharedTypeOK /\ WsTypeOK /\ HandlerTypeOK /\ SubmissionTypeOK

SettlementInit == SharedInit /\ WsInit /\ HandlerInit /\ SubmissionInit

\* A BestSolution task has found its solution valid, whatever it has found
\* before: the solution was computed for the challenge that is now in proof.
Arrive(c) ==
  /\ Cardinality(tasks) < MaxTasks
  /\ \E b \in Blocks, d \in Diffs :
       /\ d >= MinDiff
       /\ tasks' = tasks \cup
            {[pc |-> "read", conn |-> c,
              sol |-> [challenge |-> proof, block |-> b, diff |-> d]]}
  /\ UNCHANGED sharedVars

ArrivalNext ==
  \/ \E c \in Conns : Arrive(c)
  \/ \E t \in tasks : ReadEpoch(t) \/ WriteEpoch(t)

SettlementRestart ==
  /\ SharedRestart
  /\ SubmissionRestart
  /\ ws' = WsIdle
  /\ tasks' = {}

SettlementNext ==
  \/ SettlementRestart
  \/ (Tick \/ LandStray \/ TouchProof)
       /\ UNCHANGED <<wsVars, handlerVars, submissionVars>>
  \/ WsNext /\ UNCHANGED <<handlerVars, submissionVars>>
  \/ ArrivalNext /\ UNCHANGED <<wsVars, submissionVars>>
  \/ SubmissionNext /\ UNCHANGED <<wsVars, handlerVars>>

SettlementSpec == SettlementInit /\ [][SettlementNext]_settlementVars

(* tokio runs every spawned task, and time passes.  The loop asks for the    *)
(* proof until it gets one, and the RPC node does not refuse it for ever.   *)
(* Nothing is assumed of the clients, of the chain or of the websocket.     *)
SettlementFairness ==
  /\ WF_settlementVars(MainNext /\ UNCHANGED <<wsVars, handlerVars>>)
  /\ SF_settlementVars(FetchNewProof /\ UNCHANGED <<wsVars, handlerVars>>)
  /\ \A k \in Trackers :
       WF_settlementVars(TrackerNext(k) /\ UNCHANGED <<wsVars, handlerVars>>)
  /\ WF_settlementVars(Tick /\ UNCHANGED <<wsVars, handlerVars, submissionVars>>)

FairSettlementSpec == SettlementSpec /\ SettlementFairness

-----------------------------------------------------------------------------
(* Safety.                                                                  *)

\* The table of an epoch hangs together whatever tasks, loop and trackers do
\* to it: no submission is worth more than the best hash, and there is a best
\* hash exactly while there is a submission.
\* (client_message_handler_system.rs:143-181, the resets of
\* pool_submission_system.rs.)
EpochIsConsistent == EpochConsistent(epoch)

\* A success is announced with a table the reward can be shared by, although
\* the best hash and the submissions are read long after the loop saw that there
\* was a best hash: pool_mine_success_system.rs:74-80 divides by the sum of the
\* submissions' hashpower, which client_message_handler_system.rs:131 has
\* computed from how far each is above MIN_DIFF; and the solution that was mined
\* is the best of them.
CanBeShared(best, subs) ==
  /\ subs # NoSubmissions
  /\ \A c \in Conns : subs[c] # None =>
       subs[c].diff >= MinDiff /\ subs[c].diff <= best.diff

AnnouncementHasWork ==
  /\ \A n \in 1..Len(mineSuccess) :
       CanBeShared(mineSuccess[n].best, mineSuccess[n].subs)
  /\ \A j \in jobs : CanBeShared(j.msg.best, j.msg.subs)

\* Whoever waits for a closed window waits for somebody: the loop is on a path
\* on which it opens the window, or a tracker is about to open it, or there is
\* a best hash, which starts a round of the loop.  Without one of the three no
\* task would ever open it, and no solution could start a round.
MainWillOpen ==
  \/ main.pc \in {"snap", "stale", "setproof",
                  "nonce", "ranges", "epoch", "window"}
  \/ main.pc = "attempt" /\ main.sol = None

ClosedWindowHasOpener ==
  closed => \/ MainWillOpen
            \/ epoch.solution # None
            \/ \E k \in Trackers : trackers[k].pc = "window"

\* Rewards are announced at most once for a challenge the chain has paid, and
\* never for one it has not: neither a retried attempt nor an abandoned
\* transaction that lands after all announces anything of its own.
Announced == {mineSuccess[n] : n \in 1..Len(mineSuccess)} \cup {j.msg : j \in jobs}

AnnouncedOnce ==
  /\ \A m \in Announced : m.mined < chain
  /\ \A m, n \in 1..Len(mineSuccess) :
       m # n => mineSuccess[m].mined # mineSuccess[n].mined
  /\ \A j \in jobs : \A n \in 1..Len(mineSuccess) :
       mineSuccess[n].mined # j.msg.mined
  /\ \A i, j \in jobs : i # j => i.msg.mined # j.msg.mined

\* Nothing the server believes, records or is about to write names a challenge
\* that the chain has not reached, however late or early the websocket, the RPC
\* node and the trackers bring it.
NothingFromTheFuture ==
  /\ proof <= chain /\ epoch.challenge <= chain /\ lastChallenge < chain
  /\ \A ch \in db : ch <= chain
  /\ \A m \in Announced : m.old <= chain

-----------------------------------------------------------------------------
(* Liveness.                                                                *)

\* A round of the loop ends: it neither waits for ever for the proof to move
\* nor tries the same solution for ever.
RoundEnds == main.pc # "top" ~> main.pc = "top"

\* A closed window opens again.
WindowReopens == closed ~> ~closed

\* A best hash does not stay in the table for ever: it is mined, or discarded.
BestIsSettled == epoch.solution # None ~> epoch.solution = None
=============================================================================
