------------------------- MODULE PoolSubmissionSystem -------------------------
(***************************************************************************)
(* systems/pool_submission_system.rs: the loop that closes the submission  *)
(* window at the end of the minute, mines the best solution of the epoch,  *)
(* and starts the next epoch; the task it spawns with every transaction    *)
(* to start the next epoch as soon as the proof moves (the tracker); and   *)
(* the task it spawns for every finalized transaction, which announces the *)
(* success to the payout system.                                           *)
(*                                                                         *)
(* A loop that retries until it succeeds is its last, successful try; a    *)
(* call over RPC that fails is a step where the code goes on differently   *)
(* for it, and no step where the code only asks again.                     *)
(***************************************************************************)
EXTENDS PoolState

CONSTANTS
  MaxAttempts,   \* the 10 of "for i in 0..10"
  Trackers       \* bound: the slots for trackers that run at once

VARIABLES
  main,          \* the loop
  trackers,      \* the tracker tasks, by slot
  jobs,          \* the tasks that fetch a finalized transaction
  mineSuccess    \* the MessageInternalMineSuccess channel, all ever sent

ASSUME AttemptsAssumption == MaxAttempts \in Nat \ {0}

submissionVars == <<main, trackers, jobs, mineSuccess>>

MainPc == {"top", "peek", "close", "snap", "attempt", "stale", "build", "send",
           "finalize", "settle", "rpc", "setproof", "compare",
           "nonce", "ranges", "epoch", "window", "db"}

\* Which of its three copies of the reset the loop is in: after a failure,
\* with a proof it got over RPC, with a proof the websocket or a tracker wrote.
MainRoute == {"none", "discard", "rpc", "seen"}

TrackerPc == {"idle", "check", "read", "rpc", "setproof", "last",
              "nonce", "ranges", "epoch", "window", "db"}

MainType ==
  [pc : MainPc, route : MainRoute, old : Challenges, new : Challenges,
   sol : Solutions \cup {None}, subs : Submissions, i : 0..MaxAttempts,
   tx : {"none", "flight", "landed"}]

TrackerType ==
  [pc : TrackerPc, route : {"none", "rpc", "seen"}, old : Challenges,
   new : Challenges, stopped : BOOLEAN]

\* old is the challenge the success is announced for, mined the challenge that
\* the transaction really mined.
MessageType ==
  [old : Challenges, mined : Challenges, best : Solutions, subs : Submissions]

JobType == [pc : {"row", "send"}, msg : MessageType]

MainIdle ==
  [pc |-> "top", route |-> "none", old |-> 0, new |-> 0, sol |-> None,
   subs |-> NoSubmissions, i |-> 0, tx |-> "none"]

TrackerIdle ==
  [pc |-> "idle", route |-> "none", old |-> 0, new |-> 0, stopped |-> FALSE]

SubmissionTypeOK ==
  /\ main \in MainType
  /\ trackers \in [Trackers -> TrackerType]
  /\ jobs \subseteq JobType
  /\ mineSuccess \in Seq(MessageType)

SubmissionInit ==
  /\ main = MainIdle
  /\ trackers = [k \in Trackers |-> TrackerIdle]
  /\ jobs = {}
  /\ mineSuccess = <<>>

Goto(pc) == main' = [main EXCEPT !.pc = pc]
\* Mutant: after a failure only the window is opened again.
DiscardNothing == main' = [main EXCEPT !.pc = "window", !.route = "discard"]
Discard == main' = [main EXCEPT !.pc = "nonce", !.route = "discard"]
NextAttempt == main' = [main EXCEPT !.pc = "attempt", !.i = @ + 1]

-----------------------------------------------------------------------------
(* The loop: until the transaction is sent.                                 *)

\* The proof is read once per round; the round goes on when its minute is over.
ReadProof ==
  /\ main.pc = "top"
  /\ CutoffOf(proof) = 2
  /\ main' = [MainIdle EXCEPT !.pc = "peek", !.old = proof]
  /\ UNCHANGED <<trackers, jobs, mineSuccess, sharedVars>>

PeekBest ==
  /\ main.pc = "peek"
  /\ IF epoch.solution = None THEN main' = MainIdle ELSE Goto("close")
  /\ UNCHANGED <<trackers, jobs, mineSuccess, sharedVars>>

CloseForMining ==
  /\ main.pc = "close"
  /\ CloseWindow
  /\ Goto("snap")
  /\ UNCHANGED <<trackers, jobs, mineSuccess, clientVars, chainVars>>
  /\ UNCHANGED <<proof, lastChallenge, nonce, ranges, epoch, db>>

\* The best solution and the submissions, read once more and together.
Snapshot ==
  /\ main.pc = "snap"
  /\ main' = [main EXCEPT !.pc = "attempt", !.sol = epoch.solution,
                          !.subs = epoch.submissions]
  /\ UNCHANGED <<trackers, jobs, mineSuccess, sharedVars>>

OutOfAttempts ==
  /\ main.pc = "attempt"
  /\ main.i = MaxAttempts
  /\ Discard
  /\ UNCHANGED <<trackers, jobs, mineSuccess, sharedVars>>

\* "Solution is_some but got none on best hash re-check?"
AttemptWithNone ==
  /\ main.pc = "attempt"
  /\ main.i < MaxAttempts
  /\ main.sol = None
  /\ NextAttempt
  /\ UNCHANGED <<trackers, jobs, mineSuccess, sharedVars>>

\* The proof and the config are fetched: a solution that is not valid for the
\* fetched proof is given up.
FetchProof ==
  /\ main.pc = "attempt"
  /\ main.i < MaxAttempts
  /\ main.sol # None
  /\ IF main.sol.challenge = chain
     THEN Goto("build")
     ELSE main' = [main EXCEPT !.pc = "stale", !.new = chain]
  /\ UNCHANGED <<trackers, jobs, mineSuccess, sharedVars>>

\* Mutant: one attempt too many.
FetchFailsOnceMore ==
  /\ main.pc = "attempt"
  /\ main.sol # None
  /\ Goto("build")
  /\ UNCHANGED <<trackers, jobs, mineSuccess, sharedVars>>

\* Or they are not, and the attempt goes on without them.
FetchFails ==
  /\ main.pc = "attempt"
  /\ main.i < MaxAttempts
  /\ main.sol # None
  /\ Goto("build")
  /\ UNCHANGED <<trackers, jobs, mineSuccess, sharedVars>>

\* "Updating to latest proof.", then out of the attempts.
UpdateStaleProof ==
  /\ main.pc = "stale"
  /\ proof' = main.new
  /\ Discard
  /\ UNCHANGED <<trackers, jobs, mineSuccess, clientVars, chainVars>>
  /\ UNCHANGED <<lastChallenge, nonce, ranges, epoch, closed, db>>

NoBlockhash ==
  /\ main.pc = "build"
  /\ NextAttempt
  /\ UNCHANGED <<trackers, jobs, mineSuccess, sharedVars>>

\* The simulation reports the hash invalid for the proof on chain.
SimulationInvalid ==
  /\ main.pc = "build"
  /\ main.sol.challenge # chain
  /\ Discard
  /\ UNCHANGED <<trackers, jobs, mineSuccess, sharedVars>>

\* The simulation succeeds, or fails for some other reason, or is not answered.
SendTransaction ==
  /\ main.pc = "build"
  /\ main' = [main EXCEPT !.pc = "send", !.tx = "flight"]
  /\ UNCHANGED <<trackers, jobs, mineSuccess, sharedVars>>

\* External: the transaction lands, if its solution is still valid.
LandTransaction ==
  /\ main.pc = "send"
  /\ main.tx = "flight"
  /\ main.sol.challenge = chain
  /\ Advance
  /\ main' = [main EXCEPT !.tx = "landed"]
  /\ UNCHANGED <<trackers, jobs, mineSuccess, poolVars, clientVars>>

MayStillLand == main.tx = "flight" /\ main.sol.challenge = chain

\* send_and_confirm_transaction has failed four times, which it also does when
\* the confirmation is not seen: the transaction may have landed, or may still.
SendFails ==
  /\ main.pc = "send"
  /\ Discard
  /\ stray' = (stray \/ MayStillLand)
  /\ UNCHANGED <<trackers, jobs, mineSuccess, poolVars, clientVars>>
  /\ UNCHANGED <<chain, clock, notes>>

FreeSlots == {k \in Trackers : trackers[k].pc = "idle"}

\* Confirmed: the tracker is spawned and the wait for finality begins.
SendConfirmed ==
  /\ main.pc = "send"
  /\ main.tx = "landed"
  /\ FreeSlots # {}
  /\ trackers' = [trackers EXCEPT ![CHOOSE k \in FreeSlots : TRUE] =
                    [TrackerIdle EXCEPT !.pc = "check", !.old = main.old]]
  /\ Goto("finalize")
  /\ UNCHANGED <<jobs, mineSuccess, sharedVars>>

\* tx_message_sender.send(0): the tracker of this attempt; those of earlier
\* attempts have had theirs.
StopTrackers ==
  trackers' = [k \in Trackers |->
                 IF trackers[k].pc = "idle" THEN trackers[k]
                 ELSE [trackers[k] EXCEPT !.stopped = TRUE]]

Finalized ==
  /\ main.pc = "finalize"
  /\ StopTrackers
  /\ jobs' = jobs \cup
       {[pc |-> "row", msg |-> [old |-> main.old, mined |-> main.sol.challenge,
                                best |-> main.sol, subs |-> main.subs]]}
  /\ Goto("settle")
  /\ UNCHANGED <<mineSuccess, sharedVars>>

\* 200 seconds have passed, "Transaction Expired": the same solution is tried
\* again.
Expired ==
  /\ main.pc = "finalize"
  /\ StopTrackers
  /\ NextAttempt
  /\ UNCHANGED <<jobs, mineSuccess, sharedVars>>

-----------------------------------------------------------------------------
(* The loop: after success, until the next epoch has begun.                 *)

\* Mutant: the loop waits for the websocket and never asks over RPC.
WaitForWebsocket ==
  /\ main.pc = "settle"
  /\ proof # main.old
  /\ main' = [main EXCEPT !.pc = "compare", !.new = proof]
  /\ UNCHANGED <<trackers, jobs, mineSuccess, sharedVars>>

CheckProof ==
  /\ main.pc = "settle"
  /\ main' = IF proof = main.old
             THEN [main EXCEPT !.pc = "rpc"]
             ELSE [main EXCEPT !.pc = "compare", !.new = proof]
  /\ UNCHANGED <<trackers, jobs, mineSuccess, sharedVars>>

FetchNewProof ==
  /\ main.pc = "rpc"
  /\ main' = IF chain = main.old
             THEN [main EXCEPT !.pc = "settle"]
             ELSE [main EXCEPT !.pc = "setproof", !.route = "rpc",
                               !.new = chain]
  /\ UNCHANGED <<trackers, jobs, mineSuccess, sharedVars>>

FetchNewProofFails ==
  /\ main.pc = "rpc"
  /\ Goto("settle")
  /\ UNCHANGED <<trackers, jobs, mineSuccess, sharedVars>>

SetProof ==
  /\ main.pc = "setproof"
  /\ proof' = main.new
  /\ Goto("nonce")
  /\ UNCHANGED <<trackers, jobs, mineSuccess, clientVars, chainVars>>
  /\ UNCHANGED <<lastChallenge, nonce, ranges, epoch, closed, db>>

\* "Epoch hashes challenge already up to date!" ends the round.
CompareEpoch ==
  /\ main.pc = "compare"
  /\ main' = IF epoch.challenge = main.new
             THEN MainIdle
             ELSE [main EXCEPT !.pc = "nonce", !.route = "seen"]
  /\ UNCHANGED <<trackers, jobs, mineSuccess, sharedVars>>

MainResetNonce ==
  /\ main.pc = "nonce"
  /\ ResetNonce
  /\ Goto("ranges")
  /\ UNCHANGED <<trackers, jobs, mineSuccess, clientVars, chainVars>>
  /\ UNCHANGED <<proof, lastChallenge, ranges, epoch, closed, db>>

MainResetRanges ==
  /\ main.pc = "ranges"
  /\ ResetRanges
  /\ Goto("epoch")
  /\ UNCHANGED <<trackers, jobs, mineSuccess, clientVars, chainVars>>
  /\ UNCHANGED <<proof, lastChallenge, nonce, epoch, closed, db>>

\* After a failure the challenge of the epoch stays what it was.
MainResetEpoch ==
  /\ main.pc = "epoch"
  /\ ResetEpoch(IF main.route = "discard" THEN epoch.challenge ELSE main.new)
  /\ Goto("window")
  /\ UNCHANGED <<trackers, jobs, mineSuccess, clientVars, chainVars>>
  /\ UNCHANGED <<proof, lastChallenge, nonce, ranges, closed, db>>

\* Mutant: the window stays closed after a failure.
OpenWindowAfterSuccess ==
  /\ main.pc = "window"
  /\ IF main.route = "discard"
     THEN main' = MainIdle /\ UNCHANGED closed
     ELSE Goto("db") /\ OpenWindow
  /\ UNCHANGED <<trackers, jobs, mineSuccess, clientVars, chainVars>>
  /\ UNCHANGED <<proof, lastChallenge, nonce, ranges, epoch, db>>

MainOpenWindow ==
  /\ main.pc = "window"
  /\ OpenWindow
  /\ IF main.route = "discard" THEN main' = MainIdle ELSE Goto("db")
  /\ UNCHANGED <<trackers, jobs, mineSuccess, clientVars, chainVars>>
  /\ UNCHANGED <<proof, lastChallenge, nonce, ranges, epoch, db>>

\* With the proof it got over RPC the loop inserts latest_proof, which is the
\* proof it had read before and equals old_proof.
MainAddChallenge ==
  /\ main.pc = "db"
  /\ AddChallenge(IF main.route = "rpc" THEN main.old ELSE main.new)
  /\ main' = MainIdle
  /\ UNCHANGED <<trackers, jobs, mineSuccess, clientVars, chainVars>>
  /\ UNCHANGED <<proof, lastChallenge, nonce, ranges, epoch, closed>>

MainNext ==
  \/ ReadProof \/ PeekBest \/ CloseForMining \/ Snapshot \/ OutOfAttempts
  \/ AttemptWithNone \/ FetchProof \/ FetchFails \/ UpdateStaleProof
  \/ NoBlockhash \/ SimulationInvalid \/ SendTransaction
  \/ SendFails \/ SendConfirmed \/ Finalized \/ Expired
  \/ CheckProof \/ FetchNewProof \/ FetchNewProofFails \/ SetProof
  \/ CompareEpoch \/ MainResetNonce \/ MainResetRanges \/ MainResetEpoch
  \/ MainOpenWindow \/ MainAddChallenge

-----------------------------------------------------------------------------
(* The tracker in slot k.  It does its steps in one of two orders: with a   *)
(* proof it got over RPC the row is inserted last, with a proof it finds    *)
(* already written the row is inserted first.                               *)

TrackerGoto(k, pc) == trackers' = [trackers EXCEPT ![k].pc = pc]
TrackerEnds(k) == trackers' = [trackers EXCEPT ![k] = TrackerIdle]

\* stop_reciever.try_recv
TrackerCheck(k) ==
  /\ trackers[k].pc = "check"
  /\ IF trackers[k].stopped THEN TrackerEnds(k) ELSE TrackerGoto(k, "read")
  /\ UNCHANGED <<main, jobs, mineSuccess, sharedVars>>

TrackerRead(k) ==
  /\ trackers[k].pc = "read"
  /\ IF proof = trackers[k].old
     THEN TrackerGoto(k, "rpc")
     ELSE trackers' = [trackers EXCEPT ![k].pc = "last", ![k].route = "seen",
                                       ![k].new = proof]
  /\ UNCHANGED <<main, jobs, mineSuccess, sharedVars>>

TrackerFetch(k) ==
  /\ trackers[k].pc = "rpc"
  /\ IF chain = trackers[k].old
     THEN TrackerGoto(k, "check")
     ELSE trackers' = [trackers EXCEPT ![k].pc = "setproof", ![k].route = "rpc",
                                       ![k].new = chain]
  /\ UNCHANGED <<main, jobs, mineSuccess, sharedVars>>

TrackerFetchFails(k) ==
  /\ trackers[k].pc = "rpc"
  /\ TrackerGoto(k, "check")
  /\ UNCHANGED <<main, jobs, mineSuccess, sharedVars>>

TrackerSetProof(k) ==
  /\ trackers[k].pc = "setproof"
  /\ proof' = trackers[k].new
  /\ TrackerGoto(k, "last")
  /\ UNCHANGED <<main, jobs, mineSuccess, clientVars, chainVars>>
  /\ UNCHANGED <<lastChallenge, nonce, ranges, epoch, closed, db>>

\* Mutant: the new challenge is recorded as the last one.
TrackerSetLastToNew(k) ==
  /\ trackers[k].pc = "last"
  /\ lastChallenge' = trackers[k].new
  /\ TrackerGoto(k, IF trackers[k].route = "rpc" THEN "nonce" ELSE "db")
  /\ UNCHANGED <<main, jobs, mineSuccess, clientVars, chainVars>>
  /\ UNCHANGED <<proof, nonce, ranges, epoch, closed, db>>

TrackerSetLast(k) ==
  /\ trackers[k].pc = "last"
  /\ lastChallenge' = trackers[k].old
  /\ TrackerGoto(k, IF trackers[k].route = "rpc" THEN "nonce" ELSE "db")
  /\ UNCHANGED <<main, jobs, mineSuccess, clientVars, chainVars>>
  /\ UNCHANGED <<proof, nonce, ranges, epoch, closed, db>>

TrackerResetNonce(k) ==
  /\ trackers[k].pc = "nonce"
  /\ ResetNonce
  /\ TrackerGoto(k, "ranges")
  /\ UNCHANGED <<main, jobs, mineSuccess, clientVars, chainVars>>
  /\ UNCHANGED <<proof, lastChallenge, ranges, epoch, closed, db>>

TrackerResetRanges(k) ==
  /\ trackers[k].pc = "ranges"
  /\ ResetRanges
  /\ TrackerGoto(k, "epoch")
  /\ UNCHANGED <<main, jobs, mineSuccess, clientVars, chainVars>>
  /\ UNCHANGED <<proof, lastChallenge, nonce, epoch, closed, db>>

TrackerResetEpoch(k) ==
  /\ trackers[k].pc = "epoch"
  /\ ResetEpoch(trackers[k].new)
  /\ TrackerGoto(k, "window")
  /\ UNCHANGED <<main, jobs, mineSuccess, clientVars, chainVars>>
  /\ UNCHANGED <<proof, lastChallenge, nonce, ranges, closed, db>>

TrackerOpenWindow(k) ==
  /\ trackers[k].pc = "window"
  /\ OpenWindow
  /\ IF trackers[k].route = "rpc" THEN TrackerGoto(k, "db") ELSE TrackerEnds(k)
  /\ UNCHANGED <<main, jobs, mineSuccess, clientVars, chainVars>>
  /\ UNCHANGED <<proof, lastChallenge, nonce, ranges, epoch, db>>

TrackerAddChallenge(k) ==
  /\ trackers[k].pc = "db"
  /\ AddChallenge(trackers[k].new)
  /\ IF trackers[k].route = "rpc" THEN TrackerEnds(k) ELSE TrackerGoto(k, "nonce")
  /\ UNCHANGED <<main, jobs, mineSuccess, clientVars, chainVars>>
  /\ UNCHANGED <<proof, lastChallenge, nonce, ranges, epoch, closed>>

TrackerNext(k) ==
  \/ TrackerCheck(k) \/ TrackerRead(k) \/ TrackerFetch(k) \/ TrackerFetchFails(k)
  \/ TrackerSetProof(k) \/ TrackerSetLast(k) \/ TrackerResetNonce(k)
  \/ TrackerResetRanges(k) \/ TrackerResetEpoch(k) \/ TrackerOpenWindow(k)
  \/ TrackerAddChallenge(k)

-----------------------------------------------------------------------------
(* The task of one finalized transaction.                                   *)

\* The row of the challenge is found, or inserted and found.
JobFindsRow(j) ==
  /\ j.pc = "row"
  /\ AddChallenge(j.msg.old)
  /\ jobs' = (jobs \ {j}) \cup {[j EXCEPT !.pc = "send"]}
  /\ UNCHANGED <<main, trackers, mineSuccess, clientVars, chainVars>>
  /\ UNCHANGED <<proof, lastChallenge, nonce, ranges, epoch, closed>>

\* Mutant: the task looks the transaction up again after it has announced it.
JobSendsAndGoesOn(j) ==
  /\ j.pc = "send"
  /\ mineSuccess' = Append(mineSuccess, j.msg)
  /\ jobs' = (jobs \ {j}) \cup {[j EXCEPT !.pc = "row"]}
  /\ UNCHANGED <<main, trackers, sharedVars>>

JobSends(j) ==
  /\ j.pc = "send"
  /\ mineSuccess' = Append(mineSuccess, j.msg)
  /\ jobs' = jobs \ {j}
  /\ UNCHANGED <<main, trackers, sharedVars>>

\* "Failed get MineEvent data from transaction": nothing is announced.
JobGivesUp(j) ==
  /\ j.pc = "row"
  /\ jobs' = jobs \ {j}
  /\ UNCHANGED <<main, trackers, mineSuccess, sharedVars>>

JobNext == \E j \in jobs : JobFindsRow(j) \/ JobSends(j) \/ JobGivesUp(j)

\* The process ends: a transaction it has sent may still land, and a success
\* not announced yet never is.
SubmissionRestart ==
  /\ stray' = (stray \/ (main.pc = "send" /\ MayStillLand))
  /\ main' = MainIdle
  /\ trackers' = [k \in Trackers |-> TrackerIdle]
  /\ jobs' = {}
  /\ UNCHANGED mineSuccess

SubmissionNext ==
  MainNext \/ LandTransaction \/ (\E k \in Trackers : TrackerNext(k)) \/ JobNext
=============================================================================
