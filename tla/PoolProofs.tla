------------------------------ MODULE PoolProofs ------------------------------
(***************************************************************************)
(* The safety theorems of Pool, for every set of connections and trackers  *)
(* and every value of the bounds.                                          *)
(***************************************************************************)
EXTENDS PoolTypeProofs

-----------------------------------------------------------------------------
(* The table of the epoch.                                                  *)

\* Only a validated task, the loop, a tracker and a restart write the table.
LEMMA EpochWriters ==
  ASSUME Next
  PROVE  \/ epoch' = epoch
         \/ Restart
         \/ \E t \in tasks : WriteEpoch(t)
         \/ MainResetEpoch
         \/ \E k \in Trackers : TrackerResetEpoch(k)
<1> USE DEF sharedVars, poolVars, clientVars, chainVars
<1>1. CASE ChainNext \/ WsNext
  BY <1>1 DEF ChainNext, Tick, LandStray, TouchProof, WsNext, WsReceive,
     WsWrite, WsReconnect
<1>2. CASE HandlerNext
  BY <1>2 DEF HandlerNext, Connect, Disconnect, BecomeReady, Submit, TaskStep,
     CheckWindow, CheckRange, CheckSolution, ReadEpoch
<1>3. CASE ReadyNext
  BY <1>3 DEF ReadyNext, ReadyLoop, Poll, CheckBest, CheckClosed, ReadChallenge,
     Remove, Pick, Give, SendStep, SendMessage, ReadRanges, WriteRanges
<1>4. CASE MainNext \/ LandTransaction
  BY <1>4 DEF MainNext, LandTransaction, ReadProof, PeekBest, CloseForMining,
     Snapshot, OutOfAttempts, AttemptWithNone, FetchProof, FetchFails,
     UpdateStaleProof, NoBlockhash, SimulationInvalid, SendTransaction,
     SendFails, SendConfirmed, Finalized, Expired, CheckProof, FetchNewProof,
     FetchNewProofFails, SetProof, CompareEpoch, MainResetNonce,
     MainResetRanges, MainOpenWindow, MainAddChallenge
<1>5. CASE \E k \in Trackers : TrackerNext(k)
  BY <1>5 DEF TrackerNext, TrackerCheck, TrackerRead, TrackerFetch,
     TrackerFetchFails, TrackerSetProof, TrackerSetLast, TrackerResetNonce,
     TrackerResetRanges, TrackerOpenWindow, TrackerAddChallenge
<1>6. CASE JobNext
  BY <1>6 DEF JobNext, JobFindsRow, JobSends, JobGivesUp
<1>7. QED
  BY <1>1, <1>2, <1>3, <1>4, <1>5, <1>6 DEF Next, SubmissionNext

\* Past the check of the solution a task carries one of at least MinDiff.
TasksWorth ==
  \A t \in tasks : t.pc \in {"read", "write"} => t.sol.diff >= MinDiff

LEMMA TasksWorthKept ==
  ASSUME HandlerTypeOK, TasksWorth, Next
  PROVE  TasksWorth'
<1>1. CASE HandlerNext
  <2>1. ASSUME NEW c \in Conns,
               Connect(c) \/ Disconnect(c) \/ BecomeReady(c) \/ Submit(c)
        PROVE  TasksWorth'
    BY <2>1 DEF Connect, Disconnect, BecomeReady, Submit, TasksWorth
  <2>2. ASSUME NEW t \in tasks, TaskStep(t)
        PROVE  TasksWorth'
    <3>1. \A u \in tasks' \ tasks :
            u.pc \in {"read", "write"} => u.sol.diff >= MinDiff
      BY <2>2 DEF TaskStep, CheckWindow, CheckRange, CheckSolution, ReadEpoch,
         WriteEpoch, GoOnIf, GoOn, Finish, TasksWorth, HandlerTypeOK, Tasks
    <3>2. QED
      BY <3>1 DEF TasksWorth
  <2>3. QED
    BY <1>1, <2>1, <2>2 DEF HandlerNext
<1>2. CASE UNCHANGED handlerVars
  BY <1>2 DEF handlerVars, TasksWorth
<1>3. CASE Restart
  BY <1>3 DEF Restart, SettlementRestart, TasksWorth
<1>4. QED
  BY <1>1, <1>2, <1>3 DEF Next

LEMMA EmptyIsConsistent ==
  \A ch : EpochConsistent(EmptyEpoch(ch))
  BY DEF EpochConsistent, EmptyEpoch, NoSubmissions

\* The write of one task keeps the table consistent, whatever it holds by now.
LEMMA WriteIsConsistent ==
  ASSUME SharedTypeOK, HandlerTypeOK, TasksWorth, EpochConsistent(epoch),
         NEW t \in tasks, WriteEpoch(t)
  PROVE  EpochConsistent(epoch')
<1> DEFINE subs == [epoch.submissions EXCEPT ![t.conn] = t.sol]
<1>1. /\ t.conn \in Conns /\ t.sol \in Solutions /\ t.sol.diff \in Nat
      /\ t.sol.diff > 0 /\ t.sol # None
  <2>1. t.conn \in Conns /\ t.sol \in Solutions
    BY DEF HandlerTypeOK, Tasks
  <2>2. t.sol.diff \in Nat
    BY <2>1, DiffAssumption DEF Solutions
  <2>3. t.sol.diff >= MinDiff
    BY DEF TasksWorth, WriteEpoch
  <2>4. QED
    BY <2>1, <2>2, <2>3, DiffAssumption, NoneAssumption
<1>2. /\ epoch.submissions \in Submissions /\ epoch.difficulty \in Nat
      /\ \A c \in Conns : epoch.submissions[c] # None =>
           epoch.submissions[c].diff \in Nat
  <2>1. epoch.submissions \in Submissions /\ epoch.difficulty \in Nat
    <3>1. epoch \in EpochType
      BY DEF SharedTypeOK
    <3>2. epoch.submissions \in Submissions /\ epoch.difficulty \in Diffs \cup {0}
      BY <3>1 DEF EpochType
    <3>3. \A d \in Diffs \cup {0} : d \in Nat
      BY DiffAssumption
    <3>4. QED
      BY ONLY <3>2, <3>3
  <2>2. ASSUME NEW c \in Conns, epoch.submissions[c] # None
        PROVE  epoch.submissions[c].diff \in Nat
    <3>1. epoch.submissions[c] \in Solutions
      BY <2>1, <2>2 DEF Submissions
    <3>2. QED
      BY <3>1, DiffAssumption DEF Solutions
  <2>3. QED
    BY <2>1, <2>2
<1>3. subs # NoSubmissions
  <2>1. subs[t.conn] = t.sol
    BY <1>1, <1>2 DEF Submissions
  <2>2. QED
    BY <1>1, <2>1 DEF NoSubmissions
<1>4. ASSUME NEW c \in Conns, subs[c] # None
      PROVE  subs[c] = t.sol \/ (epoch.submissions[c] # None
                                 /\ subs[c] = epoch.submissions[c])
  BY <1>1, <1>2, <1>4 DEF Submissions
<1>5. CASE t.sol.diff > epoch.difficulty
  <2>1. /\ epoch'.submissions = subs /\ epoch'.difficulty = t.sol.diff
        /\ epoch'.solution = t.sol
    BY <1>5 DEF WriteEpoch, SharedTypeOK, EpochType
  <2>2. \A c \in Conns : subs[c] # None => subs[c].diff <= t.sol.diff
    BY <1>1, <1>2, <1>4, <1>5 DEF EpochConsistent
  <2>3. QED
    BY <1>1, <1>3, <2>1, <2>2 DEF EpochConsistent
<1>6. CASE ~(t.sol.diff > epoch.difficulty)
  <2>1. /\ epoch'.submissions = subs /\ epoch'.difficulty = epoch.difficulty
        /\ epoch'.solution = epoch.solution
    BY <1>6 DEF WriteEpoch, SharedTypeOK, EpochType
  <2>2. \A c \in Conns : subs[c] # None => subs[c].diff <= epoch.difficulty
    BY <1>1, <1>2, <1>4, <1>6 DEF EpochConsistent
  <2>3. epoch.difficulty # 0
    BY <1>1, <1>2, <1>6
  <2>4. QED
    BY <1>3, <2>1, <2>2, <2>3 DEF EpochConsistent
<1>7. QED
  BY <1>5, <1>6

EpochInv == TypeInv /\ TasksWorth /\ EpochIsConsistent

LEMMA EpochInvKept == EpochInv /\ [Next]_vars => EpochInv'
<1> SUFFICES ASSUME EpochInv, [Next]_vars PROVE EpochInv'
  OBVIOUS
<1> USE DEF EpochInv
<1>1. TypeInv'
  BY NextTypes
<1>2. CASE Next
  <2>1. TasksWorth'
    BY <1>2, TasksWorthKept DEF TypeInv, TypeOK, SettlementTypeOK
  <2>2. EpochIsConsistent'
    <3>1. CASE \E t \in tasks : WriteEpoch(t)
      BY <3>1, WriteIsConsistent
      DEF TypeInv, TypeOK, SettlementTypeOK, EpochIsConsistent
    <3>2. CASE MainResetEpoch \/ \E k \in Trackers : TrackerResetEpoch(k)
      BY <3>2, EmptyIsConsistent
      DEF MainResetEpoch, TrackerResetEpoch, ResetEpoch, EpochIsConsistent
    <3>3. CASE epoch' = epoch
      BY <3>3 DEF EpochIsConsistent
    <3>4. CASE Restart
      BY <3>4, EmptyIsConsistent
      DEF Restart, SettlementRestart, SharedRestart, EpochIsConsistent
    <3>5. QED
      BY <1>2, <3>1, <3>2, <3>3, <3>4, EpochWriters
  <2>3. QED
    BY <1>1, <2>1, <2>2
<1>3. CASE UNCHANGED vars
  BY <1>1, <1>3 DEF vars, settlementVars, sharedVars, poolVars, handlerVars,
     TasksWorth, EpochIsConsistent
<1>4. QED
  BY <1>2, <1>3

LEMMA EpochInvInit == Init => EpochInv
  BY InitTypeInv, EmptyIsConsistent
  DEF EpochInv, TasksWorth, EpochIsConsistent, Init, SettlementInit, SharedInit,
      HandlerInit

\* Whatever the tasks read before they write, and whoever resets the table in
\* between, no submission in it beats the best hash, and it has a best hash
\* exactly while it has a submission.
THEOREM EpochAlwaysConsistent == Spec => []EpochIsConsistent
<1>1. EpochInv => EpochIsConsistent
  BY DEF EpochInv
<1>2. QED
  BY <1>1, EpochInvInit, EpochInvKept, PTL DEF Spec

-----------------------------------------------------------------------------
(* The submission window.                                                   *)

\* Only the loop, a tracker and a restart touch the window.
LEMMA WindowWriters ==
  ASSUME Next
  PROVE  \/ closed' = closed
         \/ Restart
         \/ CloseForMining \/ MainOpenWindow
         \/ \E k \in Trackers : TrackerOpenWindow(k)
<1> USE DEF sharedVars, poolVars, clientVars, chainVars
<1>1. CASE ChainNext \/ WsNext
  BY <1>1 DEF ChainNext, Tick, LandStray, TouchProof, WsNext, WsReceive,
     WsWrite, WsReconnect
<1>2. CASE HandlerNext
  BY <1>2 DEF HandlerNext, Connect, Disconnect, BecomeReady, Submit, TaskStep,
     CheckWindow, CheckRange, CheckSolution, ReadEpoch, WriteEpoch
<1>3. CASE ReadyNext
  BY <1>3 DEF ReadyNext, ReadyLoop, Poll, CheckBest, CheckClosed, ReadChallenge,
     Remove, Pick, Give, SendStep, SendMessage, ReadRanges, WriteRanges
<1>4. CASE MainNext \/ LandTransaction
  BY <1>4 DEF MainNext, LandTransaction, ReadProof, PeekBest,
     Snapshot, OutOfAttempts, AttemptWithNone, FetchProof, FetchFails,
     UpdateStaleProof, NoBlockhash, SimulationInvalid, SendTransaction,
     SendFails, SendConfirmed, Finalized, Expired, CheckProof, FetchNewProof,
     FetchNewProofFails, SetProof, CompareEpoch, MainResetNonce,
     MainResetRanges, MainResetEpoch, MainAddChallenge
<1>5. CASE \E k \in Trackers : TrackerNext(k)
  BY <1>5 DEF TrackerNext, TrackerCheck, TrackerRead, TrackerFetch,
     TrackerFetchFails, TrackerSetProof, TrackerSetLast, TrackerResetNonce,
     TrackerResetRanges, TrackerResetEpoch, TrackerAddChallenge
<1>6. CASE JobNext
  BY <1>6 DEF JobNext, JobFindsRow, JobSends, JobGivesUp
<1>7. QED
  BY <1>1, <1>2, <1>3, <1>4, <1>5, <1>6 DEF Next, SubmissionNext

TrackerWillOpen == \E k \in Trackers : trackers[k].pc = "window"

\* While the window stays closed, a loop on its way to open it stays on it:
\* the one step off it is the snapshot of a table with a best hash.
LEMMA LoopStaysOpener ==
  ASSUME SubmissionTypeOK, MainWillOpen, ~MainOpenWindow, MainNext
  PROVE  MainWillOpen' \/ (epoch' = epoch /\ epoch.solution # None)
<1> USE DEF MainWillOpen, SubmissionTypeOK
<1>1. CASE Snapshot
  <2>1. main'.pc = "attempt" /\ main'.sol = epoch.solution /\ epoch' = epoch
    BY <1>1 DEF Snapshot, MainType, sharedVars, poolVars
  <2>2. QED
    BY <2>1
<1>2. CASE AttemptWithNone
  <2>1. main'.pc = "attempt" /\ main'.sol = main.sol /\ main.sol = None
    BY <1>2 DEF AttemptWithNone, NextAttempt, MainType
  <2>2. QED
    BY <2>1
<1>3. CASE OutOfAttempts \/ UpdateStaleProof \/ SetProof
  <2>1. main'.pc = "nonce"
    BY <1>3 DEF OutOfAttempts, UpdateStaleProof, SetProof, Discard, Goto, MainType
  <2>2. QED
    BY <2>1
<1>4. CASE MainResetNonce \/ MainResetRanges \/ MainResetEpoch
  <2>1. main'.pc \in {"ranges", "epoch", "window"}
    BY <1>4 DEF MainResetNonce, MainResetRanges, MainResetEpoch, Goto, MainType
  <2>2. QED
    BY <2>1
<1>5. QED
  BY <1>1, <1>2, <1>3, <1>4
  DEF MainNext, ReadProof, PeekBest, CloseForMining, FetchProof, FetchFails,
      NoBlockhash, SimulationInvalid, SendTransaction, SendFails, SendConfirmed,
      Finalized, Expired, CheckProof, FetchNewProof, FetchNewProofFails,
      CompareEpoch, MainOpenWindow, MainAddChallenge

\* The loop's own steps leave a tracker that is about to open the window there.
LEMMA LoopLeavesTracker ==
  ASSUME SubmissionTypeOK, MainNext \/ LandTransaction, TrackerWillOpen
  PROVE  TrackerWillOpen'
<1> USE DEF TrackerWillOpen, SubmissionTypeOK
<1>1. CASE SendConfirmed
  <2>1. PICK k \in Trackers : trackers[k].pc = "window"
    OBVIOUS
  <2>2. PICK free \in FreeSlots :
          trackers' = [trackers EXCEPT ![free] =
                         [TrackerIdle EXCEPT !.pc = "check", !.old = main.old]]
    BY <1>1 DEF SendConfirmed
  <2>3. k # free
    BY <2>1 DEF FreeSlots
  <2>4. trackers'[k].pc = "window"
    BY <2>1, <2>2, <2>3
  <2>5. QED
    BY <2>4
<1>2. CASE StopTrackers
  <2>1. PICK k \in Trackers : trackers[k].pc = "window"
    OBVIOUS
  <2>2. trackers'[k] = [trackers[k] EXCEPT !.stopped = TRUE]
    BY <1>2, <2>1 DEF StopTrackers
  <2>3. trackers'[k].pc = "window"
    BY <2>1, <2>2 DEF TrackerType
  <2>4. QED
    BY <2>3
<1>3. CASE trackers' = trackers
  BY <1>3
<1>4. QED
  BY <1>1, <1>2, <1>3
  DEF MainNext, LandTransaction, ReadProof, PeekBest, CloseForMining,
      Snapshot, OutOfAttempts, AttemptWithNone, FetchProof, FetchFails,
      UpdateStaleProof, NoBlockhash, SimulationInvalid, SendTransaction,
      SendFails, Finalized, Expired, CheckProof, FetchNewProof,
      FetchNewProofFails, SetProof, CompareEpoch, MainResetNonce,
      MainResetRanges, MainResetEpoch, MainOpenWindow, MainAddChallenge

\* A tracker that is about to open the window does nothing else first, and one
\* that empties the table is about to open the window.
LEMMA TrackerStaysOpener ==
  ASSUME SubmissionTypeOK, NEW k \in Trackers, TrackerNext(k),
         ~TrackerOpenWindow(k)
  PROVE  /\ TrackerWillOpen => TrackerWillOpen'
         /\ epoch' = epoch \/ TrackerWillOpen'
<1> USE DEF SubmissionTypeOK
<1>1. \A l \in Trackers : l # k => trackers'[l] = trackers[l]
  BY DEF TrackerNext, TrackerCheck, TrackerRead, TrackerFetch,
     TrackerFetchFails, TrackerSetProof, TrackerSetLast, TrackerResetNonce,
     TrackerResetRanges, TrackerResetEpoch, TrackerAddChallenge, TrackerGoto,
     TrackerEnds
<1>2. trackers[k].pc # "window"
  BY DEF TrackerNext, TrackerCheck, TrackerRead, TrackerFetch,
     TrackerFetchFails, TrackerSetProof, TrackerSetLast, TrackerResetNonce,
     TrackerResetRanges, TrackerResetEpoch, TrackerAddChallenge
<1>3. TrackerWillOpen => TrackerWillOpen'
  BY <1>1, <1>2 DEF TrackerWillOpen
<1>4. CASE TrackerResetEpoch(k)
  <2>1. trackers'[k].pc = "window"
    BY <1>4 DEF TrackerResetEpoch, TrackerGoto, TrackerType
  <2>2. QED
    BY <1>3, <2>1 DEF TrackerWillOpen
<1>5. CASE ~TrackerResetEpoch(k)
  <2>1. epoch' = epoch
    BY <1>5 DEF TrackerNext, TrackerCheck, TrackerRead, TrackerFetch,
       TrackerFetchFails, TrackerSetProof, TrackerSetLast, TrackerResetNonce,
       TrackerResetRanges, TrackerAddChallenge, sharedVars, poolVars
  <2>2. QED
    BY <1>3, <2>1
<1>6. QED
  BY <1>4, <1>5

\* The steps that neither close nor open the window.
LEMMA OpenerStays ==
  ASSUME EpochInv, Next, ~Restart, ~MainOpenWindow, ~CloseForMining,
         ~(\E k \in Trackers : TrackerOpenWindow(k)),
         MainWillOpen \/ epoch.solution # None \/ TrackerWillOpen
  PROVE  MainWillOpen' \/ epoch'.solution # None \/ TrackerWillOpen'
<1> USE DEF EpochInv, TypeInv, TypeOK, SettlementTypeOK
<1>1. CASE ChainNext /\ UNCHANGED submissionVars
  <2>1. epoch' = epoch
    BY <1>1 DEF ChainNext, Tick, LandStray, TouchProof, poolVars
  <2>2. QED
    BY <1>1, <2>1 DEF submissionVars, MainWillOpen, TrackerWillOpen
<1>2. CASE WsNext /\ UNCHANGED submissionVars
  <2>1. epoch' = epoch
    BY <1>2 DEF WsNext, WsReceive, WsWrite, WsReconnect, poolVars
  <2>2. QED
    BY <1>2, <2>1 DEF submissionVars, MainWillOpen, TrackerWillOpen
<1>3. CASE HandlerNext /\ UNCHANGED submissionVars
  <2>1. epoch.solution # None => epoch'.solution # None
    <3>1. CASE \E t \in tasks : WriteEpoch(t)
      <4>1. PICK t \in tasks : WriteEpoch(t)
        BY <3>1
      <4>2. t.sol # None
        <5>1. t.sol \in Solutions
          BY DEF HandlerTypeOK, Tasks
        <5>2. QED
          BY <5>1, NoneAssumption
      <4>3. epoch'.solution = epoch.solution \/ epoch'.solution = t.sol
        BY <4>1 DEF WriteEpoch, SharedTypeOK, EpochType
      <4>4. QED
        BY <4>2, <4>3
    <3>2. CASE ~(\E t \in tasks : WriteEpoch(t))
      <4>1. epoch' = epoch
        BY <1>3, <3>2 DEF HandlerNext, Connect, Disconnect, BecomeReady, Submit,
           TaskStep, CheckWindow, CheckRange, CheckSolution, ReadEpoch,
           sharedVars, poolVars
      <4>2. QED
        BY <4>1
    <3>3. QED
      BY <3>1, <3>2
  <2>2. QED
    BY <1>3, <2>1 DEF submissionVars, MainWillOpen, TrackerWillOpen
<1>4. CASE ReadyNext /\ UNCHANGED submissionVars
  <2>1. epoch' = epoch
    BY <1>4 DEF ReadyNext, ReadyLoop, Poll, CheckBest, CheckClosed,
       ReadChallenge, Remove, Pick, Give, SendStep, SendMessage, ReadRanges,
       WriteRanges, sharedVars, poolVars
  <2>2. QED
    BY <1>4, <2>1 DEF submissionVars, MainWillOpen, TrackerWillOpen
<1>5. CASE MainNext \/ LandTransaction
  <2>1. TrackerWillOpen => TrackerWillOpen'
    BY <1>5, LoopLeavesTracker
  <2>2. epoch' = epoch \/ MainWillOpen'
    <3>1. CASE MainResetEpoch
      <4>1. main'.pc = "window"
        BY <3>1 DEF MainResetEpoch, Goto, SubmissionTypeOK, MainType
      <4>2. QED
        BY <4>1 DEF MainWillOpen
    <3>2. CASE ~MainResetEpoch
      BY <1>5, <3>2 DEF MainNext, LandTransaction, ReadProof, PeekBest,
         CloseForMining, Snapshot, OutOfAttempts, AttemptWithNone, FetchProof,
         FetchFails, UpdateStaleProof, NoBlockhash, SimulationInvalid,
         SendTransaction, SendFails, SendConfirmed, Finalized, Expired,
         CheckProof, FetchNewProof, FetchNewProofFails, SetProof, CompareEpoch,
         MainResetNonce, MainResetRanges, MainOpenWindow, MainAddChallenge,
         sharedVars, poolVars
    <3>3. QED
      BY <3>1, <3>2
  <2>3. CASE MainWillOpen
    <3>1. MainNext
      BY <1>5, <2>3 DEF LandTransaction, MainWillOpen
    <3>2. QED
      BY <2>3, <3>1, LoopStaysOpener
  <2>4. QED
    BY <2>1, <2>2, <2>3
<1>6. CASE \E k \in Trackers : TrackerNext(k)
  <2>1. PICK k \in Trackers : TrackerNext(k)
    BY <1>6
  <2>2. main' = main
    BY <2>1, TrackerTypes
  <2>3. QED
    BY <2>1, <2>2, TrackerStaysOpener DEF MainWillOpen
<1>7. CASE JobNext
  <2>1. UNCHANGED <<main, trackers, epoch>>
    BY <1>7 DEF JobNext, JobFindsRow, JobSends, JobGivesUp, sharedVars, poolVars
  <2>2. QED
    BY <2>1 DEF MainWillOpen, TrackerWillOpen
<1>8. QED
  BY <1>1, <1>2, <1>3, <1>4, <1>5, <1>6, <1>7 DEF Next, SubmissionNext

LEMMA OpenerKept ==
  ASSUME EpochInv, ClosedWindowHasOpener, Next
  PROVE  ClosedWindowHasOpener'
<1> USE DEF ClosedWindowHasOpener
<1>1. CASE MainOpenWindow \/ \E k \in Trackers : TrackerOpenWindow(k)
  BY <1>1 DEF MainOpenWindow, TrackerOpenWindow, OpenWindow
<1>2. CASE CloseForMining
  <2>1. main'.pc = "snap"
    BY <1>2 DEF CloseForMining, Goto, EpochInv, TypeInv, TypeOK,
       SettlementTypeOK, SubmissionTypeOK, MainType
  <2>2. QED
    BY <2>1 DEF MainWillOpen
<1>3. CASE Restart
  BY <1>3 DEF Restart, SettlementRestart, SharedRestart
<1>4. CASE /\ ~Restart /\ ~CloseForMining /\ ~MainOpenWindow
           /\ ~(\E k \in Trackers : TrackerOpenWindow(k))
  <2>1. closed' = closed
    BY <1>4, WindowWriters
  <2>2. QED
    BY <1>4, <2>1, OpenerStays DEF TrackerWillOpen
<1>5. QED
  BY <1>1, <1>2, <1>3, <1>4

\* The window is never closed with nobody left to open it, whatever trackers
\* of earlier rounds, late tasks and failed attempts do in between.
THEOREM WindowAlwaysHasOpener == Spec => []ClosedWindowHasOpener
<1>1. EpochInv /\ ClosedWindowHasOpener /\ [Next]_vars => ClosedWindowHasOpener'
  <2> SUFFICES ASSUME EpochInv, ClosedWindowHasOpener, [Next]_vars
               PROVE  ClosedWindowHasOpener'
    OBVIOUS
  <2>1. CASE UNCHANGED vars
    BY <2>1 DEF vars, settlementVars, sharedVars, poolVars, submissionVars,
       ClosedWindowHasOpener, MainWillOpen
  <2>2. QED
    BY <2>1, OpenerKept
<1>2. Init => ClosedWindowHasOpener
  BY DEF Init, SettlementInit, SharedInit, ClosedWindowHasOpener
<1>3. QED
  BY <1>1, <1>2, EpochInvInit, EpochInvKept, PTL DEF Spec
=============================================================================
