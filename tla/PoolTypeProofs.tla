---------------------------- MODULE PoolTypeProofs ----------------------------
(***************************************************************************)
(* Type correctness of Pool, for every set of connections and trackers and *)
(* every value of the bounds.                                              *)
(***************************************************************************)
EXTENDS Pool, SequenceTheorems, TLAPS

-----------------------------------------------------------------------------
(* Type correctness.                                                        *)

LEMMA InitTypeOK == Init => TypeOK
<1> SUFFICES ASSUME Init PROVE TypeOK
  OBVIOUS
<1> USE NoneAssumption, DiffAssumption, BoundAssumption, AttemptsAssumption
    DEF Init, SettlementInit, Challenges, Blocks
<1>1. SharedTypeOK
  <2>1. NoSubmissions \in Submissions
    BY DEF NoSubmissions, Submissions
  <2>2. EmptyEpoch(1) \in EpochType
    BY <2>1 DEF EmptyEpoch, EpochType
  <2>3. <<>> \in Seq(Challenges)
    OBVIOUS
  <2>4. closed \in BOOLEAN /\ stray \in BOOLEAN
    BY DEF SharedInit
  <2>5. NoRanges \in [Conns -> SUBSET Blocks]
    BY DEF NoRanges
  <2>6. 1 \in Challenges /\ 0 \in Challenges
    OBVIOUS
  <2>7. QED
    BY <2>2, <2>3, <2>4, <2>5, <2>6 DEF SharedTypeOK, SharedInit
<1>2. WsTypeOK
  BY DEF WsTypeOK, WsInit, WsIdle
<1>3. HandlerTypeOK
  BY DEF HandlerTypeOK, HandlerInit
<1>4. ReadyTypeOK
  BY DEF ReadyTypeOK, ReadyInit, RdyIdle, RdyPc
<1>5. SubmissionTypeOK
  <2>1. MainIdle \in MainType
    BY DEF MainIdle, MainType, MainPc, MainRoute, NoSubmissions, Submissions
  <2>2. TrackerIdle \in TrackerType
    BY DEF TrackerIdle, TrackerType, TrackerPc
  <2>3. <<>> \in Seq(MessageType)
    OBVIOUS
  <2>4. QED
    BY <2>1, <2>2, <2>3 DEF SubmissionTypeOK, SubmissionInit
<1>6. QED
  BY <1>1, <1>2, <1>3, <1>4, <1>5 DEF TypeOK, SettlementTypeOK

\* The constants that the other components' variables start from.
LEMMA IdleTypes ==
  /\ NoSubmissions \in Submissions
  /\ NoRanges \in [Conns -> SUBSET Blocks]
  /\ \A ch \in Challenges : EmptyEpoch(ch) \in EpochType
  /\ WsIdle \in [pc : {"next", "write"}, new : Challenges]
  /\ RdyIdle \in [pc : RdyPc, clients : SUBSET Conns,
                  current : Conns \cup {None}, challenge : Challenges]
  /\ MainIdle \in MainType
  /\ TrackerIdle \in TrackerType
<1> USE BoundAssumption, AttemptsAssumption DEF Challenges, NoSubmissions, Submissions
<1>1. NoSubmissions \in Submissions
  OBVIOUS
<1>2. NoRanges \in [Conns -> SUBSET Blocks]
  BY DEF NoRanges
<1>3. \A ch \in Challenges : EmptyEpoch(ch) \in EpochType
  BY <1>1 DEF EmptyEpoch, EpochType
<1>4. WsIdle \in [pc : {"next", "write"}, new : Challenges]
  BY DEF WsIdle
<1>5. MainIdle \in MainType
  BY DEF MainIdle, MainType, MainPc, MainRoute
<1>6. TrackerIdle \in TrackerType
  BY DEF TrackerIdle, TrackerType, TrackerPc
<1>7. RdyIdle \in [pc : RdyPc, clients : SUBSET Conns,
                   current : Conns \cup {None}, challenge : Challenges]
  BY DEF RdyIdle, RdyPc
<1>8. QED
  BY <1>1, <1>2, <1>3, <1>4, <1>5, <1>6, <1>7

\* One notification more, or none.
LEMMA NotifyType ==
  ASSUME NEW ch \in Challenges, notes \in Seq(Challenges), Notify(ch)
  PROVE  notes' \in Seq(Challenges)
  BY DEF Notify

LEMMA AdvanceType ==
  ASSUME SharedTypeOK, Advance
  PROVE  /\ chain' \in Challenges /\ clock' \in 0..2 /\ stray' \in BOOLEAN
         /\ notes' \in Seq(Challenges)
<1>1. chain + 1 \in Challenges
  BY BoundAssumption DEF SharedTypeOK, Advance, Challenges
<1>2. notes' \in Seq(Challenges)
  BY <1>1, NotifyType DEF SharedTypeOK, Advance
<1>3. chain' \in Challenges /\ clock' \in 0..2
  BY <1>1 DEF Advance
<1>4. stray' \in BOOLEAN
  BY DEF Advance
<1>5. QED
  BY <1>2, <1>3, <1>4

LEMMA ChainTypeOK ==
  ASSUME SharedTypeOK, ChainNext
  PROVE  SharedTypeOK'
<1>1. CASE Tick
  BY <1>1 DEF Tick, SharedTypeOK, poolVars, clientVars
<1>2. CASE LandStray
  BY <1>2, AdvanceType DEF LandStray, SharedTypeOK, poolVars, clientVars
<1>3. CASE TouchProof
  <2>1. notes' \in Seq(Challenges)
    BY <1>3, NotifyType DEF TouchProof, SharedTypeOK
  <2>2. QED
    BY <1>3, <2>1 DEF TouchProof, SharedTypeOK, poolVars, clientVars
<1>4. QED
  BY <1>1, <1>2, <1>3 DEF ChainNext

LEMMA WsTypes ==
  ASSUME SharedTypeOK, WsTypeOK, WsNext
  PROVE  SharedTypeOK' /\ WsTypeOK'
<1> USE DEF SharedTypeOK, WsTypeOK, poolVars, clientVars, chainVars
<1>1. CASE WsReceive
  <2>1. Head(notes) \in Challenges /\ Tail(notes) \in Seq(Challenges)
    BY <1>1 DEF WsReceive
  <2>2. QED
    BY <1>1, <2>1 DEF WsReceive
<1>2. CASE WsWrite
  BY <1>2, IdleTypes DEF WsWrite
<1>3. CASE WsReconnect
  BY <1>3 DEF WsReconnect
<1>4. QED
  BY <1>1, <1>2, <1>3 DEF WsNext

\* A task that goes on is a task, and so is one that stays.
LEMMA GoOnType ==
  ASSUME HandlerTypeOK, NEW t \in tasks, NEW pc \in TaskPc, NEW cond,
         GoOnIf(t, cond, pc)
  PROVE  HandlerTypeOK'
<1>1. t \in Tasks /\ [t EXCEPT !.pc = pc] \in Tasks
  BY DEF HandlerTypeOK, Tasks
<1>2. tasks' \subseteq tasks \cup {[t EXCEPT !.pc = pc]}
  BY DEF GoOnIf, GoOn, Finish
<1>3. QED
  BY <1>1, <1>2 DEF HandlerTypeOK

LEMMA WriteEpochType ==
  ASSUME SharedTypeOK, HandlerTypeOK, NEW t \in tasks, WriteEpoch(t)
  PROVE  SharedTypeOK' /\ HandlerTypeOK'
<1> DEFINE subs == [epoch.submissions EXCEPT ![t.conn] = t.sol]
<1>1. t.sol \in Solutions /\ t.sol.diff \in Diffs
  BY DEF HandlerTypeOK, Tasks, Solutions
<1>2. subs \in Submissions
  BY <1>1 DEF SharedTypeOK, EpochType, Submissions
<1>3. epoch' \in EpochType
  <2>1. CASE t.sol.diff > epoch.difficulty
    <3>1. epoch' = [epoch EXCEPT !.submissions = subs,
                                 !.difficulty = t.sol.diff, !.solution = t.sol]
      BY <2>1 DEF WriteEpoch
    <3>2. QED
      BY <1>1, <1>2, <3>1 DEF SharedTypeOK, EpochType
  <2>2. CASE ~(t.sol.diff > epoch.difficulty)
    <3>1. epoch' = [epoch EXCEPT !.submissions = subs]
      BY <2>2 DEF WriteEpoch
    <3>2. QED
      BY <1>2, <3>1 DEF SharedTypeOK, EpochType
  <2>3. QED
    BY <2>1, <2>2
<1>4. HandlerTypeOK'
  BY DEF WriteEpoch, Finish, HandlerTypeOK
<1>5. SharedTypeOK'
  BY <1>3 DEF WriteEpoch, SharedTypeOK, clientVars, chainVars
<1>6. QED
  BY <1>4, <1>5

LEMMA HandlerTypes ==
  ASSUME SharedTypeOK, HandlerTypeOK, HandlerNext
  PROVE  SharedTypeOK' /\ HandlerTypeOK'
<1> USE DEF poolVars, clientVars, chainVars, sharedVars
<1>1. ASSUME NEW c \in Conns, Connect(c) \/ Disconnect(c) \/ BecomeReady(c)
      PROVE  SharedTypeOK' /\ HandlerTypeOK'
  BY <1>1 DEF Connect, Disconnect, BecomeReady, SharedTypeOK, HandlerTypeOK
<1>2. ASSUME NEW c \in Conns, Submit(c)
      PROVE  SharedTypeOK' /\ HandlerTypeOK'
  <2>1. work[c] \in Work
    BY <1>2 DEF Submit, SharedTypeOK
  <2>2. PICK d \in Diffs :
          tasks' = tasks \cup
            {[pc |-> "window", conn |-> c,
              sol |-> [challenge |-> work[c].challenge,
                       block |-> work[c].block, diff |-> d]]}
    BY <1>2 DEF Submit
  <2>3. HandlerTypeOK'
    BY <2>1, <2>2 DEF HandlerTypeOK, Tasks, TaskPc, Solutions, Work
  <2>4. SharedTypeOK'
    BY <1>2 DEF Submit, SharedTypeOK
  <2>5. QED
    BY <2>3, <2>4
<1>3. ASSUME NEW t \in tasks,
             CheckWindow(t) \/ CheckRange(t) \/ CheckSolution(t) \/ ReadEpoch(t)
      PROVE  SharedTypeOK' /\ HandlerTypeOK'
  <2>1. SharedTypeOK'
    BY <1>3 DEF CheckWindow, CheckRange, CheckSolution, ReadEpoch, SharedTypeOK
  <2>2. CASE CheckWindow(t)
    BY <2>1, <2>2, GoOnType DEF CheckWindow, TaskPc
  <2>3. CASE CheckRange(t)
    BY <2>1, <2>3, GoOnType DEF CheckRange, TaskPc
  <2>4. CASE CheckSolution(t)
    BY <2>1, <2>4, GoOnType DEF CheckSolution, TaskPc
  <2>5. CASE ReadEpoch(t)
    BY <2>1, <2>5, GoOnType DEF ReadEpoch, TaskPc
  <2>6. QED
    BY <1>3, <2>2, <2>3, <2>4, <2>5
<1>4. QED
  BY <1>1, <1>2, <1>3, WriteEpochType DEF HandlerNext, TaskStep

LEMMA ReadyTypes ==
  ASSUME SharedTypeOK, ReadyTypeOK, ReadyNext
  PROVE  SharedTypeOK' /\ ReadyTypeOK'
<1> USE DEF poolVars, clientVars, chainVars, sharedVars
<1>1. CASE Poll \/ CheckBest \/ CheckClosed \/ ReadChallenge
  <2>1. SharedTypeOK' /\ sends' = sends
    BY <1>1 DEF Poll, CheckBest, CheckClosed, ReadChallenge, SharedTypeOK
  <2>2. CASE Poll
    BY <2>1, <2>2 DEF Poll, SharedTypeOK, ReadyTypeOK, RdyPc
  <2>3. CASE CheckBest
    BY <2>1, <2>3, IdleTypes DEF CheckBest, ReadyTypeOK, RdyPc
  <2>4. CASE CheckClosed
    BY <2>1, <2>4, IdleTypes DEF CheckClosed, ReadyTypeOK, RdyPc
  <2>5. CASE ReadChallenge
    BY <2>1, <2>5 DEF ReadChallenge, SharedTypeOK, ReadyTypeOK, RdyPc
  <2>6. QED
    BY <1>1, <2>2, <2>3, <2>4, <2>5
<1>2. CASE Remove
  <2>1. SharedTypeOK' /\ sends' = sends
    BY <1>2 DEF Remove, SharedTypeOK
  <2>2. QED
    BY <1>2, <2>1, IdleTypes DEF Remove, ReadyTypeOK, RdyPc
<1>3. ASSUME NEW c \in Conns, Give(c)
      PROVE  SharedTypeOK' /\ ReadyTypeOK'
  <2>1. nonce \in Blocks /\ nonce + 1 \in 0..MaxNonce
    BY <1>3, BoundAssumption DEF Give, SharedTypeOK, Blocks
  <2>2. SharedTypeOK'
    BY <1>3, <2>1 DEF Give, SharedTypeOK
  <2>3. [pc |-> "send", conn |-> c, block |-> nonce,
         challenge |-> rdy.challenge, known |-> {}] \in Sends
    BY <2>1 DEF ReadyTypeOK, Sends
  <2>4. sends' \subseteq Sends
    BY <1>3, <2>3 DEF Give, ReadyTypeOK
  <2>5. rdy' \in [pc : RdyPc, clients : SUBSET Conns,
                  current : Conns \cup {None}, challenge : Challenges]
    BY <1>3 DEF Give, ReadyTypeOK, RdyPc
  <2>6. QED
    BY <2>2, <2>4, <2>5 DEF ReadyTypeOK
<1>4. ASSUME NEW c \in Conns, Pick(c)
      PROVE  SharedTypeOK' /\ ReadyTypeOK'
  <2>1. SharedTypeOK' /\ sends' = sends
    BY <1>4 DEF Pick, SharedTypeOK
  <2>2. QED
    BY <1>4, <2>1 DEF Pick, ReadyTypeOK, RdyPc
<1>5. ASSUME NEW s \in sends, SendMessage(s)
      PROVE  SharedTypeOK' /\ ReadyTypeOK'
  BY <1>5 DEF SendMessage, SharedTypeOK, ReadyTypeOK, Sends, Work
<1>6. ASSUME NEW s \in sends, ReadRanges(s)
      PROVE  SharedTypeOK' /\ ReadyTypeOK'
  BY <1>6 DEF ReadRanges, SharedTypeOK, ReadyTypeOK, Sends
<1>7. ASSUME NEW s \in sends, WriteRanges(s)
      PROVE  SharedTypeOK' /\ ReadyTypeOK'
  BY <1>7 DEF WriteRanges, SharedTypeOK, ReadyTypeOK, Sends
<1>8. QED
  BY <1>1, <1>2, <1>3, <1>4, <1>5, <1>6, <1>7
  DEF ReadyNext, ReadyLoop, SendStep


\* Past the start of an attempt there is a solution and the attempt counts: the
\* part of type correctness that the types do not say.
AttemptOK ==
  main.pc \in {"build", "send", "finalize"} =>
    main.i < MaxAttempts /\ main.sol # None

TypeInv == TypeOK /\ AttemptOK

LEMMA GotoType ==
  ASSUME main \in MainType, NEW pc \in MainPc, Goto(pc)
  PROVE  /\ main' \in MainType /\ main'.pc = pc
         /\ main'.i = main.i /\ main'.sol = main.sol
  BY DEF Goto, MainType

LEMMA DiscardType ==
  ASSUME main \in MainType, Discard
  PROVE  main' \in MainType /\ main'.pc = "nonce"
  BY DEF Discard, MainType, MainPc, MainRoute

LEMMA NextAttemptType ==
  ASSUME main \in MainType, main.i < MaxAttempts, NextAttempt
  PROVE  main' \in MainType /\ main'.pc = "attempt"
<1>1. main.i + 1 \in 0..MaxAttempts
  BY AttemptsAssumption DEF MainType
<1>2. QED
  BY <1>1 DEF NextAttempt, MainType, MainPc

\* What the steps of the loop do to its own state.
LEMMA MainTypes ==
  ASSUME SharedTypeOK, SubmissionTypeOK, AttemptOK, MainNext \/ LandTransaction
  PROVE  main' \in MainType /\ AttemptOK'
<1> USE DEF SubmissionTypeOK, AttemptOK
<1>1. CASE ReadProof
  <2>1. main' = [MainIdle EXCEPT !.pc = "peek", !.old = proof]
    BY <1>1 DEF ReadProof
  <2>2. QED
    BY <2>1, IdleTypes DEF SharedTypeOK, MainType, MainPc
<1>2. CASE PeekBest \/ CompareEpoch \/ MainOpenWindow \/ MainAddChallenge
  <2>1. main' \in MainType /\ main'.pc \in {"top", "close", "nonce", "db"}
    <3>1. CASE main' = MainIdle
      BY <3>1, IdleTypes DEF MainIdle
    <3>2. CASE Goto("close") \/ Goto("db")
      BY <3>2, GotoType DEF MainPc
    <3>3. CASE main' = [main EXCEPT !.pc = "nonce", !.route = "seen"]
      BY <3>3 DEF MainType, MainPc, MainRoute
    <3>4. QED
      BY <1>2, <3>1, <3>2, <3>3
      DEF PeekBest, CompareEpoch, MainOpenWindow, MainAddChallenge
  <2>2. QED
    BY <2>1
<1>3. CASE CloseForMining \/ FetchNewProofFails \/ SetProof \/ MainResetNonce
             \/ MainResetRanges \/ MainResetEpoch
  <2>1. Goto("snap") \/ Goto("settle") \/ Goto("nonce") \/ Goto("ranges")
          \/ Goto("epoch") \/ Goto("window")
    BY <1>3 DEF CloseForMining, FetchNewProofFails, SetProof, MainResetNonce,
                MainResetRanges, MainResetEpoch
  <2>2. main' \in MainType /\ main'.pc \notin {"build", "send", "finalize"}
    BY <2>1, GotoType DEF MainPc
  <2>3. QED
    BY <2>2
<1>4. CASE Snapshot
  BY <1>4 DEF Snapshot, SharedTypeOK, EpochType, MainType, MainPc
<1>5. CASE OutOfAttempts \/ UpdateStaleProof \/ SimulationInvalid \/ SendFails
  <2>1. Discard
    BY <1>5 DEF OutOfAttempts, UpdateStaleProof, SimulationInvalid, SendFails
  <2>2. QED
    BY <2>1, DiscardType
<1>6. CASE AttemptWithNone \/ NoBlockhash \/ Expired
  <2>1. NextAttempt /\ main.i < MaxAttempts
    BY <1>6 DEF AttemptWithNone, NoBlockhash, Expired
  <2>2. QED
    BY <2>1, NextAttemptType
<1>7. CASE FetchProof \/ FetchFails
  <2>1. main.i < MaxAttempts /\ main.sol # None
    BY <1>7 DEF FetchProof, FetchFails
  <2>2. CASE Goto("build")
    BY <2>1, <2>2, GotoType DEF MainPc
  <2>3. CASE main' = [main EXCEPT !.pc = "stale", !.new = chain]
    BY <2>3 DEF SharedTypeOK, MainType, MainPc
  <2>4. QED
    BY <1>7, <2>2, <2>3 DEF FetchProof, FetchFails
<1>8. CASE SendTransaction
  BY <1>8 DEF SendTransaction, MainType, MainPc
<1>9. CASE LandTransaction
  BY <1>9 DEF LandTransaction, MainType
<1>10. CASE SendConfirmed \/ Finalized
  <2>1. main.i < MaxAttempts /\ main.sol # None
    BY <1>10 DEF SendConfirmed, Finalized
  <2>2. Goto("finalize") \/ Goto("settle")
    BY <1>10 DEF SendConfirmed, Finalized
  <2>3. QED
    BY <2>1, <2>2, GotoType DEF MainPc
<1>11. CASE CheckProof
  <2>1. main' \in MainType
    BY <1>11 DEF CheckProof, SharedTypeOK, MainType, MainPc
  <2>2. main'.pc \in {"rpc", "compare"}
    BY <1>11 DEF CheckProof, MainType
  <2>3. QED
    BY <2>1, <2>2
<1>12. CASE FetchNewProof
  <2>1. main' \in MainType
    BY <1>12 DEF FetchNewProof, SharedTypeOK, MainType, MainPc, MainRoute
  <2>2. main'.pc \in {"settle", "setproof"}
    BY <1>12 DEF FetchNewProof, MainType
  <2>3. QED
    BY <2>1, <2>2
<1>13. QED
  BY <1>1, <1>2, <1>3, <1>4, <1>5, <1>6, <1>7, <1>8, <1>9, <1>10, <1>11, <1>12
  DEF MainNext

\* What the steps of the loop do to the rest.
LEMMA MainSharedTypes ==
  ASSUME SharedTypeOK, SubmissionTypeOK, MainNext \/ LandTransaction
  PROVE  SharedTypeOK'
<1> USE DEF SharedTypeOK, poolVars, clientVars, chainVars, sharedVars
<1>1. CASE \/ ReadProof \/ PeekBest \/ Snapshot \/ OutOfAttempts
           \/ AttemptWithNone \/ FetchProof \/ FetchFails \/ NoBlockhash
           \/ SimulationInvalid \/ SendTransaction \/ SendConfirmed \/ Finalized
           \/ Expired \/ CheckProof \/ FetchNewProof \/ FetchNewProofFails
           \/ CompareEpoch
  <2>1. UNCHANGED sharedVars
    BY <1>1 DEF ReadProof, PeekBest, Snapshot, OutOfAttempts, AttemptWithNone,
                FetchProof, FetchFails, NoBlockhash, SimulationInvalid,
                SendTransaction, SendConfirmed, Finalized, Expired, CheckProof,
                FetchNewProof, FetchNewProofFails, CompareEpoch
  <2>2. QED
    BY <2>1
<1>2. CASE CloseForMining \/ MainOpenWindow
  <2>1. closed' \in BOOLEAN
    BY <1>2 DEF CloseForMining, MainOpenWindow, CloseWindow, OpenWindow
  <2>2. QED
    BY <1>2, <2>1 DEF CloseForMining, MainOpenWindow
<1>3. CASE UpdateStaleProof \/ SetProof
  <2>1. proof' \in Challenges
    BY <1>3 DEF UpdateStaleProof, SetProof, SubmissionTypeOK, MainType
  <2>2. QED
    BY <1>3, <2>1 DEF UpdateStaleProof, SetProof
<1>4. CASE LandTransaction
  BY <1>4, AdvanceType DEF LandTransaction
<1>5. CASE SendFails
  <2>1. stray' \in BOOLEAN
    BY <1>5 DEF SendFails
  <2>2. QED
    BY <1>5, <2>1 DEF SendFails
<1>6. CASE MainResetNonce \/ MainResetRanges
  BY <1>6, BoundAssumption, IdleTypes
  DEF MainResetNonce, MainResetRanges, ResetNonce, ResetRanges
<1>7. CASE MainResetEpoch
  <2>1. epoch' \in EpochType
    BY <1>7, IdleTypes
    DEF MainResetEpoch, ResetEpoch, EpochType, SubmissionTypeOK, MainType
  <2>2. QED
    BY <1>7, <2>1 DEF MainResetEpoch
<1>8. CASE MainAddChallenge
  <2>1. db' \subseteq Challenges
    BY <1>8 DEF MainAddChallenge, AddChallenge, SubmissionTypeOK, MainType
  <2>2. QED
    BY <1>8, <2>1 DEF MainAddChallenge
<1>9. QED
  BY <1>1, <1>2, <1>3, <1>4, <1>5, <1>6, <1>7, <1>8 DEF MainNext


\* The slots of the trackers when the loop spawns or stops them.
LEMMA MainTrackersType ==
  ASSUME SubmissionTypeOK, MainNext \/ LandTransaction
  PROVE  trackers' \in [Trackers -> TrackerType]
<1> USE DEF SubmissionTypeOK
<1>1. CASE SendConfirmed
  <2>1. [TrackerIdle EXCEPT !.pc = "check", !.old = main.old] \in TrackerType
    BY IdleTypes DEF TrackerType, TrackerPc, MainType
  <2>2. QED
    BY <1>1, <2>1 DEF SendConfirmed
<1>2. CASE StopTrackers
  <2>1. \A k \in Trackers :
          [trackers[k] EXCEPT !.stopped = TRUE] \in TrackerType
    BY DEF TrackerType
  <2>2. QED
    BY <1>2, <2>1 DEF StopTrackers
<1>3. CASE ~SendConfirmed /\ ~StopTrackers
  <2>1. trackers' = trackers
    BY <1>3 DEF MainNext, LandTransaction, ReadProof, PeekBest, CloseForMining,
                Snapshot, OutOfAttempts, AttemptWithNone, FetchProof, FetchFails,
                UpdateStaleProof, NoBlockhash, SimulationInvalid,
                SendTransaction, SendFails, Finalized, Expired, CheckProof,
                FetchNewProof, FetchNewProofFails, SetProof, CompareEpoch,
                MainResetNonce, MainResetRanges, MainResetEpoch, MainOpenWindow,
                MainAddChallenge
  <2>2. QED
    BY <2>1
<1>4. QED
  BY <1>1, <1>2, <1>3

\* The one message the loop makes.
LEMMA MainJobsType ==
  ASSUME SubmissionTypeOK, AttemptOK, MainNext \/ LandTransaction
  PROVE  jobs' \subseteq JobType /\ mineSuccess' = mineSuccess
<1> USE DEF SubmissionTypeOK
<1>1. CASE Finalized
  <2>1. main.sol \in Solutions
    BY <1>1 DEF Finalized, AttemptOK, MainType
  <2>2. [pc |-> "row", msg |-> [old |-> main.old, mined |-> main.sol.challenge,
                                best |-> main.sol, subs |-> main.subs]] \in JobType
    BY <2>1 DEF MainType, JobType, MessageType, Solutions
  <2>3. QED
    BY <1>1, <2>2 DEF Finalized
<1>2. CASE ~Finalized
  <2>1. UNCHANGED <<jobs, mineSuccess>>
    BY <1>2 DEF MainNext, LandTransaction, ReadProof, PeekBest, CloseForMining,
                Snapshot, OutOfAttempts, AttemptWithNone, FetchProof, FetchFails,
                UpdateStaleProof, NoBlockhash, SimulationInvalid,
                SendTransaction, SendFails, SendConfirmed, Expired, CheckProof,
                FetchNewProof, FetchNewProofFails, SetProof, CompareEpoch,
                MainResetNonce, MainResetRanges, MainResetEpoch, MainOpenWindow,
                MainAddChallenge
  <2>2. QED
    BY <2>1
<1>3. QED
  BY <1>1, <1>2

LEMMA TrackerGotoType ==
  ASSUME trackers \in [Trackers -> TrackerType], NEW k \in Trackers,
         \/ TrackerEnds(k)
         \/ \E pc \in TrackerPc : TrackerGoto(k, pc)
  PROVE  trackers' \in [Trackers -> TrackerType]
<1>1. CASE TrackerEnds(k)
  BY <1>1, IdleTypes DEF TrackerEnds
<1>2. ASSUME NEW pc \in TrackerPc, TrackerGoto(k, pc)
      PROVE  trackers' \in [Trackers -> TrackerType]
  <2>1. [trackers[k] EXCEPT !.pc = pc] \in TrackerType
    BY DEF TrackerType
  <2>2. trackers' = [trackers EXCEPT ![k] = [trackers[k] EXCEPT !.pc = pc]]
    BY <1>2 DEF TrackerGoto
  <2>3. QED
    BY <2>1, <2>2
<1>3. QED
  BY <1>1, <1>2

LEMMA TrackerTypes ==
  ASSUME SharedTypeOK, SubmissionTypeOK, NEW k \in Trackers, TrackerNext(k)
  PROVE  SharedTypeOK' /\ SubmissionTypeOK' /\ main' = main
<1> USE DEF SharedTypeOK, poolVars, clientVars, chainVars, sharedVars
<1>1. main' = main /\ jobs' = jobs /\ mineSuccess' = mineSuccess
  BY DEF TrackerNext, TrackerCheck, TrackerRead, TrackerFetch,
         TrackerFetchFails, TrackerSetProof, TrackerSetLast, TrackerResetNonce,
         TrackerResetRanges, TrackerResetEpoch, TrackerOpenWindow,
         TrackerAddChallenge
<1>2. /\ trackers \in [Trackers -> TrackerType] /\ trackers[k] \in TrackerType
      /\ trackers[k].old \in Challenges /\ trackers[k].new \in Challenges
  BY DEF SubmissionTypeOK, TrackerType
<1>3. SharedTypeOK'
  <2>1. CASE TrackerCheck(k) \/ TrackerRead(k) \/ TrackerFetch(k)
               \/ TrackerFetchFails(k)
    <3>1. UNCHANGED sharedVars
      BY <2>1 DEF TrackerCheck, TrackerRead, TrackerFetch, TrackerFetchFails
    <3>2. QED
      BY <3>1
  <2>2. CASE TrackerSetProof(k) \/ TrackerSetLast(k) \/ TrackerAddChallenge(k)
    BY <1>2, <2>2
    DEF TrackerSetProof, TrackerSetLast, TrackerAddChallenge, AddChallenge
  <2>3. CASE TrackerResetNonce(k) \/ TrackerResetRanges(k) \/ TrackerResetEpoch(k)
    BY <1>2, <2>3, IdleTypes, BoundAssumption
    DEF TrackerResetNonce, TrackerResetRanges, TrackerResetEpoch, ResetNonce,
        ResetRanges, ResetEpoch
  <2>4. CASE TrackerOpenWindow(k)
    <3>1. closed' \in BOOLEAN
      BY <2>4 DEF TrackerOpenWindow, OpenWindow
    <3>2. QED
      BY <2>4, <3>1 DEF TrackerOpenWindow
  <2>5. QED
    BY <2>1, <2>2, <2>3, <2>4 DEF TrackerNext
<1>4. trackers' \in [Trackers -> TrackerType]
  <2>1. CASE TrackerRead(k) /\ proof # trackers[k].old
    <3>1. [trackers[k] EXCEPT !.pc = "last", !.route = "seen", !.new = proof]
            \in TrackerType
      BY <1>2 DEF TrackerType, TrackerPc
    <3>2. trackers' = [trackers EXCEPT ![k] =
            [trackers[k] EXCEPT !.pc = "last", !.route = "seen", !.new = proof]]
      BY <2>1 DEF TrackerRead
    <3>3. QED
      BY <1>2, <3>1, <3>2
  <2>2. CASE TrackerFetch(k) /\ chain # trackers[k].old
    <3>1. [trackers[k] EXCEPT !.pc = "setproof", !.route = "rpc", !.new = chain]
            \in TrackerType
      BY <1>2 DEF TrackerType, TrackerPc
    <3>2. trackers' = [trackers EXCEPT ![k] =
            [trackers[k] EXCEPT !.pc = "setproof", !.route = "rpc", !.new = chain]]
      BY <2>2 DEF TrackerFetch
    <3>3. QED
      BY <1>2, <3>1, <3>2
  <2>3. CASE ~(TrackerRead(k) /\ proof # trackers[k].old)
             /\ ~(TrackerFetch(k) /\ chain # trackers[k].old)
    <3>1. \/ TrackerEnds(k)
          \/ \E pc \in TrackerPc : TrackerGoto(k, pc)
      BY <2>3 DEF TrackerNext, TrackerCheck, TrackerRead, TrackerFetch,
         TrackerFetchFails, TrackerSetProof, TrackerSetLast, TrackerResetNonce,
         TrackerResetRanges, TrackerResetEpoch, TrackerOpenWindow,
         TrackerAddChallenge, TrackerPc
    <3>2. QED
      BY <1>2, <3>1, TrackerGotoType
  <2>4. QED
    BY <2>1, <2>2, <2>3
<1>5. QED
  BY <1>1, <1>3, <1>4 DEF SubmissionTypeOK

LEMMA JobTypes ==
  ASSUME SharedTypeOK, SubmissionTypeOK, JobNext
  PROVE  SharedTypeOK' /\ SubmissionTypeOK' /\ main' = main
<1> USE DEF SubmissionTypeOK, poolVars, clientVars, chainVars, sharedVars
<1>1. PICK j \in jobs : JobFindsRow(j) \/ JobSends(j) \/ JobGivesUp(j)
  BY DEF JobNext
<1>2. j \in JobType /\ j.msg \in MessageType /\ j.msg.old \in Challenges
  BY DEF JobType, MessageType
<1>3. main' = main /\ trackers' = trackers
  BY <1>1 DEF JobFindsRow, JobSends, JobGivesUp
<1>4. jobs' \subseteq JobType
  <2>1. [j EXCEPT !.pc = "send"] \in JobType
    BY <1>2 DEF JobType
  <2>2. jobs' \subseteq jobs \cup {[j EXCEPT !.pc = "send"]}
    BY <1>1 DEF JobFindsRow, JobSends, JobGivesUp
  <2>3. QED
    BY <2>1, <2>2
<1>5. mineSuccess' \in Seq(MessageType)
  BY <1>1, <1>2 DEF JobFindsRow, JobSends, JobGivesUp
<1>6. SharedTypeOK'
  BY <1>1, <1>2 DEF SharedTypeOK, JobFindsRow, JobSends, JobGivesUp, AddChallenge
<1>7. QED
  BY <1>3, <1>4, <1>5, <1>6

LEMMA SubmissionTypes ==
  ASSUME SharedTypeOK, SubmissionTypeOK, AttemptOK, SubmissionNext
  PROVE  SharedTypeOK' /\ SubmissionTypeOK' /\ AttemptOK'
<1>1. CASE MainNext \/ LandTransaction
  <2>1. mineSuccess' = mineSuccess
    BY <1>1, MainJobsType
  <2>2. QED
    BY <1>1, <2>1, MainTypes, MainSharedTypes, MainTrackersType, MainJobsType
    DEF SubmissionTypeOK
<1>2. CASE (\E k \in Trackers : TrackerNext(k)) \/ JobNext
  <2>1. SharedTypeOK' /\ SubmissionTypeOK' /\ main' = main
    BY <1>2, TrackerTypes, JobTypes
  <2>2. QED
    BY <2>1 DEF AttemptOK
<1>3. QED
  BY <1>1, <1>2 DEF SubmissionNext

LEMMA RestartTypes ==
  ASSUME TypeOK, Restart
  PROVE  TypeOK' /\ AttemptOK'
<1> USE DEF TypeOK, SettlementTypeOK, Restart, SettlementRestart
<1>1. SharedTypeOK'
  <2>1. EmptyEpoch(chain) \in EpochType /\ NoRanges \in [Conns -> SUBSET Blocks]
    BY IdleTypes DEF SharedTypeOK
  <2>2. 0 \in Challenges /\ 0 \in 0..MaxNonce
    BY BoundAssumption DEF Challenges
  <2>3. closed' \in BOOLEAN
    BY DEF SharedRestart
  <2>4. stray' \in BOOLEAN
    BY DEF SharedTypeOK, SubmissionRestart
  <2>5. QED
    BY <2>1, <2>2, <2>3, <2>4 DEF SharedTypeOK, SharedRestart
<1>2. WsTypeOK'
  BY IdleTypes DEF WsTypeOK
<1>3. HandlerTypeOK' /\ ReadyTypeOK'
  BY IdleTypes DEF HandlerTypeOK, ReadyTypeOK
<1>4. SubmissionTypeOK'
  BY IdleTypes DEF SubmissionTypeOK, SubmissionRestart
<1>5. AttemptOK'
  BY DEF AttemptOK, SubmissionRestart, MainIdle
<1>6. QED
  BY <1>1, <1>2, <1>3, <1>4, <1>5

LEMMA NextTypes == TypeInv /\ [Next]_vars => TypeInv'
<1> SUFFICES ASSUME TypeInv, [Next]_vars PROVE TypeInv'
  OBVIOUS
<1> USE DEF TypeInv, TypeOK, SettlementTypeOK
<1>1. CASE ChainNext /\ UNCHANGED <<wsVars, handlerVars, readyVars, submissionVars>>
  BY <1>1, ChainTypeOK DEF wsVars, handlerVars, readyVars, submissionVars,
     WsTypeOK, HandlerTypeOK, ReadyTypeOK, SubmissionTypeOK, AttemptOK
<1>2. CASE WsNext /\ UNCHANGED <<handlerVars, readyVars, submissionVars>>
  BY <1>2, WsTypes DEF handlerVars, readyVars, submissionVars,
     HandlerTypeOK, ReadyTypeOK, SubmissionTypeOK, AttemptOK
<1>3. CASE HandlerNext /\ UNCHANGED <<wsVars, readyVars, submissionVars>>
  BY <1>3, HandlerTypes DEF wsVars, readyVars, submissionVars,
     WsTypeOK, ReadyTypeOK, SubmissionTypeOK, AttemptOK
<1>4. CASE ReadyNext /\ UNCHANGED <<wsVars, handlerVars, submissionVars>>
  BY <1>4, ReadyTypes DEF wsVars, handlerVars, submissionVars,
     WsTypeOK, HandlerTypeOK, SubmissionTypeOK, AttemptOK
<1>5. CASE SubmissionNext /\ UNCHANGED <<wsVars, handlerVars, readyVars>>
  BY <1>5, SubmissionTypes DEF wsVars, handlerVars, readyVars,
     WsTypeOK, HandlerTypeOK, ReadyTypeOK
<1>6. CASE UNCHANGED vars
  BY <1>6 DEF vars, settlementVars, sharedVars, poolVars, clientVars, chainVars,
     wsVars, handlerVars, readyVars, submissionVars, SharedTypeOK,
     WsTypeOK, HandlerTypeOK, ReadyTypeOK, SubmissionTypeOK, AttemptOK
<1>7. CASE Restart
  BY <1>7, RestartTypes
<1>8. QED
  BY <1>1, <1>2, <1>3, <1>4, <1>5, <1>6, <1>7 DEF Next

LEMMA InitTypeInv == Init => TypeInv
  BY InitTypeOK DEF TypeInv, AttemptOK, Init, SettlementInit, SubmissionInit,
     MainIdle

\* Every value the program computes has its type: a nonce range exists, a
\* challenge is one the chain can produce, an attempt is one of the ten, and
\* a tracker or a message never holds Option::None.
THEOREM TypeCorrect == Spec => []TypeOK
<1>1. TypeInv => TypeOK
  BY DEF TypeInv
<1>2. QED
  BY <1>1, InitTypeInv, NextTypes, PTL DEF Spec
=============================================================================
