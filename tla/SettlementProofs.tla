--------------------------- MODULE SettlementProofs ---------------------------
(***************************************************************************)
(* The theorems of Pool about the challenges and successes of a round: what*)
(* the server believes of the chain, and what it announces.  They hold for *)
(* every set of connections and trackers and every value of the bounds.    *)
(***************************************************************************)
EXTENDS PoolProofs

-----------------------------------------------------------------------------
(* The announcements.                                                       *)

\* What the loop announces when its transaction is final.
Success == [old |-> main.old, mined |-> main.sol.challenge,
            best |-> main.sol, subs |-> main.subs]

\* Only the loop, when a transaction is final, the tasks and a restart touch the
\* announcements.
LEMMA SuccessWriters ==
  ASSUME Next
  PROVE  UNCHANGED <<jobs, mineSuccess>> \/ Finalized \/ JobNext \/ Restart
<1> SUFFICES ASSUME ~Finalized, ~JobNext, ~Restart
             PROVE  UNCHANGED <<jobs, mineSuccess>>
  OBVIOUS
<1>1. CASE UNCHANGED submissionVars
  BY <1>1 DEF submissionVars
<1>2. CASE MainNext \/ LandTransaction
  BY <1>2 DEF MainNext, LandTransaction, ReadProof, PeekBest,
     CloseForMining, Snapshot, OutOfAttempts, AttemptWithNone, FetchProof,
     FetchFails, UpdateStaleProof, NoBlockhash, SimulationInvalid,
     SendTransaction, SendFails, SendConfirmed, Expired, CheckProof,
     FetchNewProof, FetchNewProofFails, SetProof, CompareEpoch,
     MainResetNonce, MainResetRanges, MainResetEpoch, MainOpenWindow,
     MainAddChallenge
<1>3. CASE \E k \in Trackers : TrackerNext(k)
  BY <1>3 DEF TrackerNext, TrackerCheck, TrackerRead, TrackerFetch,
     TrackerFetchFails, TrackerSetProof, TrackerSetLast, TrackerResetNonce,
     TrackerResetRanges, TrackerResetEpoch, TrackerOpenWindow,
     TrackerAddChallenge
<1>4. QED
  BY <1>1, <1>2, <1>3 DEF Next, SubmissionNext

\* Only the loop brings an announcement of its own into being; the tasks hand
\* on the one they have or drop it.
LEMMA AnnouncedWriters ==
  ASSUME SubmissionTypeOK, Next
  PROVE  \/ Announced' \subseteq Announced
         \/ Finalized /\ Announced' \subseteq Announced \cup {Success}
<1> USE DEF Announced
<1>1. CASE UNCHANGED <<jobs, mineSuccess>>
  BY <1>1
<1>2. CASE Finalized
  <2>1. jobs' = jobs \cup {[pc |-> "row", msg |-> Success]} /\ mineSuccess' = mineSuccess
    BY <1>2 DEF Finalized, Success
  <2>2. Announced' \subseteq Announced \cup {Success}
    BY <2>1
  <2>3. QED
    BY <1>2, <2>2
<1>3. ASSUME NEW j \in jobs, JobFindsRow(j) PROVE Announced' \subseteq Announced
  <2>1. /\ jobs' = (jobs \ {j}) \cup {[j EXCEPT !.pc = "send"]}
        /\ mineSuccess' = mineSuccess
    BY <1>3 DEF JobFindsRow
  <2>2. [j EXCEPT !.pc = "send"].msg = j.msg
    BY DEF SubmissionTypeOK, JobType
  <2>3. QED
    BY <2>1, <2>2
<1>4. ASSUME NEW j \in jobs, JobSends(j) PROVE Announced' \subseteq Announced
  <2>1. jobs' = jobs \ {j} /\ mineSuccess' = Append(mineSuccess, j.msg)
    BY <1>4 DEF JobSends
  <2>2. j.msg \in MessageType /\ mineSuccess \in Seq(MessageType)
    BY DEF SubmissionTypeOK, JobType
  <2>3. /\ Len(mineSuccess') = Len(mineSuccess) + 1
        /\ Len(mineSuccess) \in Nat
        /\ \A n \in 1..Len(mineSuccess) : mineSuccess'[n] = mineSuccess[n]
        /\ mineSuccess'[Len(mineSuccess) + 1] = j.msg
    BY <2>1, <2>2
  <2>4. \A n \in 1..Len(mineSuccess') :
          mineSuccess'[n] = j.msg \/ n \in 1..Len(mineSuccess)
    BY <2>3
  <2>5. QED
    BY <2>1, <2>3, <2>4
<1>5. ASSUME NEW j \in jobs, JobGivesUp(j) PROVE Announced' \subseteq Announced
  BY <1>5 DEF JobGivesUp
<1>6. CASE Restart
  BY <1>6 DEF Restart, SettlementRestart, SubmissionRestart
<1>7. QED
  BY <1>1, <1>2, <1>3, <1>4, <1>5, <1>6, SuccessWriters DEF JobNext

LEMMA AnnouncedHaveWork ==
  AnnouncementHasWork <=> \A m \in Announced : CanBeShared(m.best, m.subs)
  BY DEF AnnouncementHasWork, Announced

\* Inductive, with EpochInv: the table of the epoch holds only submissions that
\* are worth MinDiff, and the reward can be shared by the table the loop has
\* copied, if it has copied a best hash with it.
EpochWorth ==
  \A c \in Conns : epoch.submissions[c] # None =>
    epoch.submissions[c].diff >= MinDiff

SnapshotHasWork == main.sol # None => CanBeShared(main.sol, main.subs)

\* Only ReadProof, Snapshot and the end of a round write the copy.
LEMMA CopyWriters ==
  ASSUME TypeInv, Next
  PROVE  \/ main' = MainIdle
         \/ main'.sol = None /\ main'.subs = NoSubmissions
         \/ main'.sol = epoch.solution /\ main'.subs = epoch.submissions
         \/ main'.sol = main.sol /\ main'.subs = main.subs
<1> USE DEF TypeInv, TypeOK, SettlementTypeOK, SubmissionTypeOK
<1>1. CASE ReadProof
  <2>1. main' = [MainIdle EXCEPT !.pc = "peek", !.old = proof]
    BY <1>1 DEF ReadProof
  <2>2. QED
    BY <2>1 DEF MainIdle
<1>2. CASE Snapshot
  BY <1>2 DEF Snapshot, MainType
<1>3. CASE \/ PeekBest \/ CloseForMining \/ OutOfAttempts
           \/ AttemptWithNone \/ FetchProof \/ FetchFails \/ UpdateStaleProof
           \/ NoBlockhash \/ SimulationInvalid \/ SendTransaction
  BY <1>3 DEF PeekBest, CloseForMining, OutOfAttempts, AttemptWithNone,
     FetchProof, FetchFails, UpdateStaleProof, NoBlockhash, SimulationInvalid,
     SendTransaction, Goto, Discard, NextAttempt, MainType
<1>4. CASE \/ SendFails \/ SendConfirmed \/ Finalized \/ Expired
           \/ CheckProof \/ FetchNewProof \/ FetchNewProofFails \/ SetProof
           \/ LandTransaction
  BY <1>4 DEF SendFails, SendConfirmed, Finalized, Expired, CheckProof,
     FetchNewProof, FetchNewProofFails, SetProof, LandTransaction, Goto,
     Discard, NextAttempt, MainType
<1>5. CASE \/ CompareEpoch \/ MainResetNonce \/ MainResetRanges \/ MainResetEpoch
           \/ MainOpenWindow \/ MainAddChallenge
  BY <1>5 DEF CompareEpoch, MainResetNonce, MainResetRanges, MainResetEpoch,
     MainOpenWindow, MainAddChallenge, Goto, MainType
<1>6. CASE main' = main
  BY <1>6
<1>7. CASE Restart
  BY <1>7 DEF Restart, SettlementRestart, SubmissionRestart
<1>8. ASSUME ~Restart, ~MainNext, ~LandTransaction PROVE main' = main
  BY <1>8, TrackerTypes, JobTypes DEF Next, SubmissionNext, submissionVars
<1>9. QED
  BY <1>1, <1>2, <1>3, <1>4, <1>5, <1>6, <1>7, <1>8 DEF MainNext

\* A task writes what is worth MinDiff, and the other writers empty the table.
LEMMA EpochWorthKept ==
  ASSUME EpochInv, EpochWorth, Next
  PROVE  EpochWorth'
<1>1. ASSUME NEW t \in tasks, WriteEpoch(t) PROVE EpochWorth'
  <2>1. epoch \in EpochType /\ t \in Tasks /\ t.sol.diff >= MinDiff
    BY <1>1 DEF EpochInv, TypeInv, TypeOK, SettlementTypeOK, SharedTypeOK,
       HandlerTypeOK, TasksWorth, WriteEpoch
  <2>2. epoch'.submissions = [epoch.submissions EXCEPT ![t.conn] = t.sol]
    BY <1>1, <2>1 DEF WriteEpoch, EpochType
  <2>3. epoch.submissions \in Submissions
    BY <2>1 DEF EpochType
  <2>4. QED
    BY <2>1, <2>2, <2>3 DEF EpochWorth, Submissions
<1>2. ASSUME NEW ch, epoch' = EmptyEpoch(ch) PROVE EpochWorth'
  BY <1>2 DEF EmptyEpoch, NoSubmissions, EpochWorth
<1>3. CASE Restart
  BY <1>2, <1>3 DEF Restart, SettlementRestart, SharedRestart
<1>4. CASE MainResetEpoch \/ \E k \in Trackers : TrackerResetEpoch(k)
  BY <1>2, <1>4 DEF MainResetEpoch, TrackerResetEpoch, ResetEpoch
<1>5. CASE epoch' = epoch
  BY <1>5 DEF EpochWorth
<1>6. QED
  BY <1>1, <1>3, <1>4, <1>5, EpochWriters

WorkInv == EpochWorth /\ SnapshotHasWork /\ AnnouncementHasWork

LEMMA WorkInvKept == EpochInv /\ WorkInv /\ [Next]_vars => WorkInv'
<1> SUFFICES ASSUME EpochInv, WorkInv, [Next]_vars PROVE WorkInv'
  OBVIOUS
<1>1. CASE Next
  <2>1. SnapshotHasWork'
    <3>1. epoch.solution # None => CanBeShared(epoch.solution, epoch.submissions)
      BY DEF EpochInv, EpochIsConsistent, EpochConsistent, WorkInv, EpochWorth,
         CanBeShared
    <3>2. CASE main' = MainIdle \/ main'.sol = None
      BY <3>2 DEF SnapshotHasWork, MainIdle
    <3>3. CASE main'.sol = epoch.solution /\ main'.subs = epoch.submissions
      BY <3>1, <3>3 DEF SnapshotHasWork, CanBeShared
    <3>4. CASE main'.sol = main.sol /\ main'.subs = main.subs
      BY <3>4 DEF WorkInv, SnapshotHasWork, CanBeShared
    <3>5. QED
      BY <1>1, <3>2, <3>3, <3>4, CopyWriters DEF EpochInv
  <2>2. Finalized => CanBeShared(Success.best, Success.subs)
    <3>1. Success.best = main.sol /\ Success.subs = main.subs
      BY DEF Success
    <3>2. Finalized => main.sol # None
      BY DEF Finalized, EpochInv, TypeInv, AttemptOK
    <3>3. QED
      BY <3>1, <3>2 DEF WorkInv, SnapshotHasWork
  <2>3. \A m \in Announced : CanBeShared(m.best, m.subs)
    BY AnnouncedHaveWork DEF WorkInv
  <2>4. \A m \in Announced' : CanBeShared(m.best, m.subs)
    BY <1>1, <2>2, <2>3, AnnouncedWriters
    DEF EpochInv, TypeInv, TypeOK, SettlementTypeOK
  <2>5. AnnouncementHasWork'
    BY <2>4 DEF AnnouncementHasWork, Announced
  <2>6. QED
    BY <1>1, <2>1, <2>5, EpochWorthKept DEF WorkInv
<1>2. CASE UNCHANGED vars
  BY <1>2 DEF vars, settlementVars, sharedVars, poolVars, submissionVars,
     WorkInv, EpochWorth, SnapshotHasWork, AnnouncementHasWork
<1>3. QED
  BY <1>1, <1>2

LEMMA WorkInvInit == Init => WorkInv
  BY DEF Init, SettlementInit, SharedInit, SubmissionInit, WorkInv, EpochWorth,
     SnapshotHasWork, AnnouncementHasWork, MainIdle, EmptyEpoch, NoSubmissions

\* Whoever empties or writes the table between the moment the loop sees a best
\* hash and the moment the success is announced, the announcement carries
\* submissions to share the reward among, each worth MinDiff and none more than
\* the solution that was mined. (pool_mine_success_system.rs:74-80)
THEOREM AnnouncementAlwaysHasWork == Spec => []AnnouncementHasWork
<1>1. WorkInv => AnnouncementHasWork
  BY DEF WorkInv
<1>2. QED
  BY <1>1, EpochInvInit, EpochInvKept, WorkInvInit, WorkInvKept, PTL DEF Spec

-----------------------------------------------------------------------------
(* What the server knows of the chain.                                      *)

\* Inductive, with TypeInv.  What was read from the chain stays at or behind
\* it; what a tracker or a success calls the old challenge is behind it.
KnownPool ==
  /\ proof <= chain /\ epoch.challenge <= chain /\ lastChallenge < chain
  /\ \A ch \in db : ch <= chain
KnownNotes == ws.new <= chain /\ \A n \in 1..Len(notes) : notes[n] <= chain
KnownLoop ==
  /\ main.old <= chain /\ main.new <= chain
  /\ main.tx = "landed" => main.old < chain
KnownTrackers ==
  \A k \in Trackers : trackers[k].old < chain /\ trackers[k].new <= chain
KnownNews == \A m \in Announced : m.old <= chain

KnownInv ==
  /\ KnownPool
  /\ KnownNotes
  /\ KnownLoop
  /\ KnownTrackers
  /\ KnownNews

LEMMA ChallengesAreNat == Challenges \subseteq Nat
  BY DEF Challenges

\* The values that KnownInv compares.
LEMMA KnownTypes ==
  ASSUME TypeInv
  PROVE  /\ proof \in Nat /\ epoch.challenge \in Nat /\ lastChallenge \in Nat
         /\ chain \in Nat /\ \A ch \in db : ch \in Nat
         /\ ws.new \in Nat /\ \A n \in 1..Len(notes) : notes[n] \in Nat
         /\ Len(notes) \in Nat /\ notes \in Seq(Challenges)
         /\ main.old \in Nat /\ main.new \in Nat
         /\ \A k \in Trackers : trackers[k].old \in Nat /\ trackers[k].new \in Nat
         /\ \A m \in Announced : m.old \in Nat /\ m.mined \in Nat
<1> USE ChallengesAreNat DEF TypeInv, TypeOK, SettlementTypeOK
<1>1. /\ proof \in Nat /\ lastChallenge \in Nat /\ chain \in Nat
      /\ \A ch \in db : ch \in Nat
      /\ notes \in Seq(Challenges)
  BY DEF SharedTypeOK
<1>2. epoch.challenge \in Nat
  BY DEF SharedTypeOK, EpochType
<1>3. Len(notes) \in Nat /\ \A n \in 1..Len(notes) : notes[n] \in Nat
  <2>1. Len(notes) \in Nat /\ \A n \in 1..Len(notes) : notes[n] \in Challenges
    BY ONLY <1>1
  <2>2. QED
    BY <2>1
<1>4. ws.new \in Nat
  BY DEF WsTypeOK
<1>5. main.old \in Nat /\ main.new \in Nat
  BY DEF SubmissionTypeOK, MainType
<1>6. \A k \in Trackers : trackers[k].old \in Nat /\ trackers[k].new \in Nat
  BY DEF SubmissionTypeOK, TrackerType
<1>7. Announced \subseteq MessageType
  BY DEF SubmissionTypeOK, JobType, Announced
<1>8. \A m \in Announced : m.old \in Nat /\ m.mined \in Nat
  BY <1>7 DEF MessageType
<1>9. QED
  BY <1>1, <1>2, <1>3, <1>4, <1>5, <1>6, <1>8

\* The chain goes on by one challenge or not at all.
LEMMA ChainGrows ==
  ASSUME TypeInv, Next
  PROVE  /\ chain' = chain \/ chain' = chain + 1
         /\ chain' # chain => LandTransaction \/ LandStray
<1> USE DEF sharedVars, poolVars, clientVars, chainVars
<1>1. CASE ChainNext \/ WsNext \/ Restart
  BY <1>1 DEF ChainNext, Tick, LandStray, TouchProof, WsNext, WsReceive,
     WsWrite, WsReconnect, Advance, Restart, SettlementRestart, SharedRestart
<1>2. CASE HandlerNext
  BY <1>2 DEF HandlerNext, Connect, Disconnect, BecomeReady, Submit, TaskStep,
     CheckWindow, CheckRange, CheckSolution, ReadEpoch, WriteEpoch
<1>3. CASE ReadyNext
  BY <1>3 DEF ReadyNext, ReadyLoop, Poll, CheckBest, CheckClosed, ReadChallenge,
     Remove, Pick, Give, SendStep, SendMessage, ReadRanges, WriteRanges
<1>4. CASE MainNext \/ LandTransaction
  BY <1>4 DEF MainNext, LandTransaction, Advance, ReadProof, PeekBest,
     CloseForMining, Snapshot, OutOfAttempts, AttemptWithNone, FetchProof,
     FetchFails, UpdateStaleProof, NoBlockhash, SimulationInvalid,
     SendTransaction, SendFails, SendConfirmed, Finalized, Expired, CheckProof,
     FetchNewProof, FetchNewProofFails, SetProof, CompareEpoch, MainResetNonce,
     MainResetRanges, MainResetEpoch, MainOpenWindow, MainAddChallenge
<1>5. CASE \E k \in Trackers : TrackerNext(k)
  BY <1>5 DEF TrackerNext, TrackerCheck, TrackerRead, TrackerFetch,
     TrackerFetchFails, TrackerSetProof, TrackerSetLast, TrackerResetNonce,
     TrackerResetRanges, TrackerResetEpoch, TrackerOpenWindow,
     TrackerAddChallenge
<1>6. CASE JobNext
  BY <1>6 DEF JobNext, JobFindsRow, JobSends, JobGivesUp
<1>7. QED
  BY <1>1, <1>2, <1>3, <1>4, <1>5, <1>6 DEF Next, SubmissionNext

\* What was known stays known when the chain moves.
LEMMA KnownWhenChainGrows ==
  ASSUME TypeInv, KnownInv, chain' \in {chain, chain + 1},
         UNCHANGED <<proof, epoch, lastChallenge, db>>
  PROVE  KnownPool'
<1>1. \A ch \in db' : ch <= chain'
  BY KnownTypes DEF KnownInv, KnownPool
<1>2. QED
  BY <1>1, KnownTypes DEF KnownInv, KnownPool

LEMMA NotifyKnown ==
  ASSUME TypeInv, KnownNotes, NEW ch \in Nat, Notify(ch), ch <= chain',
         chain' \in {chain, chain + 1}
  PROVE  \A n \in 1..Len(notes') : notes'[n] <= chain'
<1>1. \A n \in 1..Len(notes) : notes[n] <= chain'
  BY KnownTypes DEF KnownNotes
<1>2. CASE UNCHANGED notes
  BY <1>1, <1>2
<1>3. CASE notes' = Append(notes, ch)
  <2>1. /\ Len(notes') = Len(notes) + 1 /\ notes'[Len(notes) + 1] = ch
        /\ \A n \in 1..Len(notes) : notes'[n] = notes[n]
    BY <1>3, KnownTypes
  <2>2. \A n \in 1..Len(notes') : n = Len(notes) + 1 \/ n \in 1..Len(notes)
    BY <2>1, KnownTypes
  <2>3. QED
    BY <1>1, <2>1, <2>2
<1>4. QED
  BY <1>2, <1>3 DEF Notify

LEMMA AdvanceKnown ==
  ASSUME TypeInv, KnownNotes, Advance, UNCHANGED ws PROVE KnownNotes'
<1>1. chain' = chain + 1 /\ Notify(chain + 1)
  BY DEF Advance
<1>2. chain + 1 \in Nat /\ chain + 1 <= chain'
  BY <1>1, KnownTypes
<1>3. \A n \in 1..Len(notes') : notes'[n] <= chain'
  BY <1>1, <1>2, NotifyKnown
<1>4. QED
  BY <1>1, <1>3, KnownTypes DEF KnownNotes

\* The steps of the other systems leave the loop and the trackers alone.
LEMMA KnownOfSubmissions ==
  ASSUME TypeInv, KnownInv, chain' \in {chain, chain + 1},
         UNCHANGED submissionVars
  PROVE  KnownLoop' /\ KnownTrackers' /\ KnownNews'
<1>1. \A m \in Announced : m.old <= chain'
  BY KnownTypes DEF KnownInv, KnownNews
<1>2. Announced' = Announced
  BY DEF Announced, submissionVars
<1>3. \A k \in Trackers : trackers[k].old < chain' /\ trackers[k].new <= chain'
  BY KnownTypes DEF KnownInv, KnownTrackers
<1>4. QED
  BY <1>1, <1>2, <1>3, KnownTypes
  DEF submissionVars, KnownInv, KnownLoop, KnownTrackers, KnownNews

LEMMA ChainKnown ==
  ASSUME TypeInv, KnownInv, ChainNext,
         UNCHANGED <<wsVars, submissionVars>>
  PROVE  KnownInv'
<1>1. /\ UNCHANGED <<proof, epoch, lastChallenge, db, ws>>
      /\ chain' \in {chain, chain + 1}
  BY DEF ChainNext, Tick, LandStray, TouchProof, Advance, poolVars, wsVars
<1>2. KnownNotes'
  <2>1. CASE Tick
    BY <1>1, <2>1 DEF Tick, KnownInv, KnownNotes
  <2>2. CASE LandStray
    BY <1>1, <2>2, AdvanceKnown DEF LandStray, KnownInv
  <2>3. CASE TouchProof
    <3>1. chain' = chain /\ Notify(chain) /\ chain \in Nat /\ chain <= chain'
      BY <2>3, KnownTypes DEF TouchProof
    <3>2. \A n \in 1..Len(notes') : notes'[n] <= chain'
      BY <3>1, NotifyKnown DEF KnownInv
    <3>3. QED
      BY <1>1, <3>1, <3>2 DEF KnownInv, KnownNotes
  <2>4. QED
    BY <2>1, <2>2, <2>3 DEF ChainNext
<1>3. QED
  BY <1>1, <1>2, KnownWhenChainGrows, KnownOfSubmissions DEF KnownInv

LEMMA WsKnown ==
  ASSUME TypeInv, KnownInv, WsNext, UNCHANGED submissionVars
  PROVE  KnownInv'
<1>1. UNCHANGED <<epoch, lastChallenge, db, chain>>
  BY DEF WsNext, WsReceive, WsWrite, WsReconnect, poolVars, chainVars
<1>2. KnownLoop' /\ KnownTrackers' /\ KnownNews'
  BY <1>1, KnownOfSubmissions
<1>3. CASE WsReceive
  <2>1. notes' = Tail(notes) /\ proof' = proof /\ notes # <<>>
    BY <1>3 DEF WsReceive, poolVars
  <2>2. Head(notes) <= chain
    BY <2>1, KnownTypes DEF KnownInv, KnownNotes
  <2>3. /\ Len(notes') = Len(notes) - 1
        /\ \A n \in 1..Len(notes') : notes'[n] = notes[n + 1]
    BY <2>1, KnownTypes
  <2>4. \A n \in 1..Len(notes') : notes'[n] <= chain
    <3>1. \A n \in 1..Len(notes') : n + 1 \in 1..Len(notes)
      BY <2>3, KnownTypes
    <3>2. QED
      BY <2>3, <3>1 DEF KnownInv, KnownNotes
  <2>5. ws'.new <= chain
    BY <1>3, <2>2 DEF WsReceive, KnownInv, KnownNotes
  <2>6. QED
    BY <1>1, <1>2, <2>1, <2>4, <2>5 DEF KnownInv, KnownPool, KnownNotes
<1>4. CASE WsWrite
  <2>1. proof' = ws.new /\ ws' = WsIdle /\ notes' = notes
    BY <1>4 DEF WsWrite, chainVars
  <2>2. ws'.new <= chain
    BY <2>1, KnownTypes DEF WsIdle
  <2>3. QED
    BY <1>1, <1>2, <2>1, <2>2 DEF KnownInv, KnownPool, KnownNotes
<1>5. CASE WsReconnect
  <2>1. notes' = <<>> /\ ws' = ws /\ proof' = proof
    BY <1>5 DEF WsReconnect, poolVars
  <2>2. \A n \in 1..Len(notes') : notes'[n] <= chain
    BY <2>1
  <2>3. QED
    BY <1>1, <1>2, <2>1, <2>2 DEF KnownInv, KnownPool, KnownNotes
<1>6. QED
  BY <1>3, <1>4, <1>5 DEF WsNext

\* Handing out work and taking submissions touch nothing that KnownInv names.
LEMMA ClientsKnown ==
  ASSUME TypeInv, KnownInv, HandlerNext \/ ReadyNext,
         UNCHANGED <<wsVars, submissionVars>>
  PROVE  KnownInv'
<1> USE DEF sharedVars, poolVars, clientVars, chainVars
<1>1. UNCHANGED <<proof, lastChallenge, db, chain, notes>>
  <2>1. CASE HandlerNext
    BY <2>1 DEF HandlerNext, Connect, Disconnect, BecomeReady, Submit, TaskStep,
       CheckWindow, CheckRange, CheckSolution, ReadEpoch, WriteEpoch
  <2>2. CASE ReadyNext
    BY <2>2 DEF ReadyNext, ReadyLoop, Poll, CheckBest, CheckClosed,
       ReadChallenge, Remove, Pick, Give, SendStep, SendMessage, ReadRanges,
       WriteRanges
  <2>3. QED
    BY <2>1, <2>2
<1>2. epoch'.challenge = epoch.challenge
  <2>1. CASE \E t \in tasks : WriteEpoch(t)
    BY <2>1 DEF WriteEpoch, TypeInv, TypeOK, SettlementTypeOK, SharedTypeOK,
       EpochType
  <2>2. CASE ~(\E t \in tasks : WriteEpoch(t))
    <3>1. CASE HandlerNext
      BY <2>2, <3>1 DEF HandlerNext, Connect, Disconnect, BecomeReady, Submit,
         TaskStep, CheckWindow, CheckRange, CheckSolution, ReadEpoch
    <3>2. CASE ReadyNext
      BY <3>2 DEF ReadyNext, ReadyLoop, Poll, CheckBest, CheckClosed,
         ReadChallenge, Remove, Pick, Give, SendStep, SendMessage, ReadRanges,
         WriteRanges
    <3>3. QED
      BY <3>1, <3>2
  <2>3. QED
    BY <2>1, <2>2
<1>3. QED
  BY <1>1, <1>2, KnownOfSubmissions
  DEF wsVars, KnownInv, KnownPool, KnownNotes

\* What a step of the loop does to the challenges it remembers and to its
\* transaction.
LEMMA LoopFields ==
  ASSUME TypeInv, MainNext
  PROVE  \/ main' = MainIdle
         \/ main'.old = proof /\ main'.new = 0 /\ main'.tx = "none"
         \/ /\ main'.old = main.old
            /\ main'.new \in {main.new, chain, proof}
            /\ main'.tx \in {main.tx, "flight"}
<1> USE DEF TypeInv, TypeOK, SettlementTypeOK, SubmissionTypeOK
<1>1. CASE ReadProof
  BY <1>1 DEF ReadProof, MainIdle
<1>2. CASE \/ PeekBest \/ CloseForMining \/ Snapshot \/ OutOfAttempts
           \/ AttemptWithNone \/ FetchProof \/ FetchFails \/ UpdateStaleProof
           \/ NoBlockhash \/ SimulationInvalid \/ SendTransaction
  BY <1>2 DEF PeekBest, CloseForMining, Snapshot, OutOfAttempts, AttemptWithNone,
     FetchProof, FetchFails, UpdateStaleProof, NoBlockhash, SimulationInvalid,
     SendTransaction, Goto, Discard, NextAttempt, MainType
<1>3. CASE \/ SendFails \/ SendConfirmed \/ Finalized \/ Expired
           \/ CheckProof \/ FetchNewProof \/ FetchNewProofFails \/ SetProof
  BY <1>3 DEF SendFails, SendConfirmed, Finalized, Expired, CheckProof,
     FetchNewProof, FetchNewProofFails, SetProof, Goto, Discard, NextAttempt,
     MainType
<1>4. CASE \/ CompareEpoch \/ MainResetNonce \/ MainResetRanges \/ MainResetEpoch
           \/ MainOpenWindow \/ MainAddChallenge
  BY <1>4 DEF CompareEpoch, MainResetNonce, MainResetRanges, MainResetEpoch,
     MainOpenWindow, MainAddChallenge, Goto, MainType
<1>5. QED
  BY <1>1, <1>2, <1>3, <1>4 DEF MainNext

LEMMA MainLoopKnown ==
  ASSUME TypeInv, KnownInv, MainNext, chain' = chain
  PROVE  KnownLoop'
<1>1. CASE main' = MainIdle
  BY <1>1, KnownTypes DEF MainIdle, KnownLoop
<1>2. CASE main'.old = proof /\ main'.new = 0 /\ main'.tx = "none"
  BY <1>2, KnownTypes DEF KnownInv, KnownPool, KnownLoop
<1>3. CASE /\ main'.old = main.old
           /\ main'.new \in {main.new, chain, proof}
           /\ main'.tx \in {main.tx, "flight"}
  BY <1>3, KnownTypes DEF KnownInv, KnownPool, KnownLoop
<1>4. QED
  BY <1>1, <1>2, <1>3, LoopFields

\* What the loop writes to the proof, the epoch and the database it has read
\* from the chain or from the proof.
LEMMA MainPoolKnown ==
  ASSUME TypeInv, KnownInv, MainNext
  PROVE  KnownPool' /\ UNCHANGED <<chain, notes>>
<1> USE DEF KnownInv, KnownPool, KnownLoop
<1>1. UNCHANGED <<chain, notes, lastChallenge>>
  BY DEF MainNext, ReadProof, PeekBest, CloseForMining, Snapshot, OutOfAttempts,
     AttemptWithNone, FetchProof, FetchFails, UpdateStaleProof, NoBlockhash,
     SimulationInvalid, SendTransaction, SendFails, SendConfirmed, Finalized,
     Expired, CheckProof, FetchNewProof, FetchNewProofFails, SetProof,
     CompareEpoch, MainResetNonce, MainResetRanges, MainResetEpoch,
     MainOpenWindow, MainAddChallenge, sharedVars, poolVars, chainVars
<1>2. CASE UpdateStaleProof \/ SetProof
  BY <1>1, <1>2 DEF UpdateStaleProof, SetProof
<1>3. CASE MainResetEpoch
  <2>1. epoch'.challenge \in {epoch.challenge, main.new}
    BY <1>3 DEF MainResetEpoch, ResetEpoch, EmptyEpoch
  <2>2. UNCHANGED <<proof, db>>
    BY <1>3 DEF MainResetEpoch
  <2>3. QED
    BY <1>1, <2>1, <2>2
<1>4. CASE MainAddChallenge
  <2>1. db' \subseteq db \cup {main.old, main.new}
    BY <1>4 DEF MainAddChallenge, AddChallenge
  <2>2. UNCHANGED <<proof, epoch>>
    BY <1>4 DEF MainAddChallenge
  <2>3. QED
    BY <1>1, <2>1, <2>2
<1>5. CASE ~(\/ UpdateStaleProof \/ SetProof \/ MainResetEpoch
             \/ MainAddChallenge)
  <2>1. UNCHANGED <<proof, epoch, db>>
    BY <1>5 DEF MainNext, ReadProof, PeekBest, CloseForMining, Snapshot,
       OutOfAttempts, AttemptWithNone, FetchProof, FetchFails, NoBlockhash,
       SimulationInvalid, SendTransaction, SendFails, SendConfirmed, Finalized,
       Expired, CheckProof, FetchNewProof, FetchNewProofFails, CompareEpoch,
       MainResetNonce, MainResetRanges, MainOpenWindow, sharedVars, poolVars
  <2>2. QED
    BY <1>1, <2>1
<1>6. QED
  BY <1>1, <1>2, <1>3, <1>4, <1>5

\* A tracker is started only for a transaction that has landed, so that the
\* chain has left its old challenge behind.
LEMMA MainTrackersKnown ==
  ASSUME TypeInv, KnownInv, MainNext, chain' = chain
  PROVE  KnownTrackers'
<1> USE DEF KnownInv, KnownTrackers, TypeInv, TypeOK, SettlementTypeOK,
            SubmissionTypeOK
<1>1. CASE SendConfirmed
  <2>1. main.old < chain
    BY <1>1 DEF SendConfirmed, KnownLoop
  <2>2. PICK free \in FreeSlots :
          trackers' = [trackers EXCEPT ![free] =
                         [TrackerIdle EXCEPT !.pc = "check", !.old = main.old]]
    BY <1>1 DEF SendConfirmed
  <2>3. ASSUME NEW k \in Trackers
        PROVE  trackers'[k].old < chain /\ trackers'[k].new <= chain
    <3>1. CASE k = free
      <4>1. trackers'[k].old = main.old /\ trackers'[k].new = 0
        BY <2>2, <3>1 DEF TrackerIdle
      <4>2. QED
        BY <2>1, <4>1, KnownTypes
    <3>2. CASE k # free
      BY <2>2, <3>2
    <3>3. QED
      BY <3>1, <3>2
  <2>4. QED
    BY <2>3
<1>2. CASE Finalized \/ Expired
  <2>1. \A k \in Trackers : /\ trackers'[k].old = trackers[k].old
                            /\ trackers'[k].new = trackers[k].new
    BY <1>2 DEF Finalized, Expired, StopTrackers, TrackerType
  <2>2. QED
    BY <2>1
<1>3. CASE ~SendConfirmed /\ ~Finalized /\ ~Expired
  <2>1. trackers' = trackers
    BY <1>3 DEF MainNext, ReadProof, PeekBest, CloseForMining, Snapshot,
       OutOfAttempts, AttemptWithNone, FetchProof, FetchFails, UpdateStaleProof,
       NoBlockhash, SimulationInvalid, SendTransaction, SendFails, CheckProof,
       FetchNewProof, FetchNewProofFails, SetProof, CompareEpoch,
       MainResetNonce, MainResetRanges, MainResetEpoch, MainOpenWindow,
       MainAddChallenge
  <2>2. QED
    BY <2>1
<1>4. QED
  BY <1>1, <1>2, <1>3

\* Nothing is announced for an old challenge that the loop does not know.
LEMMA NewsKnown ==
  ASSUME TypeInv, KnownInv, Next
  PROVE  KnownNews'
<1>1. chain' \in {chain, chain + 1}
  BY ChainGrows
<1>2. \A m \in Announced : m.old <= chain'
  BY <1>1, KnownTypes DEF KnownInv, KnownNews
<1>3. Success.old <= chain'
  BY <1>1, KnownTypes DEF Success, KnownInv, KnownLoop
<1>4. Announced' \subseteq Announced \cup {Success}
  BY AnnouncedWriters DEF TypeInv, TypeOK, SettlementTypeOK
<1>5. QED
  BY <1>2, <1>3, <1>4 DEF KnownNews

LEMMA MainKnown ==
  ASSUME TypeInv, KnownInv, MainNext, UNCHANGED wsVars, Next
  PROVE  KnownInv'
<1>1. KnownPool' /\ UNCHANGED <<chain, notes>>
  BY MainPoolKnown
<1>2. KnownLoop' /\ KnownTrackers' /\ KnownNews'
  BY <1>1, MainLoopKnown, MainTrackersKnown, NewsKnown
<1>3. KnownNotes'
  BY <1>1 DEF KnownInv, KnownNotes, wsVars
<1>4. QED
  BY <1>1, <1>2, <1>3 DEF KnownInv

\* The transaction lands: the proof it was built for is behind the chain.
LEMMA LandKnown ==
  ASSUME TypeInv, KnownInv, LandTransaction, UNCHANGED wsVars, Next
  PROVE  KnownInv'
<1>1. /\ UNCHANGED <<proof, epoch, lastChallenge, db, trackers, ws>>
      /\ chain' = chain + 1
      /\ main'.old = main.old /\ main'.new = main.new
  BY DEF LandTransaction, Advance, poolVars, wsVars, TypeInv, TypeOK,
     SettlementTypeOK, SubmissionTypeOK, MainType
<1>2. KnownPool'
  BY <1>1, KnownWhenChainGrows
<1>3. KnownNotes'
  BY <1>1, AdvanceKnown DEF LandTransaction, KnownInv
<1>4. KnownLoop' /\ KnownTrackers'
  BY <1>1, KnownTypes DEF KnownInv, KnownLoop, KnownTrackers
<1>5. QED
  BY <1>2, <1>3, <1>4, NewsKnown DEF KnownInv

\* A tracker remembers and writes what it has read, and its old challenge only
\* as the last one.
LEMMA TrackerKnown ==
  ASSUME TypeInv, KnownInv, NEW k \in Trackers, TrackerNext(k),
         UNCHANGED wsVars, Next
  PROVE  KnownInv'
<1> USE DEF KnownInv, KnownPool, KnownTrackers
<1>1. UNCHANGED <<main, chain, notes>>
  BY DEF TrackerNext, TrackerCheck, TrackerRead, TrackerFetch,
     TrackerFetchFails, TrackerSetProof, TrackerSetLast, TrackerResetNonce,
     TrackerResetRanges, TrackerResetEpoch, TrackerOpenWindow,
     TrackerAddChallenge, sharedVars, poolVars, chainVars
<1>2. \A l \in Trackers :
        /\ trackers'[l].old \in {0, trackers[l].old}
        /\ trackers'[l].new \in {0, trackers[l].new, chain, proof}
  <2>1. trackers \in [Trackers -> TrackerType]
    BY DEF TypeInv, TypeOK, SettlementTypeOK, SubmissionTypeOK
  <2>2. \/ TrackerEnds(k)
        \/ \E pc \in TrackerPc : TrackerGoto(k, pc)
        \/ trackers' = [trackers EXCEPT ![k].pc = "last", ![k].route = "seen",
                                        ![k].new = proof]
        \/ trackers' = [trackers EXCEPT ![k].pc = "setproof", ![k].route = "rpc",
                                        ![k].new = chain]
    <3>1. CASE TrackerRead(k) \/ TrackerFetch(k)
      BY <3>1 DEF TrackerRead, TrackerFetch, TrackerPc
    <3>2. CASE ~(TrackerRead(k) \/ TrackerFetch(k))
      BY <3>2 DEF TrackerNext, TrackerCheck, TrackerFetchFails, TrackerSetProof,
         TrackerSetLast, TrackerResetNonce, TrackerResetRanges,
         TrackerResetEpoch, TrackerOpenWindow, TrackerAddChallenge, TrackerPc
    <3>3. QED
      BY <3>1, <3>2
  <2>3. /\ trackers'[k].old \in {0, trackers[k].old}
        /\ trackers'[k].new \in {0, trackers[k].new, chain, proof}
        /\ \A l \in Trackers : l # k => trackers'[l] = trackers[l]
    BY <2>1, <2>2 DEF TrackerEnds, TrackerGoto, TrackerIdle, TrackerType
  <2>4. QED
    BY <2>3
<1>3. KnownTrackers'
  <2>1. ASSUME NEW l \in Trackers
        PROVE  trackers'[l].old < chain /\ trackers'[l].new <= chain
    <3>1. /\ trackers[l].old \in Nat /\ trackers[l].new \in Nat
          /\ trackers[l].old < chain /\ trackers[l].new <= chain
          /\ chain \in Nat /\ 0 < chain /\ proof <= chain
      BY KnownTypes
    <3>2. QED
      BY <1>2, <3>1
  <2>2. QED
    BY <1>1, <2>1
<1>4. KnownPool'
  <2>1. CASE TrackerSetProof(k)
    BY <1>1, <2>1 DEF TrackerSetProof
  <2>2. CASE TrackerSetLast(k)
    BY <1>1, <2>2 DEF TrackerSetLast
  <2>3. CASE TrackerResetEpoch(k)
    <3>1. epoch'.challenge = trackers[k].new
      BY <2>3 DEF TrackerResetEpoch, ResetEpoch, EmptyEpoch
    <3>2. UNCHANGED <<proof, lastChallenge, db>>
      BY <2>3 DEF TrackerResetEpoch
    <3>3. QED
      BY <1>1, <3>1, <3>2
  <2>4. CASE TrackerAddChallenge(k)
    <3>1. db' = db \cup {trackers[k].new}
      BY <2>4 DEF TrackerAddChallenge, AddChallenge
    <3>2. UNCHANGED <<proof, lastChallenge, epoch>>
      BY <2>4 DEF TrackerAddChallenge
    <3>3. QED
      BY <1>1, <3>1, <3>2
  <2>5. CASE UNCHANGED <<proof, lastChallenge, epoch, db>>
    BY <1>1, <2>5
  <2>6. \/ TrackerSetProof(k) \/ TrackerSetLast(k) \/ TrackerResetEpoch(k)
        \/ TrackerAddChallenge(k) \/ UNCHANGED <<proof, lastChallenge, epoch, db>>
    BY DEF TrackerNext, TrackerCheck, TrackerRead, TrackerFetch,
       TrackerFetchFails, TrackerResetNonce, TrackerResetRanges,
       TrackerOpenWindow, sharedVars, poolVars
  <2>7. QED
    BY <2>1, <2>2, <2>3, <2>4, <2>5, <2>6
<1>5. KnownLoop' /\ KnownNotes'
  BY <1>1 DEF KnownLoop, KnownNotes, wsVars
<1>6. QED
  BY <1>3, <1>4, <1>5, NewsKnown

LEMMA JobKnown ==
  ASSUME TypeInv, KnownInv, JobNext, UNCHANGED wsVars, Next
  PROVE  KnownInv'
<1>1. /\ UNCHANGED <<main, trackers, proof, epoch, lastChallenge, chain, notes>>
      /\ db' \subseteq db \cup {j.msg.old : j \in jobs}
  <2>1. PICK j \in jobs : JobFindsRow(j) \/ JobSends(j) \/ JobGivesUp(j)
    BY DEF JobNext
  <2>2. UNCHANGED <<main, trackers, proof, epoch, lastChallenge, chain, notes>>
    BY <2>1 DEF JobFindsRow, JobSends, JobGivesUp, sharedVars, poolVars, chainVars
  <2>3. db' = db \/ db' = db \cup {j.msg.old}
    BY <2>1 DEF JobFindsRow, JobSends, JobGivesUp, AddChallenge, sharedVars,
       poolVars
  <2>4. QED
    BY <2>2, <2>3
<1>2. \A j \in jobs : j.msg.old <= chain
  BY DEF KnownInv, KnownNews, Announced
<1>3. KnownPool'
  BY <1>1, <1>2 DEF KnownInv, KnownPool
<1>4. KnownNotes' /\ KnownLoop' /\ KnownTrackers'
  BY <1>1 DEF KnownInv, KnownNotes, KnownLoop, KnownTrackers, wsVars
<1>5. QED
  BY <1>3, <1>4, NewsKnown DEF KnownInv

LEMMA RestartKnown ==
  ASSUME TypeInv, KnownInv, Restart PROVE KnownInv'
<1>1. /\ chain' = chain /\ proof' = chain /\ lastChallenge' = 0
      /\ epoch'.challenge = chain /\ db' = db \cup {chain} /\ notes' = <<>>
      /\ ws' = WsIdle /\ main' = MainIdle
      /\ trackers' = [k \in Trackers |-> TrackerIdle]
  BY DEF Restart, SettlementRestart, SharedRestart, SubmissionRestart, EmptyEpoch
<1>2. chain \in Nat /\ 0 < chain
  BY KnownTypes DEF KnownInv, KnownPool
<1>3. KnownPool' /\ KnownNotes'
  BY <1>1, <1>2 DEF KnownInv, KnownPool, KnownNotes, WsIdle
<1>4. KnownLoop' /\ KnownTrackers'
  BY <1>1, <1>2 DEF KnownLoop, KnownTrackers, MainIdle, TrackerIdle
<1>5. Next
  BY DEF Next
<1>6. QED
  BY <1>3, <1>4, <1>5, NewsKnown DEF KnownInv

LEMMA KnownInit == Init => KnownInv
<1> SUFFICES ASSUME Init PROVE KnownInv
  OBVIOUS
<1> USE DEF Init, SettlementInit
<1>1. KnownPool /\ (\A n \in 1..Len(notes) : notes[n] <= chain)
  BY DEF SharedInit, KnownPool, EmptyEpoch
<1>2. KnownNotes
  BY <1>1 DEF KnownNotes, WsInit, WsIdle, SharedInit
<1>3. KnownLoop /\ KnownTrackers /\ KnownNews
  BY DEF SubmissionInit, SharedInit, MainIdle, TrackerIdle, KnownLoop,
     KnownTrackers, KnownNews, Announced
<1>4. QED
  BY <1>1, <1>2, <1>3 DEF KnownInv

LEMMA KnownKept == TypeInv /\ KnownInv /\ [Next]_vars => KnownInv'
<1> SUFFICES ASSUME TypeInv, KnownInv, [Next]_vars PROVE KnownInv'
  OBVIOUS
<1>1. CASE Restart
  BY <1>1, RestartKnown
<1>2. CASE ChainNext /\ UNCHANGED <<wsVars, handlerVars, readyVars, submissionVars>>
  BY <1>2, ChainKnown
<1>3. CASE WsNext /\ UNCHANGED <<handlerVars, readyVars, submissionVars>>
  BY <1>3, WsKnown
<1>4. CASE \/ HandlerNext /\ UNCHANGED <<wsVars, readyVars, submissionVars>>
           \/ ReadyNext /\ UNCHANGED <<wsVars, handlerVars, submissionVars>>
  BY <1>4, ClientsKnown
<1>5. CASE SubmissionNext /\ UNCHANGED <<wsVars, handlerVars, readyVars>>
  <2>1. Next
    BY <1>5 DEF Next
  <2>2. QED
    BY <1>5, <2>1, MainKnown, LandKnown, TrackerKnown, JobKnown
    DEF SubmissionNext
<1>6. CASE UNCHANGED vars
  BY <1>6 DEF vars, settlementVars, sharedVars, poolVars, chainVars, wsVars,
     submissionVars, KnownInv, KnownPool, KnownNotes, KnownLoop, KnownTrackers,
     KnownNews, Announced
<1>7. QED
  BY <1>1, <1>2, <1>3, <1>4, <1>5, <1>6 DEF Next

\* However late, early or often the websocket, the RPC node and any number of
\* trackers bring a challenge, and wherever a restart cuts them off, nothing in
\* memory or in the database runs ahead of the chain, and the challenge that
\* notifications are compared with is always behind it.
THEOREM NeverFromTheFuture == Spec => []NothingFromTheFuture
<1>1. KnownInv => NothingFromTheFuture
  BY DEF KnownInv, KnownPool, KnownNews, NothingFromTheFuture
<1>2. Init => TypeInv /\ KnownInv
  BY InitTypeInv, KnownInit
<1>3. TypeInv /\ KnownInv /\ [Next]_vars => (TypeInv /\ KnownInv)'
  BY NextTypes, KnownKept
<1>4. QED
  BY <1>1, <1>2, <1>3, PTL DEF Spec

-----------------------------------------------------------------------------
(* A success is announced once.                                             *)

\* Inductive, with TypeInv.  The loop waits for finality only of a transaction
\* that has landed; one that has landed has mined a challenge the chain has
\* left, which is nobody's announcement until it is final.
NotSentYet == main.pc \in {"peek", "close", "snap"} => main.tx = "none"
FinalHasLanded == main.pc = "finalize" => main.tx = "landed"
LandedIsMined ==
  main.tx = "landed" => main.sol # None /\ main.sol.challenge < chain
LandedIsUnannounced ==
  main.tx = "landed" /\ main.pc \in {"send", "finalize"} =>
    \A m \in Announced : m.mined # main.sol.challenge

Distinct ==
  /\ \A m, n \in 1..Len(mineSuccess) :
       m # n => mineSuccess[m].mined # mineSuccess[n].mined
  /\ \A j \in jobs : \A n \in 1..Len(mineSuccess) :
       mineSuccess[n].mined # j.msg.mined
  /\ \A i, j \in jobs : i # j => i.msg.mined # j.msg.mined

OnceInv ==
  /\ NotSentYet
  /\ FinalHasLanded
  /\ LandedIsMined
  /\ LandedIsUnannounced
  /\ \A m \in Announced : m.mined < chain
  /\ Distinct

\* The four about the loop, for a step that is not the loop's.
LEMMA OthersKeepLanded ==
  ASSUME TypeInv, OnceInv, Next, ~Finalized, main' = main
  PROVE  NotSentYet' /\ FinalHasLanded' /\ LandedIsMined' /\ LandedIsUnannounced'
<1>1. Announced' \subseteq Announced
  BY AnnouncedWriters DEF TypeInv, TypeOK, SettlementTypeOK
<1>2. main.tx = "landed" => main.sol.challenge < chain'
  <2>1. main.sol # None => main.sol.challenge \in Nat
    BY ChallengesAreNat DEF TypeInv, TypeOK, SettlementTypeOK, SubmissionTypeOK,
       MainType, Solutions
  <2>2. QED
    BY <2>1, ChainGrows, KnownTypes DEF OnceInv, LandedIsMined
<1>3. QED
  BY <1>1, <1>2 DEF OnceInv, NotSentYet, FinalHasLanded, LandedIsMined,
     LandedIsUnannounced

\* A step of the loop that keeps its transaction and its solution, and neither
\* sends nor waits for finality after it.
LEMMA LoopKeepsLanded ==
  ASSUME OnceInv, chain' = chain,
         main'.tx = main.tx, main'.sol = main.sol,
         main'.pc \notin {"peek", "close", "snap", "send", "finalize"}
  PROVE  NotSentYet' /\ FinalHasLanded' /\ LandedIsMined' /\ LandedIsUnannounced'
  BY DEF OnceInv, NotSentYet, FinalHasLanded, LandedIsMined, LandedIsUnannounced

LEMMA ChainKeptByLoop == MainNext => chain' = chain
  BY DEF MainNext, ReadProof, PeekBest, CloseForMining, Snapshot, OutOfAttempts,
     AttemptWithNone, FetchProof, FetchFails, UpdateStaleProof, NoBlockhash,
     SimulationInvalid, SendTransaction, SendFails, SendConfirmed, Finalized,
     Expired, CheckProof, FetchNewProof, FetchNewProofFails, SetProof,
     CompareEpoch, MainResetNonce, MainResetRanges, MainResetEpoch,
     MainOpenWindow, MainAddChallenge, sharedVars, chainVars

LEMMA MainKeepsLanded ==
  ASSUME TypeInv, OnceInv, MainNext, Next, chain' = chain
  PROVE  NotSentYet' /\ FinalHasLanded' /\ LandedIsMined' /\ LandedIsUnannounced'
<1> USE DEF TypeInv, TypeOK, SettlementTypeOK, SubmissionTypeOK
<1> DEFINE Kept == NotSentYet' /\ FinalHasLanded' /\ LandedIsMined'
                   /\ LandedIsUnannounced'
<1>1. ASSUME main'.tx = "none", main'.pc # "finalize" PROVE Kept
  BY <1>1 DEF NotSentYet, FinalHasLanded, LandedIsMined, LandedIsUnannounced
<1>2. CASE ReadProof \/ main' = MainIdle
  <2>1. main' = MainIdle \/ main' = [MainIdle EXCEPT !.pc = "peek", !.old = proof]
    BY <1>2 DEF ReadProof
  <2>2. CASE main' = MainIdle
    <3>1. main'.tx = "none" /\ main'.pc # "finalize"
      BY <2>2 DEF MainIdle
    <3>2. QED
      BY <1>1, <3>1
  <2>3. CASE main' = [MainIdle EXCEPT !.pc = "peek", !.old = proof]
    <3>1. main'.tx = "none" /\ main'.pc # "finalize"
      BY <2>3 DEF MainIdle
    <3>2. QED
      BY <1>1, <3>1
  <2>4. QED
    BY <2>1, <2>2, <2>3
<1>3. CASE PeekBest \/ CloseForMining \/ Snapshot
  <2>1. main.tx = "none" /\ main'.pc # "finalize"
    <3>1. main.pc \in {"peek", "snap", "close"}
      BY <1>3 DEF PeekBest, CloseForMining, Snapshot
    <3>2. main' = MainIdle \/ main'.pc \in {"close", "snap", "attempt"}
      BY <1>3 DEF PeekBest, CloseForMining, Snapshot, Goto, MainType
    <3>3. QED
      BY <3>1, <3>2 DEF OnceInv, NotSentYet, MainIdle
  <2>2. main'.tx = main.tx \/ main' = MainIdle
    <3>1. CASE PeekBest \/ CloseForMining
      BY <3>1 DEF PeekBest, CloseForMining, Goto, MainType
    <3>2. CASE Snapshot
      BY <3>2 DEF Snapshot, MainType
    <3>3. QED
      BY <1>3, <3>1, <3>2
  <2>3. QED
    BY <1>1, <1>2, <2>1, <2>2
<1>4. CASE SendTransaction
  <2>1. main'.pc = "send" /\ main'.tx = "flight"
    BY <1>4 DEF SendTransaction, MainType
  <2>2. QED
    BY <2>1 DEF NotSentYet, FinalHasLanded, LandedIsMined, LandedIsUnannounced
<1>5. CASE SendConfirmed
  <2>1. /\ main.pc = "send" /\ main.tx = "landed"
        /\ main'.pc = "finalize" /\ main'.tx = "landed" /\ main'.sol = main.sol
        /\ UNCHANGED <<jobs, mineSuccess>>
    BY <1>5 DEF SendConfirmed, Goto, MainType
  <2>2. Announced' = Announced
    BY <2>1 DEF Announced
  <2>3. QED
    BY <2>1, <2>2 DEF OnceInv, NotSentYet, FinalHasLanded, LandedIsMined,
       LandedIsUnannounced
<1>6. CASE \/ OutOfAttempts \/ AttemptWithNone \/ FetchProof \/ FetchFails
           \/ UpdateStaleProof \/ NoBlockhash \/ SimulationInvalid
  <2>1. /\ main'.tx = main.tx /\ main'.sol = main.sol
        /\ main'.pc \in {"nonce", "attempt", "build", "stale"}
    BY <1>6 DEF OutOfAttempts, AttemptWithNone, FetchProof, FetchFails,
       UpdateStaleProof, NoBlockhash, SimulationInvalid, Goto, Discard,
       NextAttempt, MainType
  <2>2. QED
    BY <2>1, LoopKeepsLanded
<1>7. CASE SendFails \/ Finalized \/ Expired
  <2>1. /\ main'.tx = main.tx /\ main'.sol = main.sol
        /\ main'.pc \in {"nonce", "attempt", "settle"}
    BY <1>7 DEF SendFails, Finalized, Expired, Goto, Discard, NextAttempt,
       MainType
  <2>2. QED
    BY <2>1, LoopKeepsLanded
<1>8. CASE CheckProof \/ FetchNewProof \/ FetchNewProofFails \/ SetProof
  <2>1. /\ main'.tx = main.tx /\ main'.sol = main.sol
        /\ main'.pc \in {"rpc", "compare", "settle", "setproof", "nonce"}
    BY <1>8 DEF CheckProof, FetchNewProof, FetchNewProofFails, SetProof, Goto,
       MainType
  <2>2. QED
    BY <2>1, LoopKeepsLanded
<1>9. CASE \/ CompareEpoch \/ MainResetNonce \/ MainResetRanges
           \/ MainResetEpoch \/ MainOpenWindow \/ MainAddChallenge
  <2>1. \/ main' = MainIdle
        \/ /\ main'.tx = main.tx /\ main'.sol = main.sol
           /\ main'.pc \in {"nonce", "ranges", "epoch", "window", "db"}
    BY <1>9 DEF CompareEpoch, MainResetNonce, MainResetRanges, MainResetEpoch,
       MainOpenWindow, MainAddChallenge, Goto, MainType
  <2>2. QED
    BY <1>2, <2>1, LoopKeepsLanded
<1>10. QED
  BY <1>2, <1>3, <1>4, <1>5, <1>6, <1>7, <1>8, <1>9 DEF MainNext

\* A transaction lands only for the challenge in the proof account, and nothing
\* is announced for that one yet.
LEMMA LandingIsNew ==
  ASSUME TypeInv, OnceInv, LandTransaction
  PROVE  NotSentYet' /\ FinalHasLanded' /\ LandedIsMined' /\ LandedIsUnannounced'
<1>1. /\ main.pc = "send" /\ main.sol.challenge = chain /\ chain' = chain + 1
      /\ main'.pc = "send" /\ main'.tx = "landed" /\ main'.sol = main.sol
      /\ UNCHANGED <<jobs, mineSuccess>>
  BY DEF LandTransaction, Advance, TypeInv, TypeOK, SettlementTypeOK,
     SubmissionTypeOK, MainType
<1>2. main.sol # None
  BY <1>1 DEF TypeInv, AttemptOK
<1>3. Announced' = Announced /\ \A m \in Announced : m.mined < chain
  BY <1>1 DEF Announced, OnceInv
<1>4. chain \in Nat /\ \A m \in Announced : m.mined \in Nat
  BY KnownTypes
<1>5. QED
  BY <1>1, <1>2, <1>3, <1>4 DEF NotSentYet, FinalHasLanded, LandedIsMined,
     LandedIsUnannounced

\* The announcements stay distinct: a task hands its message on before it is
\* gone, and the loop adds one for a challenge nobody announces.
LEMMA DistinctKept ==
  ASSUME TypeInv, OnceInv, Next
  PROVE  Distinct'
<1> USE DEF OnceInv, Distinct
<1>1. CASE UNCHANGED <<jobs, mineSuccess>>
  BY <1>1
<1>2. CASE Finalized
  <2> DEFINE new == [pc |-> "row", msg |-> Success]
  <2>1. /\ mineSuccess' = mineSuccess /\ jobs' = jobs \cup {new}
        /\ new.msg.mined = main.sol.challenge
    BY <1>2 DEF Finalized, Success
  <2>2. \A m \in Announced : m.mined # main.sol.challenge
    BY <1>2 DEF Finalized, FinalHasLanded, LandedIsUnannounced
  <2>3. /\ \A j \in jobs : j.msg.mined # new.msg.mined
        /\ \A n \in 1..Len(mineSuccess) : mineSuccess[n].mined # new.msg.mined
    BY <2>1, <2>2 DEF Announced
  <2> HIDE DEF new
  <2>4. QED
    BY <2>1, <2>3
<1>3. ASSUME NEW j \in jobs, JobFindsRow(j) PROVE Distinct'
  <2> DEFINE next == [j EXCEPT !.pc = "send"]
  <2>1. mineSuccess' = mineSuccess /\ jobs' = (jobs \ {j}) \cup {next}
    BY <1>3 DEF JobFindsRow
  <2>2. next.msg = j.msg
    BY DEF TypeInv, TypeOK, SettlementTypeOK, SubmissionTypeOK, JobType
  <2> HIDE DEF next
  <2>3. QED
    BY <2>1, <2>2
<1>4. ASSUME NEW j \in jobs, JobSends(j) PROVE Distinct'
  <2>1. jobs' = jobs \ {j} /\ mineSuccess' = Append(mineSuccess, j.msg)
    BY <1>4 DEF JobSends
  <2>2. j.msg \in MessageType /\ mineSuccess \in Seq(MessageType)
    BY DEF TypeInv, TypeOK, SettlementTypeOK, SubmissionTypeOK, JobType
  <2>3. /\ Len(mineSuccess') = Len(mineSuccess) + 1
        /\ Len(mineSuccess) \in Nat
        /\ \A n \in 1..Len(mineSuccess) : mineSuccess'[n] = mineSuccess[n]
        /\ mineSuccess'[Len(mineSuccess) + 1] = j.msg
    BY <2>1, <2>2
  <2>4. \A n \in 1..Len(mineSuccess') :
          n = Len(mineSuccess) + 1 \/ n \in 1..Len(mineSuccess)
    BY <2>3
  <2>5. \A m, n \in 1..Len(mineSuccess') :
          m # n => mineSuccess'[m].mined # mineSuccess'[n].mined
    BY <2>3, <2>4
  <2>6. \A i \in jobs' : \A n \in 1..Len(mineSuccess') :
          mineSuccess'[n].mined # i.msg.mined
    BY <2>1, <2>3, <2>4
  <2>7. \A h, i \in jobs' : h # i => h.msg.mined # i.msg.mined
    BY <2>1
  <2>8. QED
    BY <2>5, <2>6, <2>7
<1>5. ASSUME NEW j \in jobs, JobGivesUp(j) PROVE Distinct'
  BY <1>5 DEF JobGivesUp
<1>6. CASE Restart
  BY <1>6 DEF Restart, SettlementRestart, SubmissionRestart
<1>7. QED
  BY <1>1, <1>2, <1>3, <1>4, <1>5, <1>6, SuccessWriters DEF JobNext

LEMMA OnceKept == TypeInv /\ OnceInv /\ [Next]_vars => OnceInv'
<1> SUFFICES ASSUME TypeInv, OnceInv, [Next]_vars PROVE OnceInv'
  OBVIOUS
<1>1. CASE Next
  <2>1. NotSentYet' /\ FinalHasLanded' /\ LandedIsMined' /\ LandedIsUnannounced'
    <3>1. CASE Restart
      BY <3>1 DEF Restart, SettlementRestart, SubmissionRestart, MainIdle,
         NotSentYet, FinalHasLanded, LandedIsMined, LandedIsUnannounced
    <3>2. CASE LandTransaction
      BY <3>2, LandingIsNew
    <3>3. CASE MainNext
      BY <1>1, <3>3, MainKeepsLanded, ChainKeptByLoop
    <3>4. CASE ~Restart /\ ~LandTransaction /\ ~MainNext
      <4>1. main' = main
        BY <1>1, <3>4, TrackerTypes, JobTypes
        DEF Next, SubmissionNext, submissionVars, TypeInv, TypeOK,
            SettlementTypeOK
      <4>2. ~Finalized
        BY <3>4 DEF MainNext
      <4>3. QED
        BY <1>1, <4>1, <4>2, OthersKeepLanded
    <3>5. QED
      BY <3>1, <3>2, <3>3, <3>4
  <2>2. \A m \in Announced' : m.mined < chain'
    <3>1. \A m \in Announced : m.mined < chain'
      BY <1>1, ChainGrows, KnownTypes DEF OnceInv
    <3>2. Finalized => Success.mined < chain'
      <4>1. Finalized => main.tx = "landed" /\ main.sol # None
                         /\ main.sol.challenge < chain
        BY DEF Finalized, OnceInv, FinalHasLanded, LandedIsMined
      <4>2. main.sol # None => main.sol.challenge \in Nat
        BY ChallengesAreNat DEF TypeInv, TypeOK, SettlementTypeOK,
           SubmissionTypeOK, MainType, Solutions
      <4>3. QED
        BY <1>1, <4>1, <4>2, ChainGrows, KnownTypes DEF Success
    <3>3. QED
      BY <1>1, <3>1, <3>2, AnnouncedWriters
      DEF TypeInv, TypeOK, SettlementTypeOK
  <2>3. Distinct'
    BY <1>1, DistinctKept
  <2>4. QED
    BY <2>1, <2>2, <2>3 DEF OnceInv
<1>2. CASE UNCHANGED vars
  BY <1>2 DEF vars, settlementVars, sharedVars, chainVars, submissionVars,
     OnceInv, NotSentYet, FinalHasLanded, LandedIsMined, LandedIsUnannounced,
     Announced, Distinct
<1>3. QED
  BY <1>1, <1>2

LEMMA OnceInit == Init => OnceInv
  BY DEF Init, SettlementInit, SubmissionInit, MainIdle, OnceInv, NotSentYet,
     FinalHasLanded, LandedIsMined, LandedIsUnannounced, Announced, Distinct

\* Across retried attempts, abandoned transactions that land after all, any
\* number of tasks that announce at once, and restarts, a mined challenge is
\* announced at most once, and only one that the chain has paid.
THEOREM AnnouncedAtMostOnce == Spec => []AnnouncedOnce
<1>1. OnceInv => AnnouncedOnce
  BY DEF OnceInv, Distinct, AnnouncedOnce
<1>2. Init => TypeInv /\ OnceInv
  BY InitTypeInv, OnceInit
<1>3. TypeInv /\ OnceInv /\ [Next]_vars => (TypeInv /\ OnceInv)'
  BY NextTypes, OnceKept
<1>4. QED
  BY <1>1, <1>2, <1>3, PTL DEF Spec
=============================================================================
