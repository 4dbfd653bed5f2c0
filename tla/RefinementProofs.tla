--------------------------- MODULE RefinementProofs ---------------------------
(***************************************************************************)
(* Pool implements Settlement, for every set of connections and trackers   *)
(* and every value of the bounds: the refinement of Pool.tla, one action   *)
(* of Pool after the other.  A task exists for Settlement once it has      *)
(* found its solution valid.                                               *)
(***************************************************************************)
EXTENDS PoolTypeProofs, FiniteSetTheorems

arrived == {t \in tasks : t.pc \in {"read", "write"}}

-----------------------------------------------------------------------------
(* The bound on the tasks.                                                  *)

\* The tasks at work are finitely many and within the bound, so that there is
\* room in Settlement for one that arrives: it is counted here already.
TasksFit == IsFiniteSet(tasks) /\ Cardinality(tasks) <= MaxTasks

LEMMA OneTaskMore ==
  ASSUME NEW S, IsFiniteSet(S), NEW t
  PROVE  /\ IsFiniteSet(S \cup {t})
         /\ Cardinality(S \cup {t}) \in Nat
         /\ Cardinality(S) \in Nat
         /\ Cardinality(S \cup {t}) <= Cardinality(S) + 1
<1>1. /\ IsFiniteSet(S \cup {t})
      /\ Cardinality(S \cup {t}) =
           IF t \in S THEN Cardinality(S) ELSE Cardinality(S) + 1
  BY FS_AddElement
<1>2. Cardinality(S) \in Nat
  BY FS_CardinalityType
<1>3. QED
  BY <1>1, <1>2

LEMMA OneTaskLess ==
  ASSUME NEW S, IsFiniteSet(S), NEW t \in S
  PROVE  /\ IsFiniteSet(S \ {t})
         /\ Cardinality(S \ {t}) \in Nat
         /\ Cardinality(S \ {t}) + 1 = Cardinality(S)
<1>1. /\ IsFiniteSet(S \ {t})
      /\ Cardinality(S \ {t}) = Cardinality(S) - 1
  BY FS_RemoveElement
<1>2. Cardinality(S) \in Nat /\ Cardinality(S \ {t}) \in Nat
  BY <1>1, FS_CardinalityType
<1>3. QED
  BY <1>1, <1>2

LEMMA TasksFitInit == Init => TasksFit
<1> SUFFICES ASSUME Init PROVE TasksFit
  OBVIOUS
<1>1. tasks = {}
  BY DEF Init, SettlementInit, HandlerInit
<1>2. QED
  BY <1>1, FS_EmptySet, TasksAssumption DEF TasksFit

\* A step of a task takes it away, and puts one in its place or none.
LEMMA StepReplaces ==
  ASSUME NEW t \in tasks, TaskStep(t)
  PROVE  \/ tasks' = tasks \ {t}
         \/ \E u : tasks' = (tasks \ {t}) \cup {u}
  BY DEF TaskStep, CheckWindow, CheckRange, CheckSolution, ReadEpoch,
     WriteEpoch, GoOnIf, GoOn, Finish

LEMMA TasksFitKept == TasksFit /\ [Next]_vars => TasksFit'
<1> SUFFICES ASSUME TasksFit, [Next]_vars PROVE TasksFit'
  OBVIOUS
<1> USE TasksAssumption
<1>1. ASSUME NEW c \in Conns, Connect(c) \/ Disconnect(c) \/ BecomeReady(c)
      PROVE  TasksFit'
  BY <1>1 DEF Connect, Disconnect, BecomeReady, TasksFit
<1>2. ASSUME NEW c \in Conns, Submit(c) PROVE TasksFit'
  <2>1. Cardinality(tasks) < MaxTasks
    BY <1>2 DEF Submit
  <2>2. PICK u : tasks' = tasks \cup {u}
    BY <1>2 DEF Submit
  <2>3. QED
    BY <2>1, <2>2, OneTaskMore DEF TasksFit
<1>3. ASSUME NEW t \in tasks, TaskStep(t) PROVE TasksFit'
  <2>1. /\ IsFiniteSet(tasks \ {t}) /\ Cardinality(tasks \ {t}) \in Nat
        /\ Cardinality(tasks \ {t}) + 1 <= MaxTasks
    BY OneTaskLess DEF TasksFit
  <2>2. CASE tasks' = tasks \ {t}
    BY <2>1, <2>2 DEF TasksFit
  <2>3. ASSUME NEW u, tasks' = (tasks \ {t}) \cup {u} PROVE TasksFit'
    BY <2>1, <2>3, OneTaskMore DEF TasksFit
  <2>4. QED
    BY <1>3, <2>2, <2>3, StepReplaces
<1>4. CASE Restart
  <2>1. tasks' = {}
    BY <1>4 DEF Restart, SettlementRestart
  <2>2. QED
    BY <2>1, FS_EmptySet DEF TasksFit
<1>5. CASE UNCHANGED handlerVars
  BY <1>5 DEF handlerVars, TasksFit
<1>6. CASE UNCHANGED vars
  BY <1>6 DEF vars, settlementVars, handlerVars, TasksFit
<1>7. QED
  BY <1>1, <1>2, <1>3, <1>4, <1>5, <1>6 DEF Next, HandlerNext

-----------------------------------------------------------------------------
(* The beginning, and the steps Settlement does not see.                    *)

LEMMA StartsAsSettlement == Init => Abstract!SettlementInit
  BY DEF Init, SettlementInit, SharedInit, WsInit, HandlerInit, SubmissionInit,
     EmptyEpoch, NoSubmissions, NoRanges, MainIdle, TrackerIdle, WsIdle,
     Abstract!SettlementInit, Abstract!SharedInit, Abstract!WsInit,
     Abstract!HandlerInit, Abstract!SubmissionInit, Abstract!EmptyEpoch,
     Abstract!NoSubmissions, Abstract!NoRanges, Abstract!MainIdle,
     Abstract!TrackerIdle, Abstract!WsIdle

\* What Settlement can tell apart.
LEMMA AbstractStutter ==
  ASSUME UNCHANGED <<proof, lastChallenge, epoch, closed, db, chainVars>>,
         UNCHANGED <<wsVars, submissionVars>>, arrived' = arrived
  PROVE  UNCHANGED Abstract!settlementVars
  BY DEF arrived, chainVars, wsVars, submissionVars, Abstract!settlementVars,
     Abstract!sharedVars, Abstract!poolVars, Abstract!clientVars,
     Abstract!chainVars, Abstract!wsVars, Abstract!handlerVars,
     Abstract!submissionVars, Abstract!NoRanges

\* Handing out work changes nothing that Settlement knows of.
LEMMA ReadyIsInternal ==
  ASSUME ReadyNext, UNCHANGED <<wsVars, handlerVars, submissionVars>>
  PROVE  UNCHANGED Abstract!settlementVars
<1>1. UNCHANGED <<proof, lastChallenge, epoch, closed, db, chainVars>>
  BY DEF ReadyNext, ReadyLoop, Poll, CheckBest, CheckClosed, ReadChallenge,
     Remove, Pick, Give, SendStep, SendMessage, ReadRanges, WriteRanges,
     sharedVars, poolVars, chainVars
<1>2. arrived' = arrived
  BY DEF handlerVars, arrived
<1>3. QED
  BY <1>1, <1>2, AbstractStutter

LEMMA ClientsAreInternal ==
  ASSUME NEW c \in Conns,
         Connect(c) \/ Disconnect(c) \/ BecomeReady(c) \/ Submit(c),
         UNCHANGED <<wsVars, submissionVars>>
  PROVE  UNCHANGED Abstract!settlementVars
<1>1. UNCHANGED <<proof, lastChallenge, epoch, closed, db, chainVars>>
  BY DEF Connect, Disconnect, BecomeReady, Submit, sharedVars, poolVars, chainVars
<1>2. arrived' = arrived
  BY DEF Connect, Disconnect, BecomeReady, Submit, arrived
<1>3. QED
  BY <1>1, <1>2, AbstractStutter

-----------------------------------------------------------------------------
(* The tasks.                                                               *)

\* Before it has found its solution valid, a task is not there for Settlement.
LEMMA EarlyStepIsInternal ==
  ASSUME HandlerTypeOK, NEW t \in tasks, CheckWindow(t) \/ CheckRange(t)
  PROVE  arrived' = arrived
<1>1. t.pc \notin {"read", "write"}
  BY DEF CheckWindow, CheckRange
<1>2. t \in Tasks
  BY DEF HandlerTypeOK
<1>3. CASE tasks' = tasks \ {t}
  BY <1>1, <1>3 DEF arrived
<1>4. ASSUME NEW pc \in {"range", "valid"},
             tasks' = (tasks \ {t}) \cup {[t EXCEPT !.pc = pc]}
      PROVE  arrived' = arrived
  <2>1. [t EXCEPT !.pc = pc].pc = pc
    BY <1>2 DEF Tasks
  <2>2. QED
    BY <1>1, <1>4, <2>1 DEF arrived
<1>5. QED
  BY <1>3, <1>4 DEF CheckWindow, CheckRange, GoOnIf, GoOn, Finish

\* There is room for the task that arrives: it is one of those counted.
LEMMA RoomToArrive ==
  ASSUME TasksFit, NEW t \in tasks, t \notin arrived
  PROVE  Cardinality(arrived) < MaxTasks
<1>1. /\ IsFiniteSet(tasks \ {t}) /\ Cardinality(tasks \ {t}) \in Nat
      /\ Cardinality(tasks \ {t}) + 1 = Cardinality(tasks)
  BY OneTaskLess DEF TasksFit
<1>2. arrived \subseteq tasks \ {t}
  BY DEF arrived
<1>3. IsFiniteSet(arrived) /\ Cardinality(arrived) <= Cardinality(tasks \ {t})
  BY <1>1, <1>2, FS_Subset
<1>4. Cardinality(arrived) \in Nat
  BY <1>3, FS_CardinalityType
<1>5. QED
  BY <1>1, <1>3, <1>4, TasksAssumption DEF TasksFit

\* Settlement counts the tasks as Pool does.
LEMMA SameCardinality ==
  \A S : Abstract!Cardinality(S) = Cardinality(S)
  BY Zenon DEF Cardinality, Abstract!Cardinality

\* The solution of a task is found valid: it arrives, with the challenge of the
\* proof and at least the difficulty asked for.
LEMMA ValidArrives ==
  ASSUME HandlerTypeOK, TasksFit, NEW t \in tasks, CheckSolution(t)
  PROVE  \/ arrived' = arrived
         \/ Abstract!Arrive(t.conn)
<1>1. t \in Tasks /\ t.pc = "valid" /\ t \notin arrived
  BY DEF HandlerTypeOK, CheckSolution, arrived
<1>2. CASE Finish(t)
  BY <1>1, <1>2 DEF Finish, arrived
<1>3. CASE GoOn(t, "read") /\ t.sol.challenge = proof /\ t.sol.diff >= MinDiff
  <2> DEFINE a == [t EXCEPT !.pc = "read"]
             b == t.sol.block
             d == t.sol.diff
  <2>1. /\ a = [pc |-> "read", conn |-> t.conn, sol |-> t.sol]
        /\ t.sol = [challenge |-> proof, block |-> b, diff |-> d]
        /\ b \in Blocks /\ d \in Diffs
    BY <1>1, <1>3 DEF Tasks, Solutions
  <2>2. arrived' = arrived \cup {a}
    <3>1. a.pc = "read"
      BY <2>1
    <3>2. tasks' = (tasks \ {t}) \cup {a}
      BY <1>3 DEF GoOn
    <3>3. QED
      BY <1>1, <3>1, <3>2 DEF arrived
  <2>3. Cardinality(arrived) < MaxTasks
    BY <1>1, RoomToArrive
  <2>4. UNCHANGED Abstract!sharedVars
    BY DEF CheckSolution, sharedVars, poolVars, clientVars, chainVars,
       Abstract!sharedVars, Abstract!poolVars, Abstract!clientVars,
       Abstract!chainVars, Abstract!NoRanges
  <2>5. d >= MinDiff
    BY <1>3
  <2>6. b \in Abstract!Blocks
    BY <2>1 DEF Blocks, Abstract!Blocks
  <2>7. arrived' = arrived \cup
          {[pc |-> "read", conn |-> t.conn,
            sol |-> [challenge |-> proof, block |-> b, diff |-> d]]}
    BY <2>1, <2>2
  <2> HIDE DEF a, b, d
  <2>8. QED
    BY <2>1, <2>3, <2>4, <2>5, <2>6, <2>7, SameCardinality
       DEF Abstract!Arrive, arrived
<1>4. QED
  BY <1>2, <1>3 DEF CheckSolution, GoOnIf

\* From then on a task takes the same steps in both.
LEMMA ReadRefines ==
  ASSUME HandlerTypeOK, NEW t \in tasks, ReadEpoch(t)
  PROVE  t \in arrived /\ Abstract!ReadEpoch(t)
<1>1. t \in Tasks /\ t.pc = "read" /\ t \in arrived
  BY DEF HandlerTypeOK, ReadEpoch, arrived
<1>2. UNCHANGED Abstract!sharedVars
  BY DEF ReadEpoch, sharedVars, poolVars, clientVars, chainVars,
     Abstract!sharedVars, Abstract!poolVars, Abstract!clientVars,
     Abstract!chainVars, Abstract!NoRanges
<1>3. ASSUME Finish(t) PROVE Abstract!Finish(t)
  BY <1>3 DEF Finish, Abstract!Finish, arrived
<1>4. ASSUME GoOn(t, "write") PROVE Abstract!GoOn(t, "write")
  <2>1. [t EXCEPT !.pc = "write"].pc = "write"
    BY <1>1 DEF Tasks
  <2>2. tasks' = (tasks \ {t}) \cup {[t EXCEPT !.pc = "write"]}
    BY <1>4 DEF GoOn
  <2>3. arrived' = (arrived \ {t}) \cup {[t EXCEPT !.pc = "write"]}
    BY <2>1, <2>2 DEF arrived
  <2>4. QED
    BY <2>3 DEF Abstract!GoOn, arrived
<1>5. QED
  BY <1>1, <1>2, <1>3, <1>4 DEF ReadEpoch, GoOnIf, Abstract!ReadEpoch,
     Abstract!GoOnIf

LEMMA WriteRefines ==
  ASSUME HandlerTypeOK, NEW t \in tasks, WriteEpoch(t)
  PROVE  t \in arrived /\ Abstract!WriteEpoch(t)
<1>1. t.pc = "write" /\ t \in arrived
  BY DEF WriteEpoch, arrived
<1>2. Abstract!Finish(t)
  BY DEF WriteEpoch, Finish, Abstract!Finish, arrived
<1>3. QED
  BY <1>1, <1>2 DEF WriteEpoch, clientVars, chainVars, Abstract!WriteEpoch,
     Abstract!clientVars, Abstract!chainVars, Abstract!NoRanges

LEMMA HandlerRefines ==
  ASSUME HandlerTypeOK, TasksFit, HandlerNext,
         UNCHANGED <<wsVars, submissionVars>>
  PROVE  [Abstract!SettlementNext]_Abstract!settlementVars
<1>1. UNCHANGED <<Abstract!wsVars, Abstract!submissionVars>>
  BY DEF wsVars, submissionVars, Abstract!wsVars, Abstract!submissionVars
<1>2. ASSUME NEW c \in Conns,
             Connect(c) \/ Disconnect(c) \/ BecomeReady(c) \/ Submit(c)
      PROVE  UNCHANGED Abstract!settlementVars
  BY <1>2, ClientsAreInternal
<1>3. ASSUME Abstract!ArrivalNext PROVE Abstract!SettlementNext
  BY <1>1, <1>3 DEF Abstract!SettlementNext
<1>4. ASSUME NEW t \in tasks, TaskStep(t), arrived' = arrived,
             ~WriteEpoch(t)
      PROVE  UNCHANGED Abstract!settlementVars
  <2>1. UNCHANGED <<proof, lastChallenge, epoch, closed, db, chainVars>>
    BY <1>4 DEF TaskStep, CheckWindow, CheckRange, CheckSolution, ReadEpoch,
       sharedVars, poolVars, chainVars
  <2>2. QED
    BY <1>4, <2>1, AbstractStutter
<1>5. ASSUME NEW t \in tasks, TaskStep(t)
      PROVE  [Abstract!SettlementNext]_Abstract!settlementVars
  <2>1. CASE WriteEpoch(t)
    BY <1>3, <2>1, WriteRefines DEF Abstract!ArrivalNext, arrived
  <2>2. CASE ReadEpoch(t)
    BY <1>3, <2>2, ReadRefines DEF Abstract!ArrivalNext, arrived
  <2>3. CASE CheckSolution(t)
    <3>1. t.conn \in Conns /\ ~WriteEpoch(t)
      BY <2>3 DEF HandlerTypeOK, Tasks, CheckSolution, WriteEpoch
    <3>2. QED
      BY <1>3, <1>4, <1>5, <2>3, <3>1, ValidArrives DEF Abstract!ArrivalNext
  <2>4. CASE CheckWindow(t) \/ CheckRange(t)
    <3>1. ~WriteEpoch(t)
      BY <2>4 DEF CheckWindow, CheckRange, WriteEpoch
    <3>2. QED
      BY <1>4, <1>5, <2>4, <3>1, EarlyStepIsInternal
  <2>5. QED
    BY <1>5, <2>1, <2>2, <2>3, <2>4 DEF TaskStep
<1>6. QED
  BY <1>2, <1>5 DEF HandlerNext

-----------------------------------------------------------------------------
(* The other systems take in Settlement the steps they take in Pool: where *)
(* the two differ, in the nonces, the ranges and the clients, Settlement    *)
(* sees a constant.                                                         *)

LEMMA ChainRefines ==
  ASSUME ChainNext
  PROVE  Abstract!Tick \/ Abstract!LandStray \/ Abstract!TouchProof
<1> USE DEF sharedVars, poolVars, clientVars, chainVars, NoRanges,
       Abstract!sharedVars, Abstract!poolVars, Abstract!clientVars,
       Abstract!chainVars, Abstract!NoRanges
<1>1. ASSUME Tick PROVE Abstract!Tick
  BY <1>1 DEF Tick, Abstract!Tick
<1>2. ASSUME LandStray PROVE Abstract!LandStray
  BY <1>2 DEF LandStray, Advance, Notify, Abstract!LandStray,
     Abstract!Advance, Abstract!Notify
<1>3. ASSUME TouchProof PROVE Abstract!TouchProof
  BY <1>3 DEF TouchProof, Notify, Abstract!TouchProof, Abstract!Notify
<1>4. QED
  BY <1>1, <1>2, <1>3 DEF ChainNext

LEMMA WsRefines ==
  ASSUME WsNext
  PROVE  Abstract!WsNext
<1> USE DEF sharedVars, poolVars, clientVars, chainVars, NoRanges,
       Abstract!sharedVars, Abstract!poolVars, Abstract!clientVars,
       Abstract!chainVars, Abstract!NoRanges
<1>1. ASSUME WsReceive PROVE Abstract!WsReceive
  BY <1>1 DEF WsReceive, Abstract!WsReceive
<1>2. ASSUME WsWrite PROVE Abstract!WsWrite
  BY <1>2 DEF WsWrite, WsIdle, Abstract!WsWrite, Abstract!WsIdle
<1>3. ASSUME WsReconnect PROVE Abstract!WsReconnect
  BY <1>3 DEF WsReconnect, Abstract!WsReconnect
<1>4. QED
  BY <1>1, <1>2, <1>3 DEF WsNext, Abstract!WsNext

\* The loop.
LEMMA MainRefines ==
  ASSUME MainNext
  PROVE  Abstract!MainNext
<1> USE DEF sharedVars, poolVars, clientVars, chainVars, NoRanges,
       Abstract!sharedVars, Abstract!poolVars, Abstract!clientVars,
       Abstract!chainVars, Abstract!NoRanges
<1>1. ASSUME ReadProof PROVE Abstract!ReadProof
  BY <1>1 DEF ReadProof, CutoffOf, MainIdle, NoSubmissions,
     Abstract!ReadProof, Abstract!CutoffOf, Abstract!MainIdle,
     Abstract!NoSubmissions
<1>2. ASSUME PeekBest PROVE Abstract!PeekBest
  BY <1>2 DEF PeekBest, Goto, MainIdle, NoSubmissions, Abstract!PeekBest,
     Abstract!Goto, Abstract!MainIdle, Abstract!NoSubmissions
<1>3. ASSUME CloseForMining PROVE Abstract!CloseForMining
  BY <1>3 DEF CloseForMining, Goto, CloseWindow, Abstract!CloseForMining,
     Abstract!Goto, Abstract!CloseWindow
<1>4. ASSUME Snapshot PROVE Abstract!Snapshot
  BY <1>4 DEF Snapshot, Abstract!Snapshot
<1>5. ASSUME OutOfAttempts PROVE Abstract!OutOfAttempts
  BY <1>5 DEF OutOfAttempts, Discard, Abstract!OutOfAttempts,
     Abstract!Discard
<1>6. ASSUME AttemptWithNone PROVE Abstract!AttemptWithNone
  BY <1>6 DEF AttemptWithNone, NextAttempt, Abstract!AttemptWithNone,
     Abstract!NextAttempt
<1>7. ASSUME FetchProof PROVE Abstract!FetchProof
  BY <1>7 DEF FetchProof, Goto, Abstract!FetchProof, Abstract!Goto
<1>8. ASSUME FetchFails PROVE Abstract!FetchFails
  BY <1>8 DEF FetchFails, Goto, Abstract!FetchFails, Abstract!Goto
<1>9. ASSUME UpdateStaleProof PROVE Abstract!UpdateStaleProof
  BY <1>9 DEF UpdateStaleProof, Discard, Abstract!UpdateStaleProof,
     Abstract!Discard
<1>10. ASSUME NoBlockhash PROVE Abstract!NoBlockhash
  BY <1>10 DEF NoBlockhash, NextAttempt, Abstract!NoBlockhash,
     Abstract!NextAttempt
<1>11. ASSUME SimulationInvalid PROVE Abstract!SimulationInvalid
  BY <1>11 DEF SimulationInvalid, Discard, Abstract!SimulationInvalid,
     Abstract!Discard
<1>12. ASSUME SendTransaction PROVE Abstract!SendTransaction
  BY <1>12 DEF SendTransaction, Abstract!SendTransaction
<1>13. ASSUME SendFails PROVE Abstract!SendFails
  BY <1>13 DEF SendFails, Discard, MayStillLand, Abstract!SendFails,
     Abstract!Discard, Abstract!MayStillLand
<1>14. ASSUME SendConfirmed PROVE Abstract!SendConfirmed
  BY <1>14 DEF SendConfirmed, Goto, FreeSlots, TrackerIdle,
     Abstract!SendConfirmed, Abstract!Goto, Abstract!FreeSlots,
     Abstract!TrackerIdle
<1>15. ASSUME Finalized PROVE Abstract!Finalized
  BY <1>15 DEF Finalized, Goto, StopTrackers, Abstract!Finalized,
     Abstract!Goto, Abstract!StopTrackers
<1>16. ASSUME Expired PROVE Abstract!Expired
  BY <1>16 DEF Expired, NextAttempt, StopTrackers, Abstract!Expired,
     Abstract!NextAttempt, Abstract!StopTrackers
<1>17. ASSUME CheckProof PROVE Abstract!CheckProof
  BY <1>17 DEF CheckProof, Abstract!CheckProof
<1>18. ASSUME FetchNewProof PROVE Abstract!FetchNewProof
  BY <1>18 DEF FetchNewProof, Abstract!FetchNewProof
<1>19. ASSUME FetchNewProofFails PROVE Abstract!FetchNewProofFails
  BY <1>19 DEF FetchNewProofFails, Goto, Abstract!FetchNewProofFails,
     Abstract!Goto
<1>20. ASSUME SetProof PROVE Abstract!SetProof
  BY <1>20 DEF SetProof, Goto, Abstract!SetProof, Abstract!Goto
<1>21. ASSUME CompareEpoch PROVE Abstract!CompareEpoch
  BY <1>21 DEF CompareEpoch, MainIdle, NoSubmissions, Abstract!CompareEpoch,
     Abstract!MainIdle, Abstract!NoSubmissions
<1>22. ASSUME MainResetNonce PROVE Abstract!MainResetNonce
  BY <1>22 DEF MainResetNonce, Goto, ResetNonce, Abstract!MainResetNonce,
     Abstract!Goto, Abstract!ResetNonce
<1>23. ASSUME MainResetRanges PROVE Abstract!MainResetRanges
  BY <1>23 DEF MainResetRanges, Goto, ResetRanges, Abstract!MainResetRanges,
     Abstract!Goto, Abstract!ResetRanges
<1>24. ASSUME MainResetEpoch PROVE Abstract!MainResetEpoch
  BY <1>24 DEF MainResetEpoch, Goto, ResetEpoch, EmptyEpoch, NoSubmissions,
     Abstract!MainResetEpoch, Abstract!Goto, Abstract!ResetEpoch,
     Abstract!EmptyEpoch, Abstract!NoSubmissions
<1>25. ASSUME MainOpenWindow PROVE Abstract!MainOpenWindow
  BY <1>25 DEF MainOpenWindow, Goto, OpenWindow, MainIdle, NoSubmissions,
     Abstract!MainOpenWindow, Abstract!Goto, Abstract!OpenWindow,
     Abstract!MainIdle, Abstract!NoSubmissions
<1>26. ASSUME MainAddChallenge PROVE Abstract!MainAddChallenge
  BY <1>26 DEF MainAddChallenge, AddChallenge, MainIdle, NoSubmissions,
     Abstract!MainAddChallenge, Abstract!AddChallenge, Abstract!MainIdle,
     Abstract!NoSubmissions
<1>27. QED
  BY <1>1, <1>2, <1>3, <1>4, <1>5, <1>6, <1>7, <1>8, <1>9, <1>10, <1>11,
     <1>12, <1>13, <1>14, <1>15, <1>16, <1>17, <1>18, <1>19, <1>20, <1>21,
     <1>22, <1>23, <1>24, <1>25, <1>26
     DEF MainNext, Abstract!MainNext

LEMMA TrackerRefines ==
  ASSUME NEW k \in Trackers, TrackerNext(k)
  PROVE  Abstract!TrackerNext(k)
<1> USE DEF sharedVars, poolVars, clientVars, chainVars, NoRanges,
       Abstract!sharedVars, Abstract!poolVars, Abstract!clientVars,
       Abstract!chainVars, Abstract!NoRanges
<1>1. ASSUME TrackerCheck(k) PROVE Abstract!TrackerCheck(k)
  BY <1>1 DEF TrackerCheck, TrackerGoto, TrackerEnds, TrackerIdle,
     Abstract!TrackerCheck, Abstract!TrackerGoto, Abstract!TrackerEnds,
     Abstract!TrackerIdle
<1>2. ASSUME TrackerRead(k) PROVE Abstract!TrackerRead(k)
  BY <1>2 DEF TrackerRead, TrackerGoto, Abstract!TrackerRead,
     Abstract!TrackerGoto
<1>3. ASSUME TrackerFetch(k) PROVE Abstract!TrackerFetch(k)
  BY <1>3 DEF TrackerFetch, TrackerGoto, Abstract!TrackerFetch,
     Abstract!TrackerGoto
<1>4. ASSUME TrackerFetchFails(k) PROVE Abstract!TrackerFetchFails(k)
  BY <1>4 DEF TrackerFetchFails, TrackerGoto, Abstract!TrackerFetchFails,
     Abstract!TrackerGoto
<1>5. ASSUME TrackerSetProof(k) PROVE Abstract!TrackerSetProof(k)
  BY <1>5 DEF TrackerSetProof, TrackerGoto, Abstract!TrackerSetProof,
     Abstract!TrackerGoto
<1>6. ASSUME TrackerSetLast(k) PROVE Abstract!TrackerSetLast(k)
  BY <1>6 DEF TrackerSetLast, TrackerGoto, Abstract!TrackerSetLast,
     Abstract!TrackerGoto
<1>7. ASSUME TrackerResetNonce(k) PROVE Abstract!TrackerResetNonce(k)
  BY <1>7 DEF TrackerResetNonce, TrackerGoto, ResetNonce,
     Abstract!TrackerResetNonce, Abstract!TrackerGoto, Abstract!ResetNonce
<1>8. ASSUME TrackerResetRanges(k) PROVE Abstract!TrackerResetRanges(k)
  BY <1>8 DEF TrackerResetRanges, TrackerGoto, ResetRanges,
     Abstract!TrackerResetRanges, Abstract!TrackerGoto, Abstract!ResetRanges
<1>9. ASSUME TrackerResetEpoch(k) PROVE Abstract!TrackerResetEpoch(k)
  BY <1>9 DEF TrackerResetEpoch, TrackerGoto, ResetEpoch, EmptyEpoch,
     NoSubmissions, Abstract!TrackerResetEpoch, Abstract!TrackerGoto,
     Abstract!ResetEpoch, Abstract!EmptyEpoch, Abstract!NoSubmissions
<1>10. ASSUME TrackerOpenWindow(k) PROVE Abstract!TrackerOpenWindow(k)
  BY <1>10 DEF TrackerOpenWindow, TrackerGoto, TrackerEnds, TrackerIdle,
     OpenWindow, Abstract!TrackerOpenWindow, Abstract!TrackerGoto,
     Abstract!TrackerEnds, Abstract!TrackerIdle, Abstract!OpenWindow
<1>11. ASSUME TrackerAddChallenge(k) PROVE Abstract!TrackerAddChallenge(k)
  BY <1>11 DEF TrackerAddChallenge, TrackerGoto, TrackerEnds, TrackerIdle,
     AddChallenge, Abstract!TrackerAddChallenge, Abstract!TrackerGoto,
     Abstract!TrackerEnds, Abstract!TrackerIdle, Abstract!AddChallenge
<1>12. QED
  BY <1>1, <1>2, <1>3, <1>4, <1>5, <1>6, <1>7, <1>8, <1>9, <1>10, <1>11 DEF
     TrackerNext, Abstract!TrackerNext

LEMMA JobRefines ==
  ASSUME NEW j \in jobs, JobFindsRow(j) \/ JobSends(j) \/ JobGivesUp(j)
  PROVE  Abstract!JobFindsRow(j) \/ Abstract!JobSends(j)
           \/ Abstract!JobGivesUp(j)
<1> USE DEF sharedVars, poolVars, clientVars, chainVars, NoRanges,
       Abstract!sharedVars, Abstract!poolVars, Abstract!clientVars,
       Abstract!chainVars, Abstract!NoRanges
<1>1. ASSUME JobFindsRow(j) PROVE Abstract!JobFindsRow(j)
  BY <1>1 DEF JobFindsRow, AddChallenge, Abstract!JobFindsRow,
     Abstract!AddChallenge
<1>2. ASSUME JobSends(j) PROVE Abstract!JobSends(j)
  BY <1>2 DEF JobSends, Abstract!JobSends
<1>3. ASSUME JobGivesUp(j) PROVE Abstract!JobGivesUp(j)
  BY <1>3 DEF JobGivesUp, Abstract!JobGivesUp
<1>4. QED
  BY <1>1, <1>2, <1>3

LEMMA SubmissionRefines ==
  ASSUME SubmissionNext
  PROVE  Abstract!SubmissionNext
<1>1. ASSUME LandTransaction PROVE Abstract!LandTransaction
  BY <1>1 DEF LandTransaction, Advance, Notify, poolVars, clientVars,
     Abstract!LandTransaction, Abstract!Advance, Abstract!Notify,
     Abstract!poolVars, Abstract!clientVars, Abstract!NoRanges
<1>2. ASSUME JobNext PROVE Abstract!JobNext
  BY <1>2, JobRefines DEF JobNext, Abstract!JobNext
<1>3. QED
  BY <1>1, <1>2, MainRefines, TrackerRefines
     DEF SubmissionNext, Abstract!SubmissionNext

LEMMA RestartRefines ==
  ASSUME Restart
  PROVE  Abstract!SettlementRestart
<1> USE DEF Restart, SettlementRestart
<1>1. Abstract!SharedRestart
  BY DEF SharedRestart, EmptyEpoch, NoSubmissions, Abstract!SharedRestart,
     Abstract!EmptyEpoch, Abstract!NoSubmissions, Abstract!NoRanges, NoRanges
<1>2. Abstract!SubmissionRestart
  BY DEF SubmissionRestart, MayStillLand, MainIdle, TrackerIdle, NoSubmissions,
     Abstract!SubmissionRestart, Abstract!MayStillLand, Abstract!MainIdle,
     Abstract!TrackerIdle, Abstract!NoSubmissions
<1>3. ws' = Abstract!WsIdle
  BY DEF WsIdle, Abstract!WsIdle
<1>4. arrived' = {}
  BY DEF arrived
<1>5. QED
  BY <1>1, <1>2, <1>3, <1>4 DEF Abstract!SettlementRestart, arrived

-----------------------------------------------------------------------------
(* The refinement.                                                          *)

\* A variable that a system leaves alone is left alone in Settlement as well.
LEMMA OthersStay ==
  /\ UNCHANGED wsVars => UNCHANGED Abstract!wsVars
  /\ UNCHANGED handlerVars => UNCHANGED Abstract!handlerVars
  /\ UNCHANGED submissionVars => UNCHANGED Abstract!submissionVars
  BY DEF wsVars, handlerVars, submissionVars, Abstract!wsVars,
     Abstract!handlerVars, Abstract!submissionVars

\* Every step of Pool is a step of Settlement, or one it does not see.
LEMMA StepRefines ==
  ASSUME HandlerTypeOK, TasksFit, [Next]_vars
  PROVE  [Abstract!SettlementNext]_Abstract!settlementVars
<1>1. CASE Restart
  BY <1>1, RestartRefines DEF Abstract!SettlementNext
<1>2. CASE ChainNext /\ UNCHANGED <<wsVars, handlerVars, readyVars, submissionVars>>
  BY <1>2, ChainRefines, OthersStay DEF Abstract!SettlementNext
<1>3. CASE WsNext /\ UNCHANGED <<handlerVars, readyVars, submissionVars>>
  BY <1>3, WsRefines, OthersStay DEF Abstract!SettlementNext
<1>4. CASE HandlerNext /\ UNCHANGED <<wsVars, readyVars, submissionVars>>
  BY <1>4, HandlerRefines
<1>5. CASE ReadyNext /\ UNCHANGED <<wsVars, handlerVars, submissionVars>>
  BY <1>5, ReadyIsInternal
<1>6. CASE SubmissionNext /\ UNCHANGED <<wsVars, handlerVars, readyVars>>
  BY <1>6, SubmissionRefines, OthersStay DEF Abstract!SettlementNext
<1>7. CASE UNCHANGED vars
  <2>1. UNCHANGED <<proof, lastChallenge, epoch, closed, db, chainVars>>
    BY <1>7 DEF vars, settlementVars, sharedVars, poolVars
  <2>2. UNCHANGED <<wsVars, submissionVars>> /\ arrived' = arrived
    BY <1>7 DEF vars, settlementVars, handlerVars, arrived
  <2>3. QED
    BY <2>1, <2>2, AbstractStutter
<1>8. QED
  BY <1>1, <1>2, <1>3, <1>4, <1>5, <1>6, <1>7 DEF Next

\* Every behaviour of Pool is one of Settlement: whatever tasks check and
\* connections do before a solution is found valid, the epoch, the window, the
\* proof, the announcements and the rows of the database change only as the
\* submission loop, its trackers and tasks and the arrival of valid solutions
\* change them (main.rs:503-600 spawns the systems that share them).
THEOREM PoolRefinesSettlement == Spec => RefinesSettlement
<1>1. TypeInv => HandlerTypeOK
  BY DEF TypeInv, TypeOK, SettlementTypeOK
<1>2. HandlerTypeOK /\ TasksFit /\ [Next]_vars
        => [Abstract!SettlementNext]_Abstract!settlementVars
  BY StepRefines
<1>3. QED
  BY <1>1, <1>2, StartsAsSettlement, InitTypeInv, NextTypes, TasksFitInit,
     TasksFitKept, PTL DEF Spec, RefinesSettlement, Abstract!SettlementSpec
=============================================================================
