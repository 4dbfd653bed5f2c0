---------------------- MODULE ClientMessageHandlerSystem ----------------------
(***************************************************************************)
(* systems/client_message_handler_system.rs, and the part of utils.rs that *)
(* adds and removes the socket of a connection.  Every BestSolution is     *)
(* handled by a task of its own, which gives up the lock it holds before   *)
(* it takes the next: the window, the ranges and the sockets, the proof,   *)
(* the epoch to read, the epoch to write.                                  *)
(***************************************************************************)
EXTENDS PoolState

CONSTANT MaxTasks  \* bound: BestSolution tasks that run at once

VARIABLE tasks  \* the BestSolution tasks: [pc, conn, sol]

ASSUME TasksAssumption == MaxTasks \in Nat

handlerVars == <<tasks>>

TaskPc == {"window", "range", "valid", "read", "write"}
Tasks == [pc : TaskPc, conn : Conns, sol : Solutions]

HandlerTypeOK == tasks \subseteq Tasks

HandlerInit == tasks = {}

-----------------------------------------------------------------------------
(* The clients.                                                             *)

Connect(c) ==
  /\ c \notin online \cup gone
  /\ online' = online \cup {c}
  /\ UNCHANGED <<poolVars, ready, gone, work, chainVars, tasks>>

\* The socket is removed; the nonce ranges, the submission and the place among
\* the ready clients of the connection stay.
Disconnect(c) ==
  /\ c \in online
  /\ online' = online \ {c}
  /\ gone' = gone \cup {c}
  /\ UNCHANGED <<poolVars, ready, work, chainVars, tasks>>

\* ClientMessage::Ready, which can be handled after the socket is gone.
BecomeReady(c) ==
  /\ c \in (online \cup gone) \ ready
  /\ ready' = ready \cup {c}
  /\ UNCHANGED <<poolVars, online, gone, work, chainVars, tasks>>

\* ClientMessage::BestSolution: a solution of the work the client was last
\* given.
Submit(c) ==
  /\ c \in online
  /\ work[c] # None
  /\ Cardinality(tasks) < MaxTasks
  /\ \E d \in Diffs :
       tasks' = tasks \cup
         {[pc |-> "window", conn |-> c,
           sol |-> [challenge |-> work[c].challenge,
                    block |-> work[c].block, diff |-> d]]}
  /\ UNCHANGED sharedVars

-----------------------------------------------------------------------------
(* One BestSolution task t.                                                 *)

Finish(t) == tasks' = tasks \ {t}
GoOn(t, pc) == tasks' = (tasks \ {t}) \cup {[t EXCEPT !.pc = pc]}

\* t goes on to step pc if cond holds, and returns otherwise.
GoOnIf(t, cond, pc) == IF cond THEN GoOn(t, pc) ELSE Finish(t)

CheckWindow(t) ==
  /\ t.pc = "window"
  /\ GoOnIf(t, ~closed, "range")
  /\ UNCHANGED sharedVars

\* The solution's nonce must be in a range the connection is registered for,
\* and the connection must still have its socket.  These are two locks and one
\* step: a socket that is there at the second was there at the first, and one
\* that is not is found missing by the step as well.
CheckRange(t) ==
  /\ t.pc = "range"
  /\ GoOnIf(t, t.sol.block \in ranges[t.conn] /\ t.conn \in online, "valid")
  /\ UNCHANGED sharedVars

\* Mutant: the solution is not checked against the challenge of the proof.
CheckDifficultyOnly(t) ==
  /\ t.pc = "valid"
  /\ GoOnIf(t, t.sol.diff >= MinDiff, "read")
  /\ UNCHANGED sharedVars

\* solution.is_valid(challenge of the proof), then diff >= MIN_DIFF.
CheckSolution(t) ==
  /\ t.pc = "valid"
  /\ GoOnIf(t, t.sol.challenge = proof /\ t.sol.diff >= MinDiff, "read")
  /\ UNCHANGED sharedVars

\* The submissions are cloned under a read lock, which is then dropped: the
\* decision to write is taken on the clone.
ReadEpoch(t) ==
  LET old == epoch.submissions[t.conn] IN
  /\ t.pc = "read"
  /\ GoOnIf(t, old = None \/ t.sol.diff > old.diff, "write")
  /\ UNCHANGED sharedVars

\* Mutant: the last submission written is the best hash.
WriteEpochAsBest(t) ==
  /\ t.pc = "write"
  /\ epoch' = [epoch EXCEPT !.submissions[t.conn] = t.sol,
                            !.difficulty = t.sol.diff,
                            !.solution = t.sol]
  /\ Finish(t)
  /\ UNCHANGED <<proof, lastChallenge, nonce, ranges, closed, db>>
  /\ UNCHANGED <<clientVars, chainVars>>

\* Under the write lock: the submission always, the best hash if it is beaten.
WriteEpoch(t) ==
  LET subs == [epoch.submissions EXCEPT ![t.conn] = t.sol] IN
  /\ t.pc = "write"
  /\ epoch' = IF t.sol.diff > epoch.difficulty
              THEN [epoch EXCEPT !.submissions = subs,
                                 !.difficulty = t.sol.diff,
                                 !.solution = t.sol]
              ELSE [epoch EXCEPT !.submissions = subs]
  /\ Finish(t)
  /\ UNCHANGED <<proof, lastChallenge, nonce, ranges, closed, db>>
  /\ UNCHANGED <<clientVars, chainVars>>

TaskStep(t) ==
  CheckWindow(t) \/ CheckRange(t) \/ CheckSolution(t) \/ ReadEpoch(t)
    \/ WriteEpoch(t)

HandlerNext ==
  \/ \E c \in Conns : Connect(c) \/ Disconnect(c) \/ BecomeReady(c) \/ Submit(c)
  \/ \E t \in tasks : TaskStep(t)
=============================================================================
