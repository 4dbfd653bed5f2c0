----------------------- MODULE HandleReadyClientsSystem -----------------------
(***************************************************************************)
(* systems/handle_ready_clients_system.rs: the loop that gives the ready   *)
(* clients the challenge and a nonce range each, and the tasks it spawns   *)
(* to send them.  A task sends first and registers the range afterwards,   *)
(* and registers it by reading the ranges under one lock and writing them  *)
(* back under another.                                                     *)
(***************************************************************************)
EXTENDS PoolState

CONSTANT MaxSends  \* bound: send tasks that run at once

VARIABLES
  rdy,    \* the loop: [pc, clients, current, challenge]
  sends   \* the send tasks: [pc, conn, challenge, block, known]

ASSUME SendsAssumption == MaxSends \in Nat

readyVars == <<rdy, sends>>

RdyPc == {"poll", "best", "window", "challenge", "give", "nonce", "remove"}

RdyIdle == [pc |-> "poll", clients |-> {}, current |-> None, challenge |-> 0]

Sends == [pc : {"send", "read", "write"}, conn : Conns,
          challenge : Challenges, block : Blocks, known : SUBSET Blocks]

ReadyTypeOK ==
  /\ rdy \in [pc : RdyPc, clients : SUBSET Conns,
              current : Conns \cup {None}, challenge : Challenges]
  /\ sends \subseteq Sends

ReadyInit == rdy = RdyIdle /\ sends = {}

-----------------------------------------------------------------------------
(* The loop.                                                                *)

\* The ready clients are copied, and the time left is worked out from the
\* proof.  Both are old by the time they are used.
Poll ==
  /\ rdy.pc = "poll"
  /\ ready # {}
  /\ rdy' = [rdy EXCEPT !.clients = ready,
               !.pc = IF CutoffOf(proof) = 0 THEN "window" ELSE "best"]
  /\ UNCHANGED <<sends, sharedVars>>

\* With less than ten seconds left, nothing is given out once the epoch has a
\* best hash.
CheckBest ==
  /\ rdy.pc = "best"
  /\ rdy' = IF epoch.solution = None THEN [rdy EXCEPT !.pc = "window"]
                                     ELSE RdyIdle
  /\ UNCHANGED <<sends, sharedVars>>

CheckClosed ==
  /\ rdy.pc = "window"
  /\ rdy' = IF closed THEN RdyIdle ELSE [rdy EXCEPT !.pc = "challenge"]
  /\ UNCHANGED <<sends, sharedVars>>

\* The proof is read again for the challenge to give out.
ReadChallenge ==
  /\ rdy.pc = "challenge"
  /\ rdy' = [rdy EXCEPT !.pc = "give", !.challenge = proof]
  /\ UNCHANGED <<sends, sharedVars>>

\* One client is looked up among the sockets, and passed over without one.
Pick(c) ==
  /\ rdy.pc = "give"
  /\ c \in rdy.clients
  /\ rdy' = [rdy EXCEPT !.pc = IF c \in online THEN "nonce" ELSE "remove",
                       !.current = c]
  /\ UNCHANGED <<sends, sharedVars>>

\* It gets the next nonce range, and a send task.
Give(c) ==
  /\ rdy.pc = "nonce"
  /\ c = rdy.current
  /\ nonce < MaxNonce
  /\ Cardinality(sends) < MaxSends
  /\ nonce' = nonce + 1
  /\ sends' = sends \cup {[pc |-> "send", conn |-> c, block |-> nonce,
                           challenge |-> rdy.challenge, known |-> {}]}
  /\ rdy' = [rdy EXCEPT !.pc = "remove"]
  /\ UNCHANGED <<proof, lastChallenge, ranges, epoch, closed, db>>
  /\ UNCHANGED <<clientVars, chainVars>>

\* ready_clients.remove: of a client passed over too, and of a Ready that came
\* in since the clients were copied.
Remove ==
  LET rest == rdy.clients \ {rdy.current} IN
  /\ rdy.pc = "remove"
  /\ ready' = ready \ {rdy.current}
  /\ rdy' = IF rest = {} THEN RdyIdle
            ELSE [rdy EXCEPT !.pc = "give", !.clients = rest,
                             !.current = None]
  /\ UNCHANGED <<poolVars, online, gone, work, chainVars, sends>>

ReadyLoop ==
  \/ Poll \/ CheckBest \/ CheckClosed \/ ReadChallenge \/ Remove
  \/ \E c \in Conns : Pick(c) \/ Give(c)

-----------------------------------------------------------------------------
(* One send task s.                                                         *)

\* The StartMining message reaches the client, or is lost with the socket.
SendMessage(s) ==
  /\ s.pc = "send"
  /\ work' = IF s.conn \in online
             THEN [work EXCEPT ![s.conn] =
                     [challenge |-> s.challenge, block |-> s.block]]
             ELSE work
  /\ sends' = (sends \ {s}) \cup {[s EXCEPT !.pc = "read"]}
  /\ UNCHANGED <<rdy, poolVars, ready, online, gone, chainVars>>

ReadRanges(s) ==
  /\ s.pc = "read"
  /\ sends' = (sends \ {s}) \cup
                {[s EXCEPT !.pc = "write", !.known = ranges[s.conn]]}
  /\ UNCHANGED <<rdy, sharedVars>>

\* The ranges of the connection become the ones it had when they were read,
\* and the new one.
WriteRanges(s) ==
  /\ s.pc = "write"
  /\ ranges' = [ranges EXCEPT ![s.conn] = s.known \cup {s.block}]
  /\ sends' = sends \ {s}
  /\ UNCHANGED <<proof, lastChallenge, nonce, epoch, closed, db>>
  /\ UNCHANGED <<clientVars, chainVars, rdy>>

SendStep(s) == SendMessage(s) \/ ReadRanges(s) \/ WriteRanges(s)

ReadyNext == ReadyLoop \/ \E s \in sends : SendStep(s)
=============================================================================
