----------------------------- MODULE Connections -----------------------------
(***************************************************************************)
(* How clients come and go: the websocket handshakes of utils.rs that sign *)
(* a new miner up, handle_socket, ping_check_system, and                   *)
(* systems/pong_tracking_system.rs.  The sockets and the pongs are kept by *)
(* address, a connection has a uuid besides, and four tasks remove the     *)
(* entry of an address without looking at whose it is.                     *)
(*                                                                         *)
(* Time passes in units of the 30 seconds between two rounds of pings, and *)
(* waits for nobody: the sends of a round and the locks of a check have no *)
(* timeout, and may take any number of units.                              *)
(***************************************************************************)
EXTENDS Naturals

CONSTANTS
  Addrs,      \* the addresses clients connect from
  Conns,      \* the connections, by uuid
  Miners,     \* the public keys of miners
  MinerOf,    \* the miner a connection is made for
  None,       \* Rust's Option::None
  PongLimit,  \* 90 seconds, in units
  MaxLag,     \* the units after which an answer to a ping is late
  Faults      \* "lookup": a query for a miner may fail

VARIABLES
  miners,     \* the rows of miners
  peer,       \* by connection, how far it has come
  addr,       \* by connection, its address
  sockets,    \* app_state.sockets
  pongs,      \* app_pongs, by address the units since the last pong
  unanswered, \* by connection, the units since the oldest ping not answered
  inbox,      \* the connections whose pong is in the client channel
  ping,       \* ping_check_system
  check,      \* pong_tracking_system
  finder,     \* by connection, miner_id of its submission in the epoch
  live        \* history: the connections that found nothing left at their
              \* address, and are up since then with nothing late

ASSUME ConnAssumption ==
  /\ MinerOf \in [Conns -> Miners]
  /\ None \notin Conns \cup Addrs \cup Miners \cup Nat
ASSUME TimeAssumption ==
  /\ PongLimit \in Nat /\ MaxLag \in Nat
  /\ MaxLag + 1 < PongLimit
ASSUME ConnFaultAssumption == Faults \subseteq {"lookup"}

connVars == <<peer, addr>>
pingVars == <<unanswered, ping>>
vars == <<miners, connVars, sockets, pongs, pingVars, inbox, check, finder, live>>

Ages == 0..PongLimit + 1
NoAddr == [a \in Addrs |-> None]
NoConn == [u \in Conns |-> None]

\* A request is answered ("accepted") and becomes a connection that is up, has
\* fallen silent, and may be up again; its receiver ends, then its task.
Peer == {"none", "signup", "accepted", "refused",
         "up", "silent", "back", "ended", "done"}
Ping == [pc : {"asleep", "due", "send"}, todo : SUBSET Conns, failed : SUBSET Conns]
Check == [due : BOOLEAN, copy : [Addrs -> Ages \cup {None}], forget : Addrs \cup {None}]

ConnTypeOK ==
  /\ miners \in SUBSET Miners
  /\ peer \in [Conns -> Peer]
  /\ addr \in [Conns -> Addrs \cup {None}]
  /\ \A u \in Conns : peer[u] # "none" => addr[u] \in Addrs
  /\ sockets \in [Addrs -> Conns \cup {None}]
  /\ pongs \in [Addrs -> Ages \cup {None}]
  /\ unanswered \in [Conns -> 0..MaxLag \cup {None}]
  /\ inbox \in SUBSET Conns
  /\ ping \in Ping
  /\ check \in Check
  /\ finder \in [Conns -> Miners \cup {None}]
  /\ live \in SUBSET Conns

Init ==
  /\ miners = {}
  /\ peer = [u \in Conns |-> "none"]
  /\ addr = NoConn
  /\ sockets = NoAddr
  /\ pongs = NoAddr
  /\ unanswered = NoConn
  /\ inbox = {}
  /\ ping = [pc |-> "due", todo |-> {}, failed |-> {}]
  /\ check = [due |-> TRUE, copy |-> NoAddr, forget |-> None]
  /\ finder = NoConn
  /\ live = {}

\* Its handle_socket has entered it into the sockets, whether it is still there.
Joined(u) == peer[u] \in {"up", "silent", "back", "ended", "done"}

-----------------------------------------------------------------------------
(* Signing up.                                                              *)

\* signup_user_transaction: the rows of the miner and of its rewards, or none.
\* The key of miners is unique: a miner that is there is not signed up again.
SignUp(m) ==
  /\ m \notin miners
  /\ miners' = miners \cup {m}

\* POST /v2/signup, once.
PostSignup(m) ==
  /\ SignUp(m)
  /\ UNCHANGED <<connVars, sockets, pongs, pingVars, inbox, check, finder, live>>

\* A request whose miner is found is accepted.  Otherwise, and when the query
\* fails, ws_handler_v2 refuses it and the other two sign the miner up.
Request(u, a) ==
  /\ peer[u] = "none"
  /\ addr' = [addr EXCEPT ![u] = a]
  /\ \/ MinerOf[u] \in miners /\ peer' = [peer EXCEPT ![u] = "accepted"]
     \/ /\ MinerOf[u] \notin miners \/ "lookup" \in Faults
        /\ \E p \in {"refused", "signup"} : peer' = [peer EXCEPT ![u] = p]
  /\ UNCHANGED <<miners, sockets, pongs, pingVars, inbox, check, finder, live>>

\* Repeated until it succeeds; one whose answer is lost after its effect is
\* repeated in vain.
SignUpLoop(u) ==
  /\ peer[u] = "signup"
  /\ SignUp(MinerOf[u])
  /\ \E p \in {"accepted", "signup"} : peer' = [peer EXCEPT ![u] = p]
  /\ UNCHANGED <<addr, sockets, pongs, pingVars, inbox, check, finder, live>>

\* The client hangs up, and its handler is dropped.
HangUp(u) ==
  /\ peer[u] = "signup"
  /\ peer' = [peer EXCEPT ![u] = "refused"]
  /\ UNCHANGED <<miners, addr, sockets, pongs, pingVars, inbox, check, finder, live>>

-----------------------------------------------------------------------------
(* handle_socket, and the client behind it.                                 *)

\* No entry, no task and no copy of another connection is left at the address
\* of u, to be taken for its own.
FindsNothing(u) ==
  LET a == addr[u] IN
  /\ pongs[a] = None /\ check.copy[a] = None
  /\ \A v \in Conns \ {u} :
       addr[v] = a => /\ Joined(v) => peer[v] = "done"
                      /\ v \notin ping.todo \cup ping.failed

\* The first ping has gone out, and the address is free.
Join(u) ==
  /\ peer[u] = "accepted"
  /\ sockets[addr[u]] = None
  /\ sockets' = [sockets EXCEPT ![addr[u]] = u]
  /\ peer' = [peer EXCEPT ![u] = "up"]
  /\ unanswered' = [unanswered EXCEPT ![u] = 0]
  /\ live' = IF FindsNothing(u) THEN live \cup {u} ELSE live
  /\ UNCHANGED <<miners, addr, pongs, ping, inbox, check, finder>>

\* The second lookup fails, the first ping fails, or the address is taken.
Refuse(u) ==
  /\ peer[u] = "accepted"
  /\ peer' = [peer EXCEPT ![u] = "refused"]
  /\ UNCHANGED <<miners, addr, sockets, pongs, pingVars, inbox, check, finder, live>>

\* The client is cut off without a word, and is back later.
FallSilent(u) ==
  /\ peer[u] \in {"up", "back"}
  /\ peer' = [peer EXCEPT ![u] = "silent"]
  /\ live' = live \ {u}
  /\ UNCHANGED <<miners, addr, sockets, pongs, pingVars, inbox, check, finder>>

Wake(u) ==
  /\ peer[u] = "silent"
  /\ peer' = [peer EXCEPT ![u] = "back"]
  /\ UNCHANGED <<miners, addr, sockets, pongs, pingVars, inbox, check, finder, live>>

\* The receiver task ends: a close message, or an error.
End(u) ==
  /\ peer[u] \in {"up", "silent", "back"}
  /\ peer' = [peer EXCEPT ![u] = "ended"]
  /\ unanswered' = [unanswered EXCEPT ![u] = None]
  /\ live' = live \ {u}
  /\ UNCHANGED <<miners, addr, sockets, pongs, ping, inbox, check, finder>>

\* handle_socket goes on, under another lock.
Leave(u) ==
  /\ peer[u] = "ended"
  /\ sockets' = [sockets EXCEPT ![addr[u]] = None]
  /\ peer' = [peer EXCEPT ![u] = "done"]
  /\ UNCHANGED <<miners, addr, pongs, pingVars, inbox, check, finder, live>>

Answer(u) ==
  /\ peer[u] \in {"up", "back"}
  /\ unanswered[u] # None
  /\ u \notin inbox
  /\ inbox' = inbox \cup {u}
  /\ UNCHANGED <<miners, connVars, sockets, pongs, pingVars, check, finder, live>>

-----------------------------------------------------------------------------
(* The client message handler.                                              *)

\* Mutant: the time of an address that is there is not renewed.
HandlePongOnce(u) ==
  /\ u \in inbox
  /\ inbox' = inbox \ {u}
  /\ pongs' = [pongs EXCEPT ![addr[u]] = IF @ = None THEN 0 ELSE @]
  /\ unanswered' = [unanswered EXCEPT ![u] = None]
  /\ UNCHANGED <<miners, connVars, sockets, ping, check, finder, live>>

HandlePong(u) ==
  /\ u \in inbox
  /\ inbox' = inbox \ {u}
  /\ pongs' = [pongs EXCEPT ![addr[u]] = 0]
  /\ unanswered' = [unanswered EXCEPT ![u] = None]
  /\ UNCHANGED <<miners, connVars, sockets, ping, check, finder, live>>

\* A solution of u is entered into the epoch under its uuid, for the miner of
\* the socket that is at its address by then.
HandleSolution(u) ==
  /\ Joined(u)
  /\ sockets[addr[u]] # None
  /\ finder' = [finder EXCEPT ![u] = MinerOf[sockets[addr[u]]]]
  /\ UNCHANGED <<miners, connVars, sockets, pongs, pingVars, inbox, check, live>>

-----------------------------------------------------------------------------
(* ping_check_system.                                                       *)

\* Mutant: an address that has been freed is pinged as well.
PingStartFree ==
  /\ ping.pc = "due"
  /\ ping' = [pc |-> "send", todo |-> {sockets[a] : a \in Addrs}, failed |-> {}]
  /\ UNCHANGED <<miners, connVars, sockets, pongs, unanswered, inbox, check, finder, live>>

PingStart ==
  /\ ping.pc = "due"
  /\ ping' = [pc |-> "send", todo |-> {sockets[a] : a \in Addrs} \ {None},
              failed |-> {}]
  /\ UNCHANGED <<miners, connVars, sockets, pongs, unanswered, inbox, check, finder, live>>

\* A ping to a client that is up arrives; one to any other may fail.
PingSend(u) ==
  /\ u \in ping.todo
  /\ \/ /\ peer[u] \in {"up", "silent", "back"}
        /\ ping' = [ping EXCEPT !.todo = @ \ {u}]
        /\ unanswered' = [unanswered EXCEPT ![u] = IF @ = None THEN 0 ELSE @]
     \/ /\ peer[u] \notin {"up", "back"}
        /\ ping' = [ping EXCEPT !.todo = @ \ {u}, !.failed = @ \cup {u}]
        /\ UNCHANGED unanswered
  /\ UNCHANGED <<miners, connVars, sockets, pongs, inbox, check, finder, live>>

PingRemove(u) ==
  /\ u \in ping.failed
  /\ ping' = [ping EXCEPT !.failed = @ \ {u}]
  /\ sockets' = [sockets EXCEPT ![addr[u]] = None]
  /\ UNCHANGED <<miners, connVars, pongs, unanswered, inbox, check, finder, live>>

PingEnd ==
  /\ ping.pc = "send"
  /\ ping.todo = {} /\ ping.failed = {}
  /\ ping' = [ping EXCEPT !.pc = "asleep"]
  /\ UNCHANGED <<miners, connVars, sockets, pongs, unanswered, inbox, check, finder, live>>

-----------------------------------------------------------------------------
(* pong_tracking_system.                                                    *)

\* Mutant: the check looks only for what connections have left behind.
CheckFree ==
  /\ check.due
  /\ check' = [check EXCEPT !.due = FALSE,
                            !.copy = [a \in Addrs |-> IF sockets[a] = None
                                                      THEN pongs[a] ELSE None]]
  /\ UNCHANGED <<miners, connVars, sockets, pongs, pingVars, inbox, finder, live>>

\* At most once in 30 seconds.
CheckStart ==
  /\ check.due
  /\ check' = [check EXCEPT !.due = FALSE, !.copy = pongs]
  /\ UNCHANGED <<miners, connVars, sockets, pongs, pingVars, inbox, finder, live>>

\* At the age PongLimit 90 seconds may have passed or not, above it they have.
CheckPass(a) ==
  /\ check.forget = None
  /\ check.copy[a] # None
  /\ check.copy[a] <= PongLimit
  /\ check' = [check EXCEPT !.copy[a] = None]
  /\ UNCHANGED <<miners, connVars, sockets, pongs, pingVars, inbox, finder, live>>

CheckRemove(a) ==
  /\ check.forget = None
  /\ check.copy[a] # None
  /\ check.copy[a] >= PongLimit
  /\ sockets' = [sockets EXCEPT ![a] = None]
  /\ check' = [check EXCEPT !.forget = a]
  /\ UNCHANGED <<miners, connVars, pongs, pingVars, inbox, finder, live>>

CheckForget ==
  /\ check.forget # None
  /\ pongs' = [pongs EXCEPT ![check.forget] = None]
  /\ check' = [check EXCEPT !.copy[check.forget] = None, !.forget = None]
  /\ UNCHANGED <<miners, connVars, sockets, pingVars, inbox, finder, live>>

-----------------------------------------------------------------------------
(* 30 seconds go by.                                                        *)

Older(age, limit) == IF age = None THEN None
                     ELSE IF age < limit THEN age + 1 ELSE age

OlderPongs(ages) == [a \in Addrs |-> Older(ages[a], PongLimit + 1)]

\* A round of pings has not ended since the last tick, or a check has not, or
\* u has not answered, or its answer was not handled.
Late(u) ==
  \/ ping.pc # "asleep"
  \/ check.copy # NoAddr
  \/ unanswered[u] # None /\ unanswered[u] >= MaxLag

\* The sleeps end of the tasks that sleep.  A check in progress judges its copy
\* by the time that has passed since.
Tick ==
  /\ ping' = [ping EXCEPT !.pc = IF @ = "asleep" THEN "due" ELSE @]
  /\ check' = [check EXCEPT !.due = @ \/ check.copy = NoAddr,
                            !.copy = OlderPongs(@)]
  /\ pongs' = OlderPongs(pongs)
  /\ unanswered' = [u \in Conns |-> Older(unanswered[u], MaxLag)]
  /\ live' = {u \in live : ~Late(u)}
  /\ UNCHANGED <<miners, connVars, sockets, inbox, finder>>

HandshakeStep(u) ==
  \/ \E a \in Addrs : Request(u, a)
  \/ SignUpLoop(u)
  \/ HangUp(u)
  \/ Join(u)
  \/ Refuse(u)

ClientStep(u) == FallSilent(u) \/ Wake(u) \/ End(u) \/ Answer(u)

ServerStep(u) == Leave(u) \/ HandlePong(u) \/ HandleSolution(u)

PingStep == PingStart \/ PingEnd \/ \E u \in Conns : PingSend(u) \/ PingRemove(u)

CheckStep ==
  CheckStart \/ CheckForget \/ \E a \in Addrs : CheckPass(a) \/ CheckRemove(a)

Next ==
  \/ \E m \in Miners : PostSignup(m)
  \/ \E u \in Conns : HandshakeStep(u) \/ ClientStep(u) \/ ServerStep(u)
  \/ PingStep
  \/ CheckStep
  \/ Tick

Spec == Init /\ [][Next]_vars

\* The tasks are polled, the sends they await end at some time, and time passes.
Fairness == WF_vars(Tick) /\ WF_vars(CheckStep)

FairSpec == Spec /\ Fairness

-----------------------------------------------------------------------------
Alone(u) == \A v \in Conns \ {u} : addr[v] = addr[u] => ~Joined(v)

\* Mutant: it is paid if somebody is at its address.
PayableByAddress(u) == addr[u] # None /\ sockets[addr[u]] # None

\* A submission is paid if its uuid is among the sockets.
Payable(u) == \E a \in Addrs : sockets[a] = u

\* No task takes its socket from a client that is up and answers its pings, as
\* long as no round of pings, no check and no answer has taken more than its
\* time since the client joined: the check judges a copy of the pongs, and four
\* tasks remove by address.  An earlier connection from its address takes it
\* only if one of its entries or tasks was left when the client joined.
\* (systems/pong_tracking_system.rs:12-28, main.rs:664-709, utils.rs:415-417)
LiveKeepsSocket == \A u \in live : sockets[addr[u]] = u

\* What a connection found is paid to its own miner: the handler looks the
\* miner up by the address, the payout looks the connection up by the uuid.
\* (client_message_handler_system.rs:109-116, pool_mine_success_system.rs:97-98)
PaidToItsMiner ==
  \A u \in Conns : Payable(u) /\ finder[u] # None => finder[u] = MinerOf[u]

\* A client that has gone silent after it once answered loses its socket, or is
\* back.  One that never answered has no pong that could grow old.
\* (systems/pong_tracking_system.rs:19-28)
SilentLeaves ==
  \A u \in Conns :
    peer[u] = "silent" /\ Alone(u) /\ pongs[addr[u]] # None
      ~> peer[u] # "silent" \/ sockets[addr[u]] # u
=============================================================================
