--------------------------- MODULE ConnectionProofs ---------------------------
(* No task takes the socket of a client that is up while rounds, checks and  *)
(* answers keep to their time, and what a connection found is paid to its    *)
(* own miner: for every number of clients and addresses, every limit of      *)
(* pong_tracking_system and every delay of an answer below it.               *)
EXTENDS Connections, TLAPS

SocketsIndexed ==
  \A a \in Addrs : sockets[a] # None => /\ Joined(sockets[a])
                                        /\ addr[sockets[a]] = a

KnownHaveJoined ==
  \A u \in Conns :
    u \in inbox \cup ping.todo \cup ping.failed \/ finder[u] # None => Joined(u)

\* A check starts when the last one has ended, and the address it is about to
\* forget is still in its copy.
CheckInOrder ==
  /\ check.due => check.copy = NoAddr
  /\ check.forget # None => check.copy[check.forget] # None

PingAsleep == ping.pc # "send" => ping.todo = {} /\ ping.failed = {}

BaseInv ==
  /\ ConnTypeOK
  /\ SocketsIndexed
  /\ KnownHaveJoined
  /\ CheckInOrder
  /\ PingAsleep
  /\ PaidToItsMiner

\* How old the last pong of a client that is up can be: as old as the ping it
\* has not answered, and one round more.
PongBound(u) ==
  IF unanswered[u] # None THEN unanswered[u] + 1
  ELSE IF ping.pc = "due" \/ u \in ping.todo THEN 1 ELSE 0

\* No other connection of its address can still take its socket.
OthersGone(u) ==
  \A v \in Conns \ {u} :
    addr[v] = addr[u] => /\ Joined(v) => peer[v] = "done"
                         /\ v \notin ping.todo \cup ping.failed

Kept(u) ==
  /\ peer[u] = "up"
  /\ sockets[addr[u]] = u
  /\ OthersGone(u)
  /\ u \notin ping.failed
  /\ check.forget # addr[u]
  /\ check.copy[addr[u]] # None => check.copy[addr[u]] <= MaxLag + 1
  /\ pongs[addr[u]] # None => pongs[addr[u]] <= PongBound(u)

LiveInv == \A u \in live : Kept(u)

-----------------------------------------------------------------------------
LEMMA BaseInit == Init => BaseInv /\ LiveInv
<1> SUFFICES ASSUME Init PROVE BaseInv /\ LiveInv
  OBVIOUS
<1>1. ConnTypeOK
  BY ConnAssumption, TimeAssumption
  DEF Init, ConnTypeOK, NoAddr, NoConn, Ping, Check, Peer, Ages
<1>2. SocketsIndexed /\ KnownHaveJoined /\ CheckInOrder /\ PingAsleep
  BY ConnAssumption
  DEF Init, SocketsIndexed, KnownHaveJoined, CheckInOrder, PingAsleep,
      NoAddr, NoConn
<1>3. PaidToItsMiner /\ LiveInv
  BY DEF Init, PaidToItsMiner, LiveInv, NoConn
<1>4. QED
  BY <1>1, <1>2, <1>3 DEF BaseInv

LEMMA TypeKept == ConnTypeOK /\ [Next]_vars => ConnTypeOK'
<1> SUFFICES ASSUME ConnTypeOK, [Next]_vars PROVE ConnTypeOK'
  OBVIOUS
<1> USE ConnAssumption, TimeAssumption DEF ConnTypeOK
<1>1. ASSUME NEW m \in Miners, PostSignup(m) PROVE ConnTypeOK'
  BY <1>1 DEF PostSignup, SignUp, connVars, pingVars
<1>2. ASSUME NEW u \in Conns, HandshakeStep(u) PROVE ConnTypeOK'
  <2>1. ASSUME NEW a \in Addrs, Request(u, a) PROVE ConnTypeOK'
    BY <2>1 DEF Request, Peer, connVars, pingVars
  <2>2. CASE SignUpLoop(u)
    BY <2>2 DEF SignUpLoop, SignUp, Peer, connVars, pingVars
  <2>3. CASE HangUp(u) \/ Refuse(u)
    BY <2>3 DEF HangUp, Refuse, Peer, connVars, pingVars
  <2>4. CASE Join(u)
    BY <2>4 DEF Join, Peer, connVars, pingVars
  <2>5. QED
    BY <1>2, <2>1, <2>2, <2>3, <2>4 DEF HandshakeStep
<1>3. ASSUME NEW u \in Conns, ClientStep(u) PROVE ConnTypeOK'
  <2>1. CASE FallSilent(u) \/ Wake(u) \/ End(u)
    BY <2>1 DEF FallSilent, Wake, End, Peer, connVars, pingVars
  <2>2. CASE Answer(u)
    BY <2>2 DEF Answer, connVars, pingVars
  <2>3. QED
    BY <1>3, <2>1, <2>2 DEF ClientStep
<1>4. ASSUME NEW u \in Conns, ServerStep(u) PROVE ConnTypeOK'
  <2>1. CASE Leave(u)
    BY <2>1 DEF Leave, Peer, connVars, pingVars
  <2>2. CASE HandlePong(u)
    <3>1. 0 \in Ages
      BY DEF Ages
    <3>2. pongs' \in [Addrs -> Ages \cup {None}]
      BY <2>2, <3>1 DEF HandlePong
    <3>3. unanswered' \in [Conns -> 0..MaxLag \cup {None}]
      BY <2>2 DEF HandlePong
    <3>4. QED
      BY <2>2, <3>2, <3>3 DEF HandlePong, connVars
  <2>3. CASE HandleSolution(u)
    BY <2>3 DEF HandleSolution, Joined, connVars, pingVars
  <2>4. QED
    BY <1>4, <2>1, <2>2, <2>3 DEF ServerStep
<1>5. CASE PingStep
  <2>1. CASE PingStart
    <3>1. {sockets[a] : a \in Addrs} \ {None} \subseteq Conns
      OBVIOUS
    <3>2. QED
      BY <2>1, <3>1 DEF PingStart, Ping, connVars, pingVars
  <2>2. CASE PingEnd
    BY <2>2 DEF PingEnd, Ping, connVars, pingVars
  <2>3. ASSUME NEW u \in Conns, PingSend(u) PROVE ConnTypeOK'
    <3>1. ping' \in Ping
      <4>1. \/ ping' = [ping EXCEPT !.todo = @ \ {u}]
            \/ ping' = [ping EXCEPT !.todo = @ \ {u}, !.failed = @ \cup {u}]
        BY <2>3 DEF PingSend
      <4>2. ping \in Ping
        OBVIOUS
      <4>3. QED
        BY ONLY <4>1, <4>2, u \in Conns DEF Ping
    <3>2. unanswered' \in [Conns -> 0..MaxLag \cup {None}]
      BY <2>3 DEF PingSend
    <3>3. QED
      BY <2>3, <3>1, <3>2 DEF PingSend, connVars
  <2>4. ASSUME NEW u \in Conns, PingRemove(u) PROVE ConnTypeOK'
    BY <2>4 DEF PingRemove, Ping, connVars, pingVars
  <2>5. QED
    BY <1>5, <2>1, <2>2, <2>3, <2>4 DEF PingStep
<1>6. CASE CheckStep
  <2>1. CASE CheckStart
    BY <2>1 DEF CheckStart, Check, Ages, connVars, pingVars
  <2>2. CASE CheckForget
    BY <2>2 DEF CheckForget, Check, Ages, connVars, pingVars
  <2>3. ASSUME NEW a \in Addrs, CheckPass(a) PROVE ConnTypeOK'
    <3>1. check' \in Check
      BY <2>3 DEF CheckPass, Check
    <3>2. QED
      BY <2>3, <3>1 DEF CheckPass, connVars, pingVars
  <2>4. ASSUME NEW a \in Addrs, CheckRemove(a) PROVE ConnTypeOK'
    <3>1. check' \in Check
      BY <2>4 DEF CheckRemove, Check
    <3>2. QED
      BY <2>4, <3>1 DEF CheckRemove, connVars, pingVars
  <2>5. QED
    BY <1>6, <2>1, <2>2, <2>3, <2>4 DEF CheckStep
<1>7. CASE Tick
  <2>1. ping' \in Ping
    BY <1>7 DEF Tick, Ping
  <2>2. /\ pongs' \in [Addrs -> Ages \cup {None}]
        /\ check' \in Check
    <3>1. check.copy \in [Addrs -> Ages \cup {None}]
      BY DEF Check
    <3>2. /\ OlderPongs(pongs) \in [Addrs -> Ages \cup {None}]
          /\ OlderPongs(check.copy) \in [Addrs -> Ages \cup {None}]
      BY <3>1 DEF OlderPongs, Older, Ages
    <3>3. QED
      BY <1>7, <3>2 DEF Tick, Check
  <2>3. unanswered' \in [Conns -> 0..MaxLag \cup {None}]
    BY <1>7 DEF Tick, Older
  <2>4. QED
    BY <1>7, <2>1, <2>2, <2>3 DEF Tick, connVars
<1>8. CASE UNCHANGED vars
  BY <1>8 DEF vars, connVars, pingVars
<1>9. QED
  BY <1>1, <1>2, <1>3, <1>4, <1>5, <1>6, <1>7, <1>8 DEF Next

-----------------------------------------------------------------------------
\* A connection that has joined has joined for good, at its address.
LEMMA JoinedStays ==
  ASSUME ConnTypeOK, [Next]_vars, NEW u \in Conns, Joined(u)
  PROVE  Joined(u)' /\ addr'[u] = addr[u]
<1> USE DEF ConnTypeOK, Joined, connVars, pingVars
<1>1. ASSUME NEW v \in Conns, HandshakeStep(v)
      PROVE  Joined(u)' /\ addr'[u] = addr[u]
  BY <1>1 DEF HandshakeStep, Request, SignUpLoop, HangUp, Join, Refuse
<1>2. ASSUME NEW v \in Conns, ClientStep(v) \/ ServerStep(v)
      PROVE  Joined(u)' /\ addr'[u] = addr[u]
  BY <1>2 DEF ClientStep, FallSilent, Wake, End, Answer, ServerStep, Leave,
              HandlePong, HandleSolution
<1>3. CASE PingStep \/ CheckStep
  BY <1>3 DEF PingStep, PingStart, PingSend, PingRemove, PingEnd,
              CheckStep, CheckStart, CheckPass, CheckRemove, CheckForget
<1>4. CASE Tick \/ UNCHANGED vars
  BY <1>4 DEF Tick, vars
<1>5. ASSUME NEW m \in Miners, PostSignup(m)
      PROVE  Joined(u)' /\ addr'[u] = addr[u]
  BY <1>5 DEF PostSignup
<1>6. QED
  BY <1>1, <1>2, <1>3, <1>4, <1>5 DEF Next

\* The connection that joins was not among those that have.
LEMMA SocketsKept ==
  BaseInv /\ [Next]_vars => SocketsIndexed' /\ PaidToItsMiner'
<1> SUFFICES ASSUME BaseInv, [Next]_vars
             PROVE  SocketsIndexed' /\ PaidToItsMiner'
  OBVIOUS
<1> USE ConnAssumption DEF BaseInv, ConnTypeOK
<1>1. \A v \in Conns : Joined(v) => Joined(v)' /\ addr'[v] = addr[v]
  BY JoinedStays
\* The sockets lose entries, and nothing is found.
<1>2. ASSUME finder' = finder,
             \A a \in Addrs : sockets'[a] \in {sockets[a], None}
      PROVE  SocketsIndexed' /\ PaidToItsMiner'
  <2>1. SocketsIndexed'
    BY <1>1, <1>2 DEF SocketsIndexed
  <2>2. PaidToItsMiner'
    BY <1>2 DEF PaidToItsMiner, Payable
  <2>3. QED
    BY <2>1, <2>2
<1>3. ASSUME NEW u \in Conns, Join(u)
      PROVE  SocketsIndexed' /\ PaidToItsMiner'
  <2>1. ~Joined(u) /\ Joined(u)' /\ addr' = addr /\ addr[u] \in Addrs
    BY <1>3 DEF Join, Joined
  <2>2. SocketsIndexed'
    BY <1>1, <1>3, <2>1 DEF SocketsIndexed, Join
  <2>3. finder' = finder /\ finder[u] = None
    BY <1>3, <2>1 DEF Join, KnownHaveJoined
  <2>4. PaidToItsMiner'
    BY <1>3, <2>1, <2>3 DEF PaidToItsMiner, Payable, Join
  <2>5. QED
    BY <2>2, <2>4
<1>4. ASSUME NEW u \in Conns, HandleSolution(u)
      PROVE  SocketsIndexed' /\ PaidToItsMiner'
  <2>1. SocketsIndexed'
    BY <1>1, <1>4 DEF SocketsIndexed, HandleSolution
  <2>2. Payable(u) => sockets[addr[u]] = u
    BY DEF Payable, SocketsIndexed
  <2>3. PaidToItsMiner'
    BY <1>4, <2>2 DEF PaidToItsMiner, Payable, HandleSolution
  <2>4. QED
    BY <2>1, <2>3
<1>5. ASSUME NEW u \in Conns, Leave(u) \/ PingRemove(u)
      PROVE  SocketsIndexed' /\ PaidToItsMiner'
  BY <1>2, <1>5 DEF Leave, PingRemove
<1>6. ASSUME NEW a \in Addrs, CheckRemove(a)
      PROVE  SocketsIndexed' /\ PaidToItsMiner'
  BY <1>2, <1>6 DEF CheckRemove
\* No other action touches the sockets or the finders.
<1>7. CASE UNCHANGED <<sockets, finder>>
  BY <1>2, <1>7
<1>8. QED
  BY <1>3, <1>4, <1>5, <1>6, <1>7
  DEF Next, PostSignup, HandshakeStep, Request, SignUpLoop, HangUp, Refuse,
      ClientStep, FallSilent, Wake, End, Answer, ServerStep, HandlePong,
      PingStep, PingStart, PingSend, PingEnd,
      CheckStep, CheckStart, CheckPass, CheckForget, Tick, vars,
      connVars, pingVars

LEMMA KnownKept ==
  BaseInv /\ [Next]_vars => KnownHaveJoined' /\ PingAsleep'
<1> SUFFICES ASSUME BaseInv, [Next]_vars
             PROVE  KnownHaveJoined' /\ PingAsleep'
  OBVIOUS
<1> USE ConnAssumption DEF BaseInv, ConnTypeOK
<1>1. \A v \in Conns : Joined(v) => Joined(v)' /\ addr'[v] = addr[v]
  BY JoinedStays
<1>2. CASE UNCHANGED <<inbox, ping, finder>>
  BY <1>1, <1>2 DEF KnownHaveJoined, PingAsleep
<1>3. ASSUME NEW u \in Conns, Answer(u)
      PROVE  KnownHaveJoined' /\ PingAsleep'
  BY <1>1, <1>3 DEF Answer, KnownHaveJoined, PingAsleep, Joined, pingVars
<1>4. ASSUME NEW u \in Conns, HandlePong(u)
      PROVE  KnownHaveJoined' /\ PingAsleep'
  BY <1>1, <1>4 DEF HandlePong, KnownHaveJoined, PingAsleep
<1>5. ASSUME NEW u \in Conns, HandleSolution(u)
      PROVE  KnownHaveJoined' /\ PingAsleep'
  BY <1>1, <1>5 DEF HandleSolution, KnownHaveJoined, PingAsleep, pingVars
<1>6. CASE PingStart
  <2>1. \A v \in ping'.todo : Joined(v)
    BY <1>6 DEF PingStart, SocketsIndexed
  <2>2. ping'.pc = "send" /\ ping'.failed = {} /\ UNCHANGED <<inbox, finder>>
    BY <1>6 DEF PingStart
  <2>3. QED
    BY <1>1, <2>1, <2>2 DEF KnownHaveJoined, PingAsleep
<1>7. ASSUME NEW u \in Conns, PingSend(u)
      PROVE  KnownHaveJoined' /\ PingAsleep'
  <2>1. /\ ping'.todo \subseteq ping.todo
        /\ ping'.failed \subseteq ping.failed \cup {u}
        /\ ping'.pc = ping.pc
    <3>1. \/ ping' = [ping EXCEPT !.todo = @ \ {u}]
          \/ ping' = [ping EXCEPT !.todo = @ \ {u}, !.failed = @ \cup {u}]
      BY <1>7 DEF PingSend
    <3>2. ping \in Ping
      OBVIOUS
    <3>3. QED
      BY ONLY <3>1, <3>2 DEF Ping
  <2>2. u \in ping.todo /\ UNCHANGED <<inbox, finder>>
    BY <1>7 DEF PingSend
  <2>3. QED
    BY <1>1, <2>1, <2>2 DEF KnownHaveJoined, PingAsleep
<1>8. ASSUME NEW u \in Conns, PingRemove(u)
      PROVE  KnownHaveJoined' /\ PingAsleep'
  <2>1. /\ ping'.todo = ping.todo /\ ping'.failed = ping.failed \ {u}
        /\ ping'.pc = ping.pc /\ UNCHANGED <<inbox, finder>>
    BY <1>8 DEF PingRemove, Ping
  <2>2. QED
    BY <1>1, <2>1 DEF KnownHaveJoined, PingAsleep
<1>9. CASE PingEnd
  <2>1. /\ ping'.todo = {} /\ ping'.failed = {} /\ UNCHANGED <<inbox, finder>>
    BY <1>9 DEF PingEnd, Ping
  <2>2. QED
    BY <1>1, <2>1 DEF KnownHaveJoined, PingAsleep
<1>10. CASE Tick
  <2>1. /\ ping'.todo = ping.todo /\ ping'.failed = ping.failed
        /\ ping'.pc = "send" <=> ping.pc = "send"
        /\ UNCHANGED <<inbox, finder>>
    BY <1>10 DEF Tick, Ping
  <2>2. QED
    BY <1>1, <2>1 DEF KnownHaveJoined, PingAsleep
<1>11. QED
  BY <1>2, <1>3, <1>4, <1>5, <1>6, <1>7, <1>8, <1>9, <1>10
  DEF Next, PostSignup, HandshakeStep, Request, SignUpLoop, HangUp, Join, Refuse,
      ClientStep, FallSilent, Wake, End, ServerStep, Leave, PingStep,
      CheckStep, CheckStart, CheckPass, CheckRemove, CheckForget, vars,
      connVars, pingVars

LEMMA CheckKept == BaseInv /\ [Next]_vars => CheckInOrder'
<1> SUFFICES ASSUME BaseInv, [Next]_vars PROVE CheckInOrder'
  OBVIOUS
<1> USE ConnAssumption DEF BaseInv, ConnTypeOK
<1>1. CASE CheckStart
  <2>1. check'.due = FALSE /\ check'.forget = check.forget
    BY <1>1 DEF CheckStart, Check
  <2>2. check.forget = None
    BY <1>1 DEF CheckStart, CheckInOrder, NoAddr, Check
  <2>3. QED
    BY <2>1, <2>2 DEF CheckInOrder
<1>2. ASSUME NEW a \in Addrs, CheckPass(a) PROVE CheckInOrder'
  <2>1. /\ check'.forget = None /\ check'.due = check.due
        /\ check.copy[a] # None
    BY <1>2 DEF CheckPass, Check
  <2>2. check.due = FALSE
    BY <2>1 DEF CheckInOrder, NoAddr, Check
  <2>3. QED
    BY <2>1, <2>2 DEF CheckInOrder
<1>3. ASSUME NEW a \in Addrs, CheckRemove(a) PROVE CheckInOrder'
  <2>1. /\ check'.forget = a /\ check'.due = check.due
        /\ check'.copy = check.copy /\ check.copy[a] # None
    BY <1>3 DEF CheckRemove, Check
  <2>2. QED
    BY <2>1 DEF CheckInOrder
<1>4. CASE CheckForget
  <2>1. check'.forget = None /\ check'.due = check.due
    BY <1>4 DEF CheckForget, Check
  <2>2. check.due = FALSE
    BY <1>4 DEF CheckForget, CheckInOrder, NoAddr, Check
  <2>3. QED
    BY <2>1, <2>2 DEF CheckInOrder
<1>5. CASE Tick
  <2>1. /\ check'.copy = OlderPongs(check.copy) /\ check'.forget = check.forget
        /\ check'.due => check.due \/ check.copy = NoAddr
    BY <1>5 DEF Tick, Check
  <2>2. check.copy \in [Addrs -> Ages \cup {None}]
    BY DEF Check
  <2>3. \A a \in Addrs : check'.copy[a] = None <=> check.copy[a] = None
    BY <2>1, <2>2, TimeAssumption DEF OlderPongs, Older, Ages
  <2>4. check.copy = NoAddr => check'.copy = NoAddr
    BY <2>1 DEF OlderPongs, Older, NoAddr
  <2>5. check'.forget # None => check'.copy[check'.forget] # None
    BY <2>1, <2>3 DEF CheckInOrder, Check
  <2>6. QED
    BY <2>1, <2>4, <2>5 DEF CheckInOrder
<1>6. CASE UNCHANGED check
  BY <1>6 DEF CheckInOrder
<1>7. QED
  BY <1>1, <1>2, <1>3, <1>4, <1>5, <1>6
  DEF Next, PostSignup, HandshakeStep, Request, SignUpLoop, HangUp, Join, Refuse,
      ClientStep, FallSilent, Wake, End, Answer, ServerStep, Leave, HandlePong,
      HandleSolution, PingStep, PingStart, PingSend, PingRemove, PingEnd,
      CheckStep, vars, connVars, pingVars

LEMMA BaseKept == BaseInv /\ [Next]_vars => BaseInv'
BY TypeKept, SocketsKept, KnownKept, CheckKept DEF BaseInv

-----------------------------------------------------------------------------
\* The steps that move a client.
PeerStep(u) ==
  HandshakeStep(u) \/ FallSilent(u) \/ Wake(u) \/ End(u) \/ Leave(u)

LEMMA PeersMove ==
  ASSUME [Next]_vars
  PROVE  UNCHANGED connVars \/ \E u \in Conns : PeerStep(u)
<1>1. ASSUME NEW u \in Conns, ClientStep(u) \/ ServerStep(u)
      PROVE  UNCHANGED connVars \/ PeerStep(u)
  BY <1>1 DEF ClientStep, Answer, ServerStep, HandlePong, HandleSolution, PeerStep
<1>2. CASE PingStep \/ CheckStep
  BY <1>2 DEF PingStep, PingStart, PingSend, PingRemove, PingEnd,
              CheckStep, CheckStart, CheckPass, CheckRemove, CheckForget
<1>3. CASE Tick \/ UNCHANGED vars
  BY <1>3 DEF Tick, vars
<1>4. ASSUME NEW m \in Miners, PostSignup(m) PROVE UNCHANGED connVars
  BY <1>4 DEF PostSignup
<1>5. QED
  BY <1>1, <1>2, <1>3, <1>4 DEF Next, PeerStep

LEMMA LiveMove ==
  ASSUME [Next]_vars
  PROVE  \/ live' \subseteq live
         \/ \E u \in Conns : Join(u) /\ FindsNothing(u) /\ live' = live \cup {u}
<1>1. ASSUME NEW u \in Conns, HandshakeStep(u)
      PROVE  \/ live' \subseteq live
             \/ Join(u) /\ FindsNothing(u) /\ live' = live \cup {u}
  <2>1. CASE Join(u)
    <3>1. live' = IF FindsNothing(u) THEN live \cup {u} ELSE live
      BY <2>1, Zenon DEF Join
    <3>2. CASE FindsNothing(u)
      BY <2>1, <3>1, <3>2, Zenon
    <3>3. ASSUME ~FindsNothing(u) PROVE live' \subseteq live
      <4>1. live' = live
        BY <3>1, <3>3, Zenon
      <4>2. QED
        BY <4>1
    <3>4. QED
      BY <3>2, <3>3, Zenon
  <2>2. ASSUME NEW a \in Addrs, Request(u, a) PROVE live' \subseteq live
    BY <2>2 DEF Request
  <2>3. ASSUME SignUpLoop(u) \/ HangUp(u) \/ Refuse(u) PROVE live' \subseteq live
    BY <2>3 DEF SignUpLoop, HangUp, Refuse
  <2>4. QED
    BY <1>1, <2>1, <2>2, <2>3, Zenon DEF HandshakeStep
<1>2. ASSUME NEW u \in Conns, ClientStep(u) \/ ServerStep(u)
      PROVE  live' \subseteq live
  BY <1>2 DEF ClientStep, FallSilent, Wake, End, Answer, ServerStep, Leave,
              HandlePong, HandleSolution
<1>3. CASE PingStep \/ CheckStep
  BY <1>3 DEF PingStep, PingStart, PingSend, PingRemove, PingEnd,
              CheckStep, CheckStart, CheckPass, CheckRemove, CheckForget
<1>4. CASE Tick \/ UNCHANGED vars
  BY <1>4 DEF Tick, vars
<1>5. ASSUME NEW m \in Miners, PostSignup(m) PROVE live' \subseteq live
  BY <1>5 DEF PostSignup
<1>6. QED
  BY <1>1, <1>2, <1>3, <1>4, <1>5 DEF Next

\* While w has the socket of its address no other connection joins there.
LEMMA OthersStayGone ==
  ASSUME BaseInv, [Next]_vars, NEW w \in Conns, Kept(w)
  PROVE  \A v \in Conns \ {w} :
           addr'[v] = addr[w] /\ Joined(v)' => peer'[v] = "done"
<1> USE ConnAssumption DEF BaseInv, ConnTypeOK, Joined, connVars, pingVars
<1> SUFFICES ASSUME NEW v \in Conns \ {w}, addr'[v] = addr[w], Joined(v)'
             PROVE  peer'[v] = "done"
  OBVIOUS
<1>1. addr[w] \in Addrs /\ sockets[addr[w]] = w
  BY DEF Kept
<1>2. CASE addr[v] = addr[w] /\ peer[v] = "done"
  <2>1. ASSUME NEW u \in Conns, PeerStep(u) PROVE peer'[v] = "done"
    BY <1>2, <2>1 DEF PeerStep, HandshakeStep, Request, SignUpLoop, HangUp, Join,
                      Refuse, FallSilent, Wake, End, Leave
  <2>2. QED
    BY <1>2, <2>1, PeersMove
<1>3. CASE addr[v] # addr[w] /\ Joined(v)
  BY <1>3, JoinedStays
<1>4. CASE ~Joined(v)
  <2>1. HandshakeStep(v)
    <3>1. PICK u \in Conns : PeerStep(u)
      BY <1>4, PeersMove
    <3>2. u = v
      BY <1>4, <3>1 DEF PeerStep, HandshakeStep, Request, SignUpLoop, HangUp, Join,
                        Refuse, FallSilent, Wake, End, Leave
    <3>3. QED
      BY <1>4, <3>1, <3>2 DEF PeerStep, FallSilent, Wake, End, Leave
  <2>2. Join(v) /\ addr' = addr
    BY <1>4, <2>1 DEF HandshakeStep, Request, SignUpLoop, HangUp, Join, Refuse
  <2>3. QED
    BY <1>1, <2>2 DEF Join
<1>5. QED
  BY <1>2, <1>3, <1>4 DEF Kept, OthersGone

\* An action that does nothing to what Kept says of w.
Untouched(w) ==
  /\ peer'[w] = peer[w]
  /\ sockets'[addr[w]] = sockets[addr[w]]
  /\ check'.copy[addr[w]] = check.copy[addr[w]]
  /\ check'.forget = check.forget
  /\ pongs'[addr[w]] = pongs[addr[w]]
  /\ ping' = ping
  /\ unanswered'[w] = unanswered[w]

\* A connection that joins on a free address keeps its socket at first.
LEMMA LiveFromJoin ==
  ASSUME BaseInv, NEW w \in Conns, Join(w), FindsNothing(w)
  PROVE  Kept(w)'
<1> USE ConnAssumption, TimeAssumption DEF BaseInv, ConnTypeOK
<1>1. /\ addr' = addr /\ addr[w] \in Addrs /\ ~Joined(w)
      /\ ping' = ping /\ check' = check /\ pongs' = pongs
      /\ peer'[w] = "up" /\ \A v \in Conns \ {w} : peer'[v] = peer[v]
      /\ sockets'[addr[w]] = w
  BY DEF Join, Joined
<1>2. /\ pongs[addr[w]] = None /\ check.copy[addr[w]] = None
      /\ check.forget # addr[w]
  BY <1>1 DEF FindsNothing, CheckInOrder
<1>3. OthersGone(w)'
  BY <1>1 DEF FindsNothing, OthersGone, Joined
<1>4. w \notin ping.failed
  BY <1>1 DEF KnownHaveJoined
<1>5. QED
  BY <1>1, <1>2, <1>3, <1>4 DEF Kept

LEMMA LiveKept == BaseInv /\ LiveInv /\ [Next]_vars => LiveInv'
<1> SUFFICES ASSUME BaseInv, LiveInv, [Next]_vars, NEW w \in Conns, w \in live'
             PROVE  Kept(w)'
  BY BaseKept DEF LiveInv, BaseInv, ConnTypeOK
<1> USE ConnAssumption, TimeAssumption DEF BaseInv, ConnTypeOK
<1>1. CASE w \notin live
  <2>1. Join(w) /\ FindsNothing(w)
    BY <1>1, LiveMove
  <2>2. QED
    BY <2>1, LiveFromJoin
<1>2. SUFFICES ASSUME w \in live PROVE Kept(w)'
  BY <1>1
<1>3. /\ Kept(w) /\ peer[w] = "up" /\ Joined(w) /\ addr[w] \in Addrs
      /\ addr'[w] = addr[w] /\ BaseInv'
  BY <1>2, JoinedStays, BaseKept DEF LiveInv, Kept, Joined
<1>4. \A v \in Conns : Joined(v) => Joined(v)' /\ addr'[v] = addr[v]
  BY JoinedStays
\* Another connection of the address that is known is done, and only its pong
\* may be left.
<1>5. \A u \in Conns \ {w} :
        peer[u] \in {"up", "silent", "back", "ended"}
          \/ u \in ping.todo \cup ping.failed
        => addr[u] # addr[w]
  BY <1>3 DEF Kept, OthersGone, Joined
<1>6. ASSUME \A v \in Conns \ {w} :
               addr'[v] = addr[w] => v \notin ping'.todo \cup ping'.failed
      PROVE  OthersGone(w)'
  BY <1>3, <1>6, OthersStayGone DEF OthersGone
\* Nobody that is not yet joined is pinged.
<1>7. ASSUME ping'.todo \subseteq ping.todo \cup {w},
             ping'.failed \subseteq ping.failed \cup ping.todo
      PROVE  OthersGone(w)'
  <2>1. \A v \in ping.todo \cup ping.failed : addr'[v] = addr[v] /\ v \in Conns
    BY <1>4 DEF KnownHaveJoined, Ping
  <2>2. QED
    BY <1>5, <1>6, <1>7, <2>1
<1>8. ASSUME Untouched(w) PROVE Kept(w)'
  <2>1. OthersGone(w)'
    BY <1>7, <1>8 DEF Untouched
  <2>2. QED
    BY <1>3, <1>8, <2>1 DEF Kept, Untouched, PongBound
<1>9. ASSUME NEW m \in Miners, PostSignup(m) PROVE Kept(w)'
  BY <1>8, <1>9 DEF PostSignup, Untouched, connVars, pingVars
<1>10. ASSUME NEW u \in Conns, HandshakeStep(u) PROVE Kept(w)'
  <2>1. CASE Join(u)
    <3>1. u # w /\ addr[u] # addr[w]
      BY <1>3, <2>1 DEF Join, Kept
    <3>2. QED
      BY <1>3, <1>8, <2>1, <3>1 DEF Join, Untouched
  <2>2. CASE ~Join(u)
    BY <1>3, <1>8, <1>10, <2>2
    DEF HandshakeStep, Request, SignUpLoop, HangUp, Refuse, Untouched,
        connVars, pingVars
  <2>3. QED
    BY <2>1, <2>2
<1>11. ASSUME NEW u \in Conns, ClientStep(u) PROVE Kept(w)'
  <2>1. CASE FallSilent(u) \/ End(u)
    <3>1. u # w
      BY <2>1 DEF FallSilent, End
    <3>2. QED
      BY <1>8, <2>1, <3>1 DEF FallSilent, End, Untouched, pingVars
  <2>2. CASE Wake(u) \/ Answer(u)
    BY <1>3, <1>8, <2>2 DEF Wake, Answer, Untouched, connVars, pingVars
  <2>3. QED
    BY <1>11, <2>1, <2>2 DEF ClientStep
<1>12. ASSUME NEW u \in Conns, ServerStep(u) PROVE Kept(w)'
  <2>1. CASE Leave(u)
    <3>1. u # w /\ addr[u] # addr[w]
      BY <1>3, <1>5, <2>1 DEF Leave
    <3>2. QED
      BY <1>3, <1>8, <2>1, <3>1 DEF Leave, Untouched, pingVars
  <2>2. CASE HandlePong(u)
    <3>1. pongs'[addr[w]] \in {pongs[addr[w]], 0}
      BY <1>3, <2>2 DEF HandlePong
    <3>2. u = w => pongs'[addr[w]] = 0 /\ unanswered'[w] = None
      BY <1>3, <2>2 DEF HandlePong
    <3>3. u # w => unanswered'[w] = unanswered[w]
      BY <2>2 DEF HandlePong
    <3>4. UNCHANGED <<peer, sockets, check, ping>>
      BY <2>2 DEF HandlePong, connVars
    <3>5. OthersGone(w)'
      BY <1>7, <3>4
    <3>6. PongBound(w)' \in Nat
      BY <1>3 DEF PongBound
    <3>7. pongs'[addr[w]] # None => pongs'[addr[w]] <= PongBound(w)'
      BY <1>3, <3>1, <3>2, <3>3, <3>4, <3>6 DEF Kept, PongBound
    <3>8. QED
      BY <1>3, <3>4, <3>5, <3>7 DEF Kept
  <2>3. CASE HandleSolution(u)
    BY <1>8, <2>3 DEF HandleSolution, Untouched, connVars, pingVars
  <2>4. QED
    BY <1>12, <2>1, <2>2, <2>3 DEF ServerStep
<1>13. CASE PingStep
  <2>1. CASE PingStart
    <3>1. w \in ping'.todo /\ ping'.failed = {} /\ ping.pc = "due"
      BY <2>1, <1>3 DEF PingStart, Kept
    <3>2. UNCHANGED <<peer, addr, sockets, check, pongs, unanswered>>
      BY <2>1 DEF PingStart, connVars
    <3>3. \A v \in ping'.todo : sockets[addr[v]] = v
      BY <2>1 DEF PingStart, SocketsIndexed
    <3>4. OthersGone(w)'
      BY <1>3, <1>6, <3>1, <3>2, <3>3 DEF Kept
    <3>5. QED
      BY <1>3, <3>1, <3>2, <3>4 DEF Kept, PongBound
  <2>2. CASE PingEnd
    <3>1. /\ ping'.todo = ping.todo /\ ping'.failed = ping.failed
          /\ w \notin ping.todo /\ ping.pc = "send" /\ ping'.pc = "asleep"
          /\ UNCHANGED <<peer, sockets, check, pongs, unanswered>>
      BY <2>2 DEF PingEnd, Ping, connVars
    <3>2. OthersGone(w)'
      BY <1>7, <3>1
    <3>3. QED
      BY <1>3, <3>1, <3>2 DEF Kept, PongBound
  <2>3. ASSUME NEW u \in Conns, PingSend(u) PROVE Kept(w)'
    <3>1. /\ ping.pc = "send" /\ ping.todo # {} /\ u \in ping.todo
          /\ UNCHANGED <<peer, sockets, check, pongs>>
      BY <2>3 DEF PingSend, PingAsleep, connVars
    <3>2. /\ ping'.todo = ping.todo \ {u}
          /\ ping'.failed \in {ping.failed, ping.failed \cup {u}}
          /\ ping'.pc = ping.pc
      <4>1. \/ ping' = [ping EXCEPT !.todo = @ \ {u}]
            \/ ping' = [ping EXCEPT !.todo = @ \ {u}, !.failed = @ \cup {u}]
        BY <2>3 DEF PingSend
      <4>2. ping \in Ping
        OBVIOUS
      <4>3. QED
        BY ONLY <4>1, <4>2 DEF Ping
    <3>3. OthersGone(w)'
      BY <1>7, <3>1, <3>2
    <3>4. CASE u = w
      <4>1. /\ ping'.failed = ping.failed
            /\ unanswered'[w] = IF unanswered[w] = None THEN 0
                                ELSE unanswered[w]
        BY <1>3, <2>3, <3>4 DEF PingSend, Ping
      <4>2. PongBound(w) <= PongBound(w)'
        BY <3>1, <3>4, <4>1 DEF PongBound
      <4>3. PongBound(w) \in Nat /\ PongBound(w)' \in Nat
        BY <1>3 DEF PongBound
      <4>4. pongs'[addr[w]] # None => pongs'[addr[w]] <= PongBound(w)'
        BY <1>3, <3>1, <4>2, <4>3 DEF Kept, Ages
      <4>5. QED
        BY <1>3, <3>1, <3>3, <4>1, <4>4 DEF Kept
    <3>5. CASE u # w
      <4>1. unanswered'[w] = unanswered[w]
        BY <2>3, <3>5 DEF PingSend
      <4>2. QED
        BY <1>3, <3>1, <3>2, <3>3, <3>5, <4>1 DEF Kept, PongBound
    <3>6. QED
      BY <3>4, <3>5
  <2>4. ASSUME NEW u \in Conns, PingRemove(u) PROVE Kept(w)'
    <3>1. /\ u \in ping.failed /\ u # w
          /\ UNCHANGED <<peer, check, pongs, unanswered>>
      BY <1>3, <2>4 DEF PingRemove, Kept, connVars
    <3>2. sockets'[addr[w]] = sockets[addr[w]]
      BY <1>3, <1>5, <2>4, <3>1 DEF PingRemove
    <3>3. /\ ping'.todo = ping.todo /\ ping'.pc = ping.pc
          /\ ping'.failed \subseteq ping.failed
      BY <2>4 DEF PingRemove, Ping
    <3>4. OthersGone(w)'
      BY <1>7, <3>3
    <3>5. QED
      BY <1>3, <3>1, <3>2, <3>3, <3>4 DEF Kept, PongBound
  <2>5. QED
    BY <1>13, <2>1, <2>2, <2>3, <2>4 DEF PingStep
<1>14. CASE CheckStep
  <2>1. /\ UNCHANGED <<peer, unanswered, ping>>
        /\ PongBound(w)' = PongBound(w)
    BY <1>14 DEF CheckStep, CheckStart, CheckPass, CheckRemove, CheckForget,
                 connVars, pingVars, PongBound
  <2>2. OthersGone(w)'
    BY <1>7, <2>1
  <2>3. PongBound(w) \in Nat /\ PongBound(w) <= MaxLag + 1
    BY DEF PongBound
  <2>4. CASE CheckStart
    <3>1. /\ UNCHANGED <<sockets, pongs>>
          /\ check'.copy = pongs /\ check'.forget = check.forget
      BY <2>4 DEF CheckStart, Check
    <3>2. check'.copy[addr[w]] # None => check'.copy[addr[w]] <= MaxLag + 1
      BY <1>3, <2>3, <3>1 DEF Kept, Ages
    <3>3. QED
      BY <1>3, <2>1, <2>2, <3>1, <3>2 DEF Kept
  <2>5. ASSUME NEW a \in Addrs, CheckPass(a) PROVE Kept(w)'
    <3>1. /\ UNCHANGED <<sockets, pongs>> /\ check'.forget = check.forget
          /\ \A b \in Addrs : check'.copy[b] \in {check.copy[b], None}
      BY <2>5 DEF CheckPass, Check
    <3>2. QED
      BY <1>3, <2>1, <2>2, <3>1 DEF Kept
  <2>6. ASSUME NEW a \in Addrs, CheckRemove(a) PROVE Kept(w)'
    <3>1. pongs' = pongs /\ check'.forget = a /\ check'.copy = check.copy
      BY <2>6 DEF CheckRemove, Check
    <3>2. check.copy[a] \in Nat /\ check.copy[a] > MaxLag + 1
      BY <2>6 DEF CheckRemove, Check, Ages
    <3>3. a # addr[w]
      BY <1>3, <3>1, <3>2 DEF Kept
    <3>4. sockets'[addr[w]] = sockets[addr[w]]
      BY <1>3, <2>6, <3>3 DEF CheckRemove
    <3>5. QED
      BY <1>3, <2>1, <2>2, <3>1, <3>3, <3>4 DEF Kept
  <2>7. CASE CheckForget
    <3>1. /\ sockets' = sockets /\ check'.forget = None
          /\ \A b \in Addrs : /\ check'.copy[b] \in {check.copy[b], None}
                              /\ pongs'[b] \in {pongs[b], None}
      BY <2>7 DEF CheckForget, Check
    <3>2. QED
      BY <1>3, <2>1, <2>2, <3>1 DEF Kept
  <2>8. QED
    BY <1>14, <2>4, <2>5, <2>6, <2>7 DEF CheckStep
\* w is not late: no round and no check is going on, and it has answered or
\* has time left.
<1>15. CASE Tick
  <2>1. /\ ping.pc = "asleep" /\ check.copy = NoAddr
        /\ unanswered[w] # None => unanswered[w] < MaxLag
    BY <1>15 DEF Tick, Late
  <2>2. /\ ping'.pc = "due" /\ ping'.failed = ping.failed
        /\ ping'.todo = ping.todo /\ ping.todo = {}
        /\ check'.forget = check.forget /\ UNCHANGED <<peer, sockets>>
    BY <1>15, <2>1 DEF Tick, Check, Ping, connVars, PingAsleep
  <2>3. check'.copy[addr[w]] = None
    <3>1. check'.copy = OlderPongs(NoAddr)
      BY <1>15, <2>1 DEF Tick, Check
    <3>2. QED
      BY <1>3, <3>1 DEF OlderPongs, Older, NoAddr
  <2>4. /\ unanswered[w] # None => unanswered'[w] = unanswered[w] + 1
        /\ unanswered[w] = None => unanswered'[w] = None
    BY <1>15, <2>1 DEF Tick, Older
  <2>5. /\ pongs[addr[w]] = None => pongs'[addr[w]] = None
        /\ pongs[addr[w]] # None => pongs'[addr[w]] <= pongs[addr[w]] + 1
    BY <1>3, <1>15 DEF Tick, OlderPongs, Older, Ages
  <2>6. pongs'[addr[w]] # None => pongs'[addr[w]] <= PongBound(w)'
    <3>1. CASE unanswered[w] = None
      BY <1>3, <2>1, <2>2, <2>4, <2>5, <3>1 DEF Kept, PongBound, Ages
    <3>2. CASE unanswered[w] # None
      BY <1>3, <2>1, <2>4, <2>5, <3>2 DEF Kept, PongBound, Ages
    <3>3. QED
      BY <3>1, <3>2
  <2>7. OthersGone(w)'
    BY <1>7, <2>2
  <2>8. QED
    BY <1>3, <2>2, <2>3, <2>6, <2>7 DEF Kept
<1>16. CASE UNCHANGED vars
  BY <1>8, <1>16 DEF vars, Untouched, connVars, pingVars
<1>17. QED
  BY <1>9, <1>10, <1>11, <1>12, <1>13, <1>14, <1>15, <1>16 DEF Next

-----------------------------------------------------------------------------
\* The states of the connections are what their declarations say.
\* (utils.rs:362-420, systems/pong_tracking_system.rs)
THEOREM ConnTypeCorrect == Spec => []ConnTypeOK
<1>1. Init => ConnTypeOK
  BY BaseInit DEF BaseInv
<1>2. QED
  BY <1>1, TypeKept, PTL DEF Spec

\* What a connection found is never paid to the miner of another one, although
\* the handler looks the miner up by the address and the payout looks for the
\* uuid. (client_message_handler_system.rs:109-116,
\* pool_mine_success_system.rs:97-98)
THEOREM EachPaidToItsMiner == Spec => []PaidToItsMiner
<1>1. Init => BaseInv
  BY BaseInit
<1>2. BaseInv => PaidToItsMiner
  BY DEF BaseInv
<1>3. QED
  BY <1>1, <1>2, BaseKept, PTL DEF Spec

\* As long as rounds of pings, checks and answers keep to their time, no
\* interleaving of them with other connections takes the socket of a client
\* that is up, when it found nothing of an earlier one at its address.
\* (systems/pong_tracking_system.rs:12-28, main.rs:664-709)
THEOREM LiveAlwaysKeepsSocket == Spec => []LiveKeepsSocket
<1>1. Init => BaseInv /\ LiveInv
  BY BaseInit
<1>2. BaseInv /\ LiveInv /\ [Next]_vars => BaseInv' /\ LiveInv'
  BY BaseKept, LiveKept
<1>3. BaseInv /\ LiveInv => LiveKeepsSocket
  BY DEF LiveInv, LiveKeepsSocket, Kept
<1>4. QED
  BY <1>1, <1>2, <1>3, PTL DEF Spec
=============================================================================
