----------------------------- MODULE PayoutProofs -----------------------------
(* Payout books to the balances as RewardLedger says, and every share in a   *)
(* balance has its row in earnings: for every number of connections, miners  *)
(* and challenges, every size of a batch, and every restart, lost answer and *)
(* swallowed error.                                                          *)
EXTENDS Payout, SumTheorems, TLAPS

\* The parts of the types that do not add amounts up.
ShapeOK ==
  /\ mined \in [Challenges -> Success \cup {None}]
  /\ jobs \in [Challenges -> {"none", "commission", "send", "sent", "lost"}]
  /\ queue \in Seq(Challenges)
  /\ pay \in Pay
  /\ pay.at \in 0..Len(pay.paid)
  /\ \A i, j \in DOMAIN pay.paid : pay.paid[i] = pay.paid[j] => i = j

AtWork == pay.pc \notin {"recv", "dead"}

\* A challenge is in one place: it is not mined, or announced, or queued once,
\* or in the hands of the payout system.
JobsInOrder ==
  /\ \A c \in Challenges : mined[c] = None <=> jobs[c] = "none"
  /\ \A n \in 1..Len(queue) : jobs[queue[n]] = "sent"
  /\ \A n, k \in 1..Len(queue) : queue[n] = queue[k] => n = k
  /\ AtWork => /\ pay.challenge \in Challenges
               /\ jobs[pay.challenge] = "sent"
               /\ \A n \in 1..Len(queue) : queue[n] # pay.challenge

\* Where the challenge of a credit can be: its commission is booked before it
\* is announced, its shares while the payout system has it.
CreditOK(e) ==
  /\ Ledger!IsCredit(e)
  /\ e.payee = Commission => jobs[e.challenge] \notin {"none", "commission"}
  /\ e.payee # Commission =>
       /\ jobs[e.challenge] \in {"sent", "lost"}
       /\ \A n \in 1..Len(queue) : queue[n] # e.challenge
       /\ AtWork /\ pay.challenge = e.challenge =>
            /\ pay.pc # "earnings"
            /\ pay.pc = "rewards" => \E i \in 1..pay.at : e.payee = pay.paid[i]

CreditsInOrder == \A e \in credited : CreditOK(e)

\* The rows that a batch of credits relies on.
EarningsFirst ==
  /\ earnings \in [Challenges -> [Conns -> Nat]]
  /\ pay.pc = "earnings" =>
       \A i \in 1..pay.at : earnings[pay.challenge][pay.paid[i]] > 0
  /\ pay.pc = "rewards" =>
       \A i \in 1..Len(pay.paid) : earnings[pay.challenge][pay.paid[i]] > 0
  /\ CreditedIsEarned

PayInv == ShapeOK /\ JobsInOrder /\ CreditsInOrder /\ EarningsFirst

-----------------------------------------------------------------------------
LEMMA PayInit == Init => PayInv
<1> SUFFICES ASSUME Init PROVE PayInv
  OBVIOUS
<1>1. ShapeOK
  BY DEF Init, ShapeOK, PayIdle, Pay, PayPc
<1>2. JobsInOrder
  BY DEF Init, JobsInOrder, AtWork, PayIdle
<1>3. CreditsInOrder /\ EarningsFirst
  BY DEF Init, CreditsInOrder, EarningsFirst, CreditedIsEarned, PayIdle
<1>4. QED
  BY <1>1, <1>2, <1>3 DEF PayInv

\* An order of a set of connections is a sequence of them without repetition.
LEMMA OrdersAreSequences ==
  ASSUME NEW C \in SUBSET Conns, NEW s \in Orders(C)
  PROVE  /\ s \in Seq(Conns)
         /\ \A i, j \in DOMAIN s : s[i] = s[j] => i = j
<1>1. Cardinality(C) \in Nat
  BY PayoutConnAssumption, FS_Subset, FS_CardinalityType
<1>2. s \in [1..Cardinality(C) -> Conns]
  BY DEF Orders
<1>3. QED
  BY <1>1, <1>2 DEF Orders

LEMMA BatchBounds ==
  ASSUME ShapeOK, pay.at < Len(pay.paid)
  PROVE  /\ BatchEnd \in (pay.at + 1)..Len(pay.paid)
         /\ \A u \in Batch : \E i \in (pay.at + 1)..BatchEnd : u = pay.paid[i]
         /\ \A i \in (pay.at + 1)..BatchEnd : pay.paid[i] \in Batch
         /\ Batch \subseteq Conns
<1>1. pay.at \in Nat /\ Len(pay.paid) \in Nat /\ pay.paid \in Seq(Conns)
  BY DEF ShapeOK, Pay
<1>2. BatchEnd \in (pay.at + 1)..Len(pay.paid)
  BY <1>1, PayoutBoundAssumption DEF BatchEnd
<1>3. QED
  BY <1>1, <1>2 DEF Batch

LEMMA ShapeKept == PayInv /\ [Next]_vars => ShapeOK'
<1> SUFFICES ASSUME PayInv, [Next]_vars PROVE ShapeOK'
  OBVIOUS
<1> USE DEF PayInv, ShapeOK
<1>1. ASSUME NEW c \in Challenges, Finalized(c) PROVE ShapeOK'
  BY <1>1 DEF Finalized, Success
<1>2. ASSUME NEW c \in Challenges, JobStep(c) PROVE ShapeOK'
  BY <1>2 DEF JobStep, BookCommission, SendSuccess
<1>3. CASE Receive
  <2>1. Head(queue) \in Challenges /\ queue' \in Seq(Challenges)
    BY <1>3 DEF Receive
  <2>2. mined[Head(queue)] \in Success
    <3>1. jobs[Head(queue)] = "sent"
      BY <1>3 DEF Receive, JobsInOrder
    <3>2. QED
      BY <2>1, <3>1 DEF JobsInOrder
  <2>3. DOMAIN mined[Head(queue)].table \subseteq Conns
    BY <2>2, PayoutConnAssumption DEF Success
  <2>4. PICK socks \in SUBSET DOMAIN mined[Head(queue)].table :
        \E s \in Orders(socks) :
          pay' = [pc |-> "earnings", challenge |-> Head(queue), paid |-> s, at |-> 0]
    BY <1>3 DEF Receive
  <2>5. PICK s \in Orders(socks) :
          pay' = [pc |-> "earnings", challenge |-> Head(queue), paid |-> s, at |-> 0]
    BY <2>4
  <2>6. s \in Seq(Conns) /\ \A i, j \in DOMAIN s : s[i] = s[j] => i = j
    BY <2>3, OrdersAreSequences
  <2>7. pay' \in Pay /\ pay'.at \in 0..Len(pay'.paid)
    BY <2>1, <2>5, <2>6 DEF Pay, PayPc
  <2>8. QED
    BY <1>3, <2>1, <2>5, <2>6, <2>7 DEF Receive
<1>4. CASE LookupFails \/ Restart
  <2>1. PayIdle \in Pay /\ [PayIdle EXCEPT !.pc = "dead"] \in Pay
    <3>1. <<>> \in Seq(Conns)
      OBVIOUS
    <3>2. PayIdle \in Pay
      BY <3>1 DEF PayIdle, Pay, PayPc
    <3>3. [PayIdle EXCEPT !.pc = "dead"] \in Pay
      BY <3>2 DEF Pay, PayPc
    <3>4. QED
      BY <3>2, <3>3
  <2>2. jobs' \in [Challenges -> {"none", "commission", "send", "sent", "lost"}]
    BY <1>4 DEF LookupFails, Restart
  <2>3. pay'.at = 0 /\ pay'.paid = <<>> /\ queue' = <<>> /\ mined' = mined
    BY <1>4 DEF LookupFails, Restart, PayIdle
  <2>4. pay' \in Pay
    BY <1>4, <2>1 DEF LookupFails, Restart
  <2>5. QED
    BY <2>2, <2>3, <2>4
<1>5. CASE NextTable
  <2>1. pay' \in Pay /\ pay'.paid = pay.paid /\ pay'.at = 0
    BY <1>5 DEF NextTable, After, Pay, PayPc
  <2>2. QED
    BY <1>5, <2>1 DEF NextTable, Pay
<1>6. ASSUME NextBatch("earnings") \/ NextBatch("rewards") \/ NextBatch("submissions"),
             BatchDone \/ UNCHANGED pay,
             UNCHANGED <<mined, jobs, queue>>
      PROVE  ShapeOK'
  <2>1. BatchEnd \in 0..Len(pay.paid)
    BY <1>6, BatchBounds DEF NextBatch, Pay
  <2>2. CASE BatchDone
    BY <1>6, <2>1, <2>2 DEF BatchDone, Pay
  <2>3. QED
    BY <1>6, <2>2
<1>7. CASE BookEarnings \/ BookRewards \/ BookSubmissions
  BY <1>6, <1>7 DEF BookEarnings, BookRewards, BookSubmissions, AnswerLost
<1>8. CASE BookPool \/ SettleChallenge
  <2>1. CASE pay' = PayIdle
    BY <1>8, <2>1 DEF BookPool, SettleChallenge, Pay, PayPc, PayIdle
  <2>2. CASE pay' = [pay EXCEPT !.pc = "find"]
    BY <1>8, <2>2 DEF BookPool, SettleChallenge, Pay, PayPc
  <2>3. QED
    BY <1>8, <2>1, <2>2 DEF BookPool, AnswerLost, SettleChallenge
<1>9. CASE UNCHANGED vars
  BY <1>9 DEF vars
<1>10. QED
  BY <1>1, <1>2, <1>3, <1>4, <1>5, <1>7, <1>8, <1>9 DEF Next, PayStep

LEMMA JobsKept == PayInv /\ [Next]_vars => JobsInOrder'
<1> SUFFICES ASSUME PayInv, [Next]_vars PROVE JobsInOrder'
  OBVIOUS
<1>1. ShapeOK'
  BY ShapeKept
<1> USE DEF PayInv, ShapeOK
<1>2. ASSUME UNCHANGED <<mined, jobs, queue>>,
             AtWork' => AtWork /\ pay'.challenge = pay.challenge
      PROVE  JobsInOrder'
  BY <1>2 DEF JobsInOrder
<1>3. ASSUME NEW c \in Challenges, Finalized(c) PROVE JobsInOrder'
  <2>1. mined[c] = None /\ jobs[c] = "none" /\ jobs'[c] = "commission"
    BY <1>3 DEF Finalized, JobsInOrder
  <2>2. mined'[c] # None
    <3>1. mined'[c] \in Success
      BY <1>3 DEF Finalized, Success
    <3>2. QED
      BY <3>1, PayoutNoneAssumption
  <2>3. \A d \in Challenges : d # c => mined'[d] = mined[d] /\ jobs'[d] = jobs[d]
    BY <1>3 DEF Finalized
  <2>4. \A n \in 1..Len(queue) : queue[n] \in Challenges /\ queue[n] # c
    BY <2>1 DEF JobsInOrder
  <2>5. queue' = queue /\ pay' = pay
    BY <1>3 DEF Finalized
  <2>6. QED
    BY <2>1, <2>2, <2>3, <2>4, <2>5 DEF JobsInOrder, AtWork
<1>4. ASSUME NEW c \in Challenges, BookCommission(c) PROVE JobsInOrder'
  <2>1. jobs[c] = "commission" /\ jobs' = [jobs EXCEPT ![c] = "send"]
    BY <1>4 DEF BookCommission
  <2>2. UNCHANGED <<mined, queue, pay>>
    BY <1>4 DEF BookCommission
  <2>3. \A n \in 1..Len(queue) : queue[n] \in Challenges /\ queue[n] # c
    BY <2>1 DEF JobsInOrder
  <2>4. QED
    BY <2>1, <2>2, <2>3 DEF JobsInOrder, AtWork
<1>5. ASSUME NEW c \in Challenges, SendSuccess(c) PROVE JobsInOrder'
  <2>1. jobs[c] = "send" /\ jobs' = [jobs EXCEPT ![c] = "sent"]
    BY <1>5 DEF SendSuccess
  <2>2. UNCHANGED <<mined, pay>> /\ queue' \in {queue, Append(queue, c)}
    BY <1>5 DEF SendSuccess
  <2>3. \A n \in 1..Len(queue) : queue[n] \in Challenges /\ queue[n] # c
    BY <2>1 DEF JobsInOrder
  <2>4. AtWork => pay.challenge # c
    BY <2>1 DEF JobsInOrder
  <2>5. CASE queue' = queue
    BY <2>1, <2>2, <2>3, <2>4, <2>5 DEF JobsInOrder, AtWork
  <2>6. CASE queue' = Append(queue, c)
    <3>1. /\ Len(queue') = Len(queue) + 1 /\ queue'[Len(queue) + 1] = c
          /\ \A n \in 1..Len(queue) : queue'[n] = queue[n]
      BY <2>6
    <3>2. \A n \in 1..Len(queue') : n = Len(queue) + 1 \/ n \in 1..Len(queue)
      BY <3>1
    <3>3. \A n \in 1..Len(queue') : jobs'[queue'[n]] = "sent"
      BY <2>1, <2>3, <3>1, <3>2 DEF JobsInOrder
    <3>4. \A n, k \in 1..Len(queue') : queue'[n] = queue'[k] => n = k
      BY <2>3, <3>1, <3>2 DEF JobsInOrder
    <3>5. \A d \in Challenges : mined'[d] = None <=> jobs'[d] = "none"
      BY <2>1, <2>2 DEF JobsInOrder
    <3>6. AtWork' => /\ pay'.challenge \in Challenges
                     /\ jobs'[pay'.challenge] = "sent"
                     /\ \A n \in 1..Len(queue') : queue'[n] # pay'.challenge
      BY <2>1, <2>2, <2>4, <3>1, <3>2 DEF JobsInOrder, AtWork
    <3>7. QED
      BY <3>3, <3>4, <3>5, <3>6 DEF JobsInOrder
  <2>7. QED
    BY <2>2, <2>5, <2>6
<1>6. CASE Receive
  <2>1. /\ queue # <<>> /\ queue' = Tail(queue) /\ UNCHANGED <<mined, jobs>>
        /\ pay'.challenge = queue[1]
    BY <1>6 DEF Receive
  <2>2. /\ Len(queue') = Len(queue) - 1 /\ 1 \in 1..Len(queue)
        /\ \A n \in 1..Len(queue') : queue'[n] = queue[n + 1] /\ n + 1 \in 1..Len(queue)
    BY <2>1
  <2>3. queue[1] \in Challenges /\ jobs[queue[1]] = "sent"
    BY <2>2 DEF JobsInOrder
  <2>4. ASSUME NEW n \in 1..Len(queue')
        PROVE  queue'[n] # queue[1] /\ jobs[queue'[n]] = "sent"
    <3>1. /\ n + 1 \in 1..Len(queue) /\ n + 1 # 1 /\ 1 \in 1..Len(queue)
          /\ queue'[n] = queue[n + 1]
      BY <2>2
    <3>2. queue[n + 1] # queue[1] /\ jobs[queue[n + 1]] = "sent"
      BY <3>1 DEF JobsInOrder
    <3>3. QED
      BY <3>1, <3>2
  <2>5. \A n, k \in 1..Len(queue') : queue'[n] = queue'[k] => n = k
    BY <2>2 DEF JobsInOrder
  <2>6. QED
    BY <2>1, <2>3, <2>4, <2>5 DEF JobsInOrder
<1>7. CASE LookupFails
  <2>1. queue' = <<>> /\ UNCHANGED <<mined, jobs>> /\ ~AtWork'
    BY <1>7 DEF LookupFails, PayIdle, AtWork
  <2>2. QED
    BY <2>1 DEF JobsInOrder
<1>8. CASE Restart
  <2>1. queue' = <<>> /\ UNCHANGED mined /\ ~AtWork'
    BY <1>8 DEF Restart, PayIdle, AtWork
  <2>2. \A c \in Challenges : jobs'[c] = "none" <=> jobs[c] = "none"
    BY <1>8 DEF Restart
  <2>3. QED
    BY <2>1, <2>2 DEF JobsInOrder
<1>9. CASE NextTable
  BY <1>2, <1>9 DEF NextTable, AtWork, Pay
<1>10. CASE BookEarnings \/ BookRewards \/ BookSubmissions
  <2>1. UNCHANGED <<mined, jobs, queue>> /\ (BatchDone \/ UNCHANGED pay)
    BY <1>10 DEF BookEarnings, BookRewards, BookSubmissions, AnswerLost
  <2>2. QED
    BY <1>2, <2>1 DEF BatchDone, AtWork, Pay
<1>11. CASE BookPool \/ SettleChallenge
  <2>1. /\ UNCHANGED <<mined, jobs, queue>>
        /\ \/ pay' = [pay EXCEPT !.pc = "find"] /\ pay.pc = "pool"
           \/ UNCHANGED pay
           \/ pay' = PayIdle
    BY <1>11 DEF BookPool, AnswerLost, SettleChallenge
  <2>2. QED
    BY <1>2, <2>1 DEF AtWork, Pay, PayIdle
<1>12. CASE UNCHANGED vars
  BY <1>2, <1>12 DEF vars, AtWork
<1>13. QED
  BY <1>3, <1>4, <1>5, <1>6, <1>7, <1>8, <1>9, <1>10, <1>11, <1>12
  DEF Next, JobStep, PayStep

\* A challenge goes on, and into the queue only once.
LEMMA JobsForward ==
  ASSUME PayInv, [Next]_vars, NEW c \in Challenges
  PROVE  /\ jobs[c] \notin {"none", "commission"}
              => jobs'[c] \notin {"none", "commission"}
         /\ jobs[c] \in {"sent", "lost"} => jobs'[c] \in {"sent", "lost"}
         /\ /\ jobs[c] \in {"sent", "lost"}
            /\ \A n \in 1..Len(queue) : queue[n] # c
            => \A n \in 1..Len(queue') : queue'[n] # c
<1> USE DEF PayInv, ShapeOK
<1> DEFINE Goal ==
      /\ jobs[c] \notin {"none", "commission"}
              => jobs'[c] \notin {"none", "commission"}
      /\ jobs[c] \in {"sent", "lost"} => jobs'[c] \in {"sent", "lost"}
      /\ /\ jobs[c] \in {"sent", "lost"}
         /\ \A n \in 1..Len(queue) : queue[n] # c
         => \A n \in 1..Len(queue') : queue'[n] # c
<1>1. ASSUME NEW d \in Challenges, Finalized(d) PROVE Goal
  <2>1. jobs[d] = "none"
    BY <1>1 DEF Finalized, JobsInOrder
  <2>2. QED
    BY <1>1, <2>1 DEF Finalized
<1>2. ASSUME NEW d \in Challenges, BookCommission(d) PROVE Goal
  BY <1>2 DEF BookCommission
<1>3. ASSUME NEW d \in Challenges, SendSuccess(d) PROVE Goal
  <2>1. jobs[d] = "send" /\ jobs' = [jobs EXCEPT ![d] = "sent"]
    BY <1>3 DEF SendSuccess
  <2>2. queue' \in {queue, Append(queue, d)}
    BY <1>3 DEF SendSuccess
  <2>3. \A n \in 1..Len(queue') :
          \/ queue'[n] = d
          \/ n \in 1..Len(queue) /\ queue'[n] = queue[n]
    BY <2>2
  <2>4. QED
    BY <2>1, <2>3
<1>4. CASE Receive
  <2>1. queue # <<>> /\ queue' = Tail(queue) /\ jobs' = jobs
    BY <1>4 DEF Receive
  <2>2. \A n \in 1..Len(queue') : queue'[n] = queue[n + 1] /\ n + 1 \in 1..Len(queue)
    BY <2>1
  <2>3. QED
    BY <2>1, <2>2
<1>5. CASE LookupFails \/ Restart
  BY <1>5 DEF LookupFails, Restart
<1>6. CASE UNCHANGED <<jobs, queue>>
  BY <1>6
<1>7. Goal
  BY <1>1, <1>2, <1>3, <1>4, <1>5, <1>6
  DEF Next, JobStep, PayStep, NextTable, BookEarnings, BookRewards,
      BookSubmissions, BookPool, SettleChallenge, vars
<1>8. QED
  BY <1>7

\* A credit stays in order, if what the payout system does about its challenge
\* does not disturb it.
LEMMA CreditStays ==
  ASSUME PayInv, [Next]_vars, NEW e, CreditOK(e),
         AtWork' /\ pay'.challenge = e.challenge /\ e.payee # Commission =>
           /\ pay'.pc # "earnings"
           /\ pay'.pc = "rewards" =>
                \E i \in 1..pay'.at : e.payee = pay'.paid[i]
  PROVE  CreditOK(e)'
<1>1. e.challenge \in Challenges /\ Ledger!IsCredit(e)
  BY DEF CreditOK, Ledger!IsCredit
<1>2. Ledger!IsCredit(e)'
  BY <1>1 DEF Ledger!IsCredit
<1>3. QED
  BY <1>1, <1>2, JobsForward DEF CreditOK

\* The credits of a batch, or none.
LEMMA BatchCredits ==
  ASSUME PayInv, NextBatch("rewards"), NEW e,
         e \in {ShareCredit(pay.challenge, u) : u \in Batch}
  PROVE  /\ Ledger!IsCredit(e)
         /\ e.challenge = pay.challenge /\ e.payee \in Batch
         /\ e = ShareCredit(pay.challenge, e.payee)
         /\ e.payee \in Conns /\ e.payee # Commission
         /\ \A d \in credited :
              e.challenge # d.challenge \/ e.payee # d.payee
<1> USE DEF PayInv
<1>1. PICK u \in Batch : e = ShareCredit(pay.challenge, u)
  OBVIOUS
<1>2. pay.pc = "rewards" /\ pay.at < Len(pay.paid)
  BY DEF NextBatch
<1>3. AtWork /\ pay.challenge \in Challenges
  BY <1>2 DEF JobsInOrder, AtWork
<1>4. u \in Conns /\ u # Commission
  BY <1>2, BatchBounds, PayoutConnAssumption
<1>5. MinerOf[u] \in Miners
  BY <1>4, PayoutConnAssumption
<1>6. /\ e.challenge = pay.challenge /\ e.payee = u /\ e.miner = MinerOf[u]
      /\ DOMAIN e = {"challenge", "payee", "miner", "amount"}
  BY <1>1 DEF ShareCredit
<1>7. Ledger!IsCredit(e)
  BY <1>3, <1>4, <1>5, <1>6 DEF Ledger!IsCredit
<1>8. ASSUME NEW d \in credited, d.challenge = pay.challenge, d.payee = u
      PROVE  FALSE
  <2>1. PICK i \in 1..pay.at : u = pay.paid[i]
    BY <1>2, <1>3, <1>4, <1>8 DEF CreditsInOrder, CreditOK
  <2>2. PICK k \in (pay.at + 1)..BatchEnd : u = pay.paid[k]
    BY <1>2, BatchBounds
  <2>3. BatchEnd \in (pay.at + 1)..Len(pay.paid)
    BY <1>2, BatchBounds
  <2>4. pay.at \in Nat /\ pay.paid \in Seq(Conns)
    BY DEF ShapeOK, Pay
  <2>5. i \in DOMAIN pay.paid /\ k \in DOMAIN pay.paid /\ i # k
    BY <2>3, <2>4
  <2>6. QED
    BY <2>1, <2>2, <2>5 DEF ShapeOK
<1>9. QED
  BY <1>1, <1>4, <1>6, <1>7, <1>8

LEMMA CommissionCredits ==
  ASSUME PayInv, NEW c \in Challenges, jobs[c] = "commission"
  PROVE  LET e == CommissionCredit(c) IN
         /\ Ledger!IsCredit(e)
         /\ e.challenge = c /\ e.payee = Commission
         /\ \A d \in credited :
              e.challenge # d.challenge \/ e.payee # d.payee
<1> DEFINE e == CommissionCredit(c)
<1>1. /\ e.challenge = c /\ e.payee = Commission /\ e.miner = CommissionsMiner
      /\ DOMAIN e = {"challenge", "payee", "miner", "amount"}
  BY DEF CommissionCredit
<1>2. Ledger!IsCredit(e)
  BY <1>1, PayoutConnAssumption DEF Ledger!IsCredit
<1>3. \A d \in credited : c # d.challenge \/ Commission # d.payee
  BY DEF PayInv, CreditsInOrder, CreditOK
<1>4. QED
  BY <1>1, <1>2, <1>3

LEMMA CreditsKept == PayInv /\ [Next]_vars => CreditsInOrder'
<1> SUFFICES ASSUME PayInv, [Next]_vars, NEW e \in credited'
             PROVE  CreditOK(e)'
  BY DEF CreditsInOrder
<1> USE DEF PayInv
<1>1. e \in credited => CreditOK(e)
  BY DEF CreditsInOrder
\* Nothing new, and the payout system is where it was or done with its batches.
<1>2. ASSUME credited' = credited,
             \/ pay' = pay
             \/ pay'.pc \notin {"earnings", "rewards"}
      PROVE  CreditOK(e)'
  <2>1. AtWork' /\ pay'.challenge = e.challenge /\ e.payee # Commission =>
           /\ pay'.pc # "earnings"
           /\ pay'.pc = "rewards" =>
                \E i \in 1..pay'.at : e.payee = pay'.paid[i]
    BY <1>1, <1>2 DEF CreditOK, AtWork
  <2>2. QED
    BY <1>1, <1>2, <2>1, CreditStays
<1>3. ASSUME NEW c \in Challenges, BookCommission(c) PROVE CreditOK(e)'
  <2>1. /\ jobs[c] = "commission" /\ UNCHANGED <<queue, pay>>
        /\ jobs' = [jobs EXCEPT ![c] = "send"]
        /\ credited' \in {credited, credited \cup {CommissionCredit(c)}}
    BY <1>3 DEF BookCommission, UpdateRewards, AddToBalances, ledgerVars
  <2>2. CASE e \in credited
    <3>1. AtWork' /\ pay'.challenge = e.challenge /\ e.payee # Commission =>
           /\ pay'.pc # "earnings"
           /\ pay'.pc = "rewards" =>
                \E i \in 1..pay'.at : e.payee = pay'.paid[i]
      BY <1>1, <2>1, <2>2 DEF CreditOK, AtWork
    <3>2. QED
      BY <1>1, <2>2, <3>1, CreditStays
  <2>3. CASE e = CommissionCredit(c)
    <3>1. Ledger!IsCredit(e) /\ e.challenge = c /\ e.payee = Commission
      BY <2>1, <2>3, CommissionCredits
    <3>2. Ledger!IsCredit(e)'
      BY <3>1 DEF Ledger!IsCredit
    <3>3. jobs'[c] = "send"
      BY <2>1 DEF ShapeOK
    <3>4. QED
      BY <3>1, <3>2, <3>3 DEF CreditOK
  <2>4. QED
    BY <2>1, <2>2, <2>3
<1>4. ASSUME NEW c \in Challenges, Finalized(c) \/ SendSuccess(c)
      PROVE  CreditOK(e)'
  BY <1>2, <1>4 DEF Finalized, SendSuccess, ledgerVars
<1>5. CASE Receive
  <2>1. /\ queue # <<>> /\ pay'.challenge = queue[1] /\ credited' = credited
    BY <1>5 DEF Receive, ledgerVars
  <2>2. e.payee # Commission => e.challenge # pay'.challenge
    <3>1. 1 \in 1..Len(queue)
      BY <2>1 DEF ShapeOK
    <3>2. QED
      BY <1>1, <2>1, <3>1 DEF CreditOK
  <2>3. QED
    BY <1>1, <2>1, <2>2, CreditStays
<1>6. CASE LookupFails \/ Restart
  BY <1>2, <1>6 DEF LookupFails, Restart, PayIdle, ledgerVars
<1>7. CASE NextTable
  <2>1. /\ credited' = credited /\ pay'.challenge = pay.challenge
        /\ pay.pc = "earnings" \/ pay'.pc \notin {"earnings", "rewards"}
        /\ AtWork
    BY <1>7 DEF NextTable, After, ledgerVars, ShapeOK, Pay, AtWork
  <2>2. CASE pay.pc = "earnings"
    <3>1. e.payee # Commission => e.challenge # pay'.challenge
      BY <1>1, <2>1, <2>2 DEF CreditOK
    <3>2. QED
      BY <1>1, <2>1, <3>1, CreditStays
  <2>3. QED
    BY <1>2, <2>1, <2>2
<1>8. CASE BookEarnings \/ BookSubmissions
  <2>1. /\ credited' = credited /\ pay'.challenge = pay.challenge
        /\ pay'.pc = pay.pc /\ pay.pc # "rewards" /\ AtWork
    BY <1>8 DEF BookEarnings, BookSubmissions, NextBatch, BatchDone, AnswerLost,
                ledgerVars, ShapeOK, Pay, AtWork
  <2>2. AtWork' /\ pay'.challenge = e.challenge /\ e.payee # Commission =>
           /\ pay'.pc # "earnings"
           /\ pay'.pc = "rewards" =>
                \E i \in 1..pay'.at : e.payee = pay'.paid[i]
    BY <1>1, <2>1 DEF CreditOK
  <2>3. QED
    BY <1>1, <2>1, <2>2, CreditStays
<1>9. CASE BookRewards
  <2>1. /\ NextBatch("rewards") /\ pay.pc = "rewards" /\ pay.at < Len(pay.paid)
        /\ pay' = [pay EXCEPT !.at = BatchEnd] /\ UNCHANGED <<jobs, queue>>
        /\ credited' \in {credited, credited \cup
                                    {ShareCredit(pay.challenge, u) : u \in Batch}}
    BY <1>9 DEF BookRewards, NextBatch, BatchDone, UpdateRewards, AddToBalances,
                ledgerVars
  <2>2. /\ pay'.challenge = pay.challenge /\ pay'.pc = "rewards"
        /\ pay'.paid = pay.paid /\ pay'.at = BatchEnd
    BY <2>1 DEF ShapeOK, Pay
  <2>3. /\ BatchEnd \in (pay.at + 1)..Len(pay.paid) /\ pay.at \in Nat
        /\ pay.paid \in Seq(Conns)
    BY <2>1, BatchBounds DEF ShapeOK, Pay
  <2>4. CASE e \in credited
    <3>1. AtWork' /\ pay'.challenge = e.challenge /\ e.payee # Commission =>
           /\ pay'.pc # "earnings"
           /\ pay'.pc = "rewards" =>
                \E i \in 1..pay'.at : e.payee = pay'.paid[i]
      BY <1>1, <2>1, <2>2, <2>3, <2>4 DEF CreditOK, AtWork
    <3>2. QED
      BY <1>1, <2>4, <3>1, CreditStays
  <2>5. CASE e \in {ShareCredit(pay.challenge, u) : u \in Batch}
    <3>1. /\ Ledger!IsCredit(e) /\ e.challenge = pay.challenge
          /\ e.payee \in Batch /\ e.payee # Commission
      BY <2>1, <2>5, BatchCredits
    <3>2. Ledger!IsCredit(e)'
      BY <3>1 DEF Ledger!IsCredit
    <3>3. /\ jobs[pay.challenge] = "sent"
          /\ \A n \in 1..Len(queue) : queue[n] # pay.challenge
      BY <2>1 DEF JobsInOrder, AtWork
    <3>4. PICK i \in (pay.at + 1)..BatchEnd : e.payee = pay.paid[i]
      BY <2>1, <3>1, BatchBounds
    <3>5. i \in 1..pay'.at /\ e.payee = pay'.paid[i]
      BY <2>2, <2>3, <3>4
    <3>6. QED
      BY <2>1, <2>2, <3>1, <3>2, <3>3, <3>5 DEF CreditOK
  <2>6. QED
    BY <2>1, <2>4, <2>5
<1>10. CASE BookPool \/ SettleChallenge
  BY <1>2, <1>10
  DEF BookPool, AnswerLost, SettleChallenge, PayIdle, ledgerVars, ShapeOK, Pay
<1>11. CASE UNCHANGED vars
  BY <1>2, <1>11 DEF vars, ledgerVars
<1>12. QED
  BY <1>3, <1>4, <1>5, <1>6, <1>7, <1>8, <1>9, <1>10, <1>11
  DEF Next, JobStep, PayStep

\* Rows are only added: what was earned stays earned.
LEMMA EarningsKept == PayInv /\ [Next]_vars => EarningsFirst'
<1> SUFFICES ASSUME PayInv, [Next]_vars PROVE EarningsFirst'
  OBVIOUS
<1> USE DEF PayInv
<1>1. ShapeOK'
  BY ShapeKept
\* Nothing is booked, and the payout system is where it was or done with it.
<1>2. ASSUME UNCHANGED <<earnings, credited>>,
             \/ pay' = pay
             \/ pay'.pc \notin {"earnings", "rewards"}
      PROVE  EarningsFirst'
  BY <1>2 DEF EarningsFirst, CreditedIsEarned
<1>3. ASSUME NEW c \in Challenges, BookCommission(c) PROVE EarningsFirst'
  <2>1. /\ UNCHANGED <<earnings, pay>> /\ jobs[c] = "commission"
        /\ credited' \in {credited, credited \cup {CommissionCredit(c)}}
    BY <1>3 DEF BookCommission, UpdateRewards, AddToBalances, ledgerVars, tableVars
  <2>2. CommissionCredit(c).payee = Commission
    BY DEF CommissionCredit
  <2>3. QED
    BY <2>1, <2>2 DEF EarningsFirst, CreditedIsEarned
<1>4. ASSUME NEW c \in Challenges, Finalized(c) \/ SendSuccess(c)
      PROVE  EarningsFirst'
  BY <1>2, <1>4 DEF Finalized, SendSuccess, ledgerVars, tableVars
<1>5. CASE Receive
  <2>1. /\ UNCHANGED <<earnings, credited>> /\ pay'.pc = "earnings" /\ pay'.at = 0
    BY <1>5 DEF Receive, ledgerVars, tableVars
  <2>2. QED
    BY <2>1 DEF EarningsFirst, CreditedIsEarned
<1>6. CASE LookupFails \/ Restart
  BY <1>2, <1>6 DEF LookupFails, Restart, PayIdle, ledgerVars, tableVars
<1>7. CASE NextTable
  <2>1. /\ UNCHANGED <<earnings, credited>> /\ pay'.challenge = pay.challenge
        /\ pay'.paid = pay.paid /\ pay.at = Len(pay.paid)
        /\ \/ pay.pc = "earnings" /\ pay'.pc = "rewards"
           \/ pay'.pc \notin {"earnings", "rewards"}
    BY <1>7 DEF NextTable, After, ledgerVars, tableVars, ShapeOK, Pay
  <2>2. QED
    BY <2>1 DEF EarningsFirst, CreditedIsEarned
<1>8. CASE BookEarnings
  <2>1. /\ pay.pc = "earnings" /\ pay.at < Len(pay.paid) /\ credited' = credited
        /\ earnings' = WithBatch(earnings)
        /\ BatchDone \/ UNCHANGED pay
    BY <1>8 DEF BookEarnings, NextBatch, AnswerLost, ledgerVars
  <2>2. pay.challenge \in Challenges /\ pay.at \in Nat /\ pay.paid \in Seq(Conns)
    BY <2>1 DEF JobsInOrder, AtWork, ShapeOK, Pay
  <2>3. /\ earnings' \in [Challenges -> [Conns -> Nat]]
        /\ \A c \in Challenges, u \in Conns : earnings'[c][u] >= earnings[c][u]
        /\ \A u \in Batch : u \in Conns => earnings'[pay.challenge][u] > 0
    BY <2>1, <2>2 DEF EarningsFirst, WithBatch
  <2>4. /\ pay'.pc = "earnings" /\ pay'.challenge = pay.challenge
        /\ pay'.paid = pay.paid /\ pay'.at \in {pay.at, BatchEnd}
    BY <2>1 DEF BatchDone, ShapeOK, Pay
  <2>5. BatchEnd \in (pay.at + 1)..Len(pay.paid)
    BY <2>1, BatchBounds
  <2>6. ASSUME NEW i \in 1..pay'.at
        PROVE  earnings'[pay'.challenge][pay'.paid[i]] > 0
    <3>1. i \in 1..Len(pay.paid) /\ pay.paid[i] \in Conns
      BY <2>2, <2>4, <2>5
    <3>2. CASE i \in 1..pay.at
      <4>1. earnings[pay.challenge][pay.paid[i]] > 0
        BY <2>1, <3>2 DEF EarningsFirst
      <4>2. QED
        BY <2>2, <2>3, <2>4, <3>1, <4>1 DEF EarningsFirst
    <3>3. CASE i \in (pay.at + 1)..BatchEnd
      <4>1. pay.paid[i] \in Batch
        BY <2>1, <3>3, BatchBounds
      <4>2. QED
        BY <2>3, <2>4, <3>1, <4>1
    <3>4. QED
      BY <2>2, <2>4, <2>5, <3>2, <3>3
  <2>7. CreditedIsEarned'
    <3>1. \A e \in credited : e.payee # Commission =>
            e.challenge \in Challenges /\ e.payee \in Conns
      BY DEF CreditsInOrder, CreditOK, Ledger!IsCredit
    <3>2. QED
      BY <2>1, <2>3, <3>1 DEF EarningsFirst, CreditedIsEarned
  <2>8. QED
    BY <2>3, <2>4, <2>6, <2>7 DEF EarningsFirst
<1>9. CASE BookRewards
  <2>1. /\ NextBatch("rewards") /\ pay.pc = "rewards" /\ pay.at < Len(pay.paid)
        /\ pay' = [pay EXCEPT !.at = BatchEnd] /\ earnings' = earnings
        /\ credited' \in {credited, credited \cup
                                    {ShareCredit(pay.challenge, u) : u \in Batch}}
    BY <1>9 DEF BookRewards, NextBatch, BatchDone, UpdateRewards, AddToBalances,
                ledgerVars, tableVars
  <2>2. /\ pay'.challenge = pay.challenge /\ pay'.pc = "rewards"
        /\ pay'.paid = pay.paid
    BY <2>1 DEF ShapeOK, Pay
  <2>3. BatchEnd \in (pay.at + 1)..Len(pay.paid) /\ pay.at \in Nat
    BY <2>1, BatchBounds DEF ShapeOK, Pay
  <2>4. ASSUME NEW e \in {ShareCredit(pay.challenge, u) : u \in Batch}
        PROVE  earnings[e.challenge][e.payee] > 0
    <3>1. e.challenge = pay.challenge /\ e.payee \in Batch
      BY <2>1, BatchCredits
    <3>2. PICK i \in (pay.at + 1)..BatchEnd : e.payee = pay.paid[i]
      BY <2>1, <3>1, BatchBounds
    <3>3. i \in 1..Len(pay.paid)
      BY <2>3, <3>2
    <3>4. QED
      BY <2>1, <3>1, <3>2, <3>3 DEF EarningsFirst
  <2>5. CreditedIsEarned'
    BY <2>1, <2>4 DEF EarningsFirst, CreditedIsEarned
  <2>6. QED
    BY <2>1, <2>2, <2>5 DEF EarningsFirst
<1>10. CASE BookSubmissions
  <2>1. UNCHANGED <<earnings, credited>> /\ pay'.pc = "submissions"
    BY <1>10 DEF BookSubmissions, NextBatch, BatchDone, AnswerLost, ledgerVars,
                 ShapeOK, Pay
  <2>2. QED
    BY <1>2, <2>1
<1>11. CASE BookPool \/ SettleChallenge
  BY <1>2, <1>11
  DEF BookPool, AnswerLost, SettleChallenge, PayIdle, ledgerVars, ShapeOK, Pay
<1>12. CASE UNCHANGED vars
  BY <1>2, <1>12 DEF vars, ledgerVars, tableVars
<1>13. QED
  BY <1>3, <1>4, <1>5, <1>6, <1>7, <1>8, <1>9, <1>10, <1>11, <1>12
  DEF Next, JobStep, PayStep

LEMMA PayKept == PayInv /\ [Next]_vars => PayInv'
BY ShapeKept, JobsKept, CreditsKept, EarningsKept DEF PayInv

-----------------------------------------------------------------------------
\* Credits that are new for their challenge and payee are a step of the ledger.
LEMMA AddingBooks ==
  ASSUME NEW credits, AddToBalances(credits),
         \A e \in credits : Ledger!IsCredit(e),
         \A e \in credits, d \in credited :
           e.challenge # d.challenge \/ e.payee # d.payee,
         \A e, d \in credits :
           e # d => e.challenge # d.challenge \/ e.payee # d.payee
  PROVE  Ledger!Book
<1>1. credited' = credited \cup credits /\ credited' \ credited = credits
  BY DEF AddToBalances
<1>2. \A e \in credits, d \in credited' :
        e # d => e.challenge # d.challenge \/ e.payee # d.payee
  BY <1>1
<1>3. balance' = [m \in Miners |->
                    balance[m] + Ledger!SumOf({e \in credits : e.miner = m})]
  BY DEF AddToBalances
<1>4. QED
  BY <1>1, <1>2, <1>3 DEF Ledger!Book

LEMMA StepBooks ==
  PayInv /\ [Next]_vars => [Ledger!Book]_<<balance, credited>>
<1> SUFFICES ASSUME PayInv, [Next]_vars
             PROVE  Ledger!Book \/ UNCHANGED <<balance, credited>>
  OBVIOUS
<1>1. ASSUME NEW c \in Challenges, BookCommission(c)
      PROVE  Ledger!Book \/ UNCHANGED <<balance, credited>>
  <2>1. CASE UNCHANGED ledgerVars
    BY <2>1 DEF ledgerVars
  <2>2. CASE AddToBalances({CommissionCredit(c)})
    <3>1. jobs[c] = "commission"
      BY <1>1 DEF BookCommission
    <3>2. QED
      BY <2>2, <3>1, CommissionCredits, AddingBooks
  <2>3. QED
    BY <1>1, <2>1, <2>2 DEF BookCommission, UpdateRewards
<1>2. ASSUME BookRewards PROVE Ledger!Book \/ UNCHANGED <<balance, credited>>
  <2> DEFINE credits == {ShareCredit(pay.challenge, u) : u \in Batch}
  <2>1. CASE UNCHANGED ledgerVars
    BY <2>1 DEF ledgerVars
  <2>2. CASE AddToBalances(credits)
    <3>1. NextBatch("rewards")
      BY <1>2 DEF BookRewards
    <3>2. \A e \in credits :
            /\ Ledger!IsCredit(e)
            /\ e = ShareCredit(pay.challenge, e.payee)
            /\ \A d \in credited : e.challenge # d.challenge \/ e.payee # d.payee
      BY <3>1, BatchCredits
    <3>3. \A e, d \in credits : e # d => e.payee # d.payee
      BY <3>2
    <3>4. QED
      BY <2>2, <3>2, <3>3, AddingBooks
  <2>3. QED
    BY <1>2, <2>1, <2>2 DEF BookRewards, UpdateRewards
<1>3. CASE UNCHANGED ledgerVars
  BY <1>3 DEF ledgerVars
<1>4. QED
  BY <1>1, <1>2, <1>3
  DEF Next, JobStep, Finalized, SendSuccess, PayStep, Receive, LookupFails,
      NextTable, BookEarnings, BookSubmissions, BookPool, SettleChallenge,
      Restart, vars

\* A balance is the sum of its credits, and nothing is credited twice, whatever
\* restarts, lost answers and swallowed errors do to the bookings.
\* (pool_mine_success_system.rs:181-198, pool_submission_system.rs:590-602)
THEOREM BooksRefineLedger == Spec => RefinesLedger
<1>1. Init => PayInv
  BY PayInit
<1>2. Init => Ledger!Init
  BY DEF Init, Ledger!Init
<1>3. QED
  BY <1>1, <1>2, PayKept, StepBooks, PTL DEF Spec, RefinesLedger, Ledger!Spec

\* A share that is in a balance has its row in earnings.
\* (pool_mine_success_system.rs:163-198)
THEOREM CreditsAreEarned == Spec => []CreditedIsEarned
<1>1. Init => PayInv
  BY PayInit
<1>2. PayInv => CreditedIsEarned
  BY DEF PayInv, EarningsFirst
<1>3. QED
  BY <1>1, <1>2, PayKept, PTL DEF Spec

\* Rounding down twice, a share is at most its part of the amount: exactly the
\* part that the hashpower has of the total. (pool_mine_success_system.rs:74-86)
THEOREM PortionIsWithinPart ==
  ASSUME NEW hashpower \in Nat, NEW total \in Nat \ {0}, NEW amount \in Nat
  PROVE  /\ Portion(hashpower, total, amount) \in Nat
         /\ Portion(hashpower, total, amount) * total <= hashpower * amount
<1> DEFINE q == (hashpower * 1000000) \div total
           p == (q * amount) \div 1000000
<1>1. q \in Nat /\ q * total <= hashpower * 1000000
  OBVIOUS
<1>2. q * amount \in Nat
  BY <1>1
<1>3. p \in Nat /\ p * 1000000 <= q * amount
  BY <1>2
<1>4. (p * 1000000) * total <= (q * amount) * total
  BY <1>2, <1>3
<1>5. (q * total) * amount <= (hashpower * 1000000) * amount
  BY <1>1
<1>6. p * total <= hashpower * amount
  BY <1>1, <1>3, <1>4, <1>5
<1>7. QED
  BY <1>3, <1>6 DEF Portion

-----------------------------------------------------------------------------
(* What is credited for a challenge fits what it brought.                   *)

\* A credit is the commission of a mined challenge, or the share of one of the
\* submissions of its table: never an amount computed from another table.
FromTable(e) ==
  LET c == e.challenge IN
    /\ mined[c] \in Success
    /\ \/ e = CommissionCredit(c)
       \/ \E u \in DOMAIN mined[c].table : e = ShareCredit(c, u)

PaidFromTable ==
  AtWork => \A i \in 1..Len(pay.paid) :
              pay.paid[i] \in DOMAIN mined[pay.challenge].table

AmountsInv == PaidFromTable /\ \A e \in credited : FromTable(e)

LEMMA AmountsInit == Init => AmountsInv
BY DEF Init, AmountsInv, PaidFromTable, AtWork, PayIdle

\* What was mined stays as it is, and so do the amounts computed from it.
LEMMA MinedStays ==
  ASSUME PayInv, [Next]_vars, NEW c \in Challenges, mined[c] # None
  PROVE  /\ mined'[c] = mined[c]
         /\ \A u : ShareCredit(c, u)' = ShareCredit(c, u)
         /\ CommissionCredit(c)' = CommissionCredit(c)
<1>1. mined'[c] = mined[c]
  BY DEF PayInv, ShapeOK, Next, JobStep, Finalized, BookCommission, SendSuccess,
     PayStep, Receive, LookupFails, NextTable, BookEarnings, BookRewards,
     BookSubmissions, BookPool, SettleChallenge, Restart, vars
<1>2. QED
  BY <1>1 DEF ShareCredit, CommissionCredit, Share, CommissionOf, TotalHashpower,
     HashpowerOf

LEMMA CreditStaysFromTable ==
  ASSUME PayInv, [Next]_vars, NEW e, e.challenge \in Challenges, FromTable(e)
  PROVE  FromTable(e)'
<1>1. mined[e.challenge] # None
  BY PayoutNoneAssumption DEF FromTable
<1>2. QED
  BY <1>1, MinedStays DEF FromTable

\* What is booked now is of the table as well.
LEMMA NewCredits ==
  ASSUME PayInv, AmountsInv, [Next]_vars, NEW e \in credited' \ credited
  PROVE  FromTable(e) /\ e.challenge \in Challenges
<1> USE DEF AmountsInv
<1>1. ASSUME NEW c \in Challenges, BookCommission(c) PROVE FromTable(e)
  <2>1. e = CommissionCredit(c) /\ jobs[c] = "commission"
    BY <1>1 DEF BookCommission, UpdateRewards, AddToBalances, ledgerVars
  <2>2. mined[c] \in Success
    BY <2>1 DEF PayInv, JobsInOrder, ShapeOK
  <2>3. QED
    BY <2>1, <2>2 DEF FromTable, CommissionCredit
<1>2. ASSUME BookRewards PROVE FromTable(e)
  <2>1. /\ e \in {ShareCredit(pay.challenge, u) : u \in Batch}
        /\ NextBatch("rewards") /\ pay.at < Len(pay.paid) /\ AtWork
    BY <1>2 DEF BookRewards, NextBatch, UpdateRewards, AddToBalances,
                      ledgerVars, AtWork
  <2>2. PICK u \in Batch : e = ShareCredit(pay.challenge, u)
    BY <2>1
  <2>3. PICK i \in (pay.at + 1)..BatchEnd : u = pay.paid[i]
    BY <2>1, BatchBounds DEF PayInv
  <2>4. i \in 1..Len(pay.paid)
    BY <2>1, <2>3, BatchBounds DEF PayInv, ShapeOK, Pay
  <2>5. u \in DOMAIN mined[pay.challenge].table
    BY <2>1, <2>3, <2>4 DEF PaidFromTable
  <2>6. pay.challenge \in Challenges /\ mined[pay.challenge] \in Success
    BY <2>1 DEF PayInv, JobsInOrder, ShapeOK
  <2>7. QED
    BY <2>2, <2>5, <2>6 DEF FromTable, ShareCredit
<1>3. ASSUME UNCHANGED credited PROVE FromTable(e)
  BY <1>3
<1>4. FromTable(e)
  BY <1>1, <1>2, <1>3
  DEF Next, JobStep, Finalized, SendSuccess, PayStep, Receive, LookupFails,
      NextTable, BookEarnings, BookSubmissions, BookPool, SettleChallenge,
      Restart, vars, ledgerVars
<1>5. e.challenge \in Challenges
  <2>1. CreditsInOrder'
    BY PayKept DEF PayInv
  <2>2. QED
    BY <2>1 DEF CreditsInOrder, CreditOK, Ledger!IsCredit
<1>6. QED
  BY <1>4, <1>5

LEMMA AmountsKept == PayInv /\ AmountsInv /\ [Next]_vars => AmountsInv'
<1> SUFFICES ASSUME PayInv, AmountsInv, [Next]_vars PROVE AmountsInv'
  OBVIOUS
<1> USE DEF AmountsInv
<1>1. ASSUME NEW e \in credited PROVE FromTable(e)'
  BY CreditStaysFromTable DEF PayInv, CreditsInOrder, CreditOK, Ledger!IsCredit
<1>2. ASSUME NEW e \in credited' \ credited PROVE FromTable(e)'
  BY NewCredits, CreditStaysFromTable
<1>3. PaidFromTable'
  <2>1. ASSUME AtWork' => /\ AtWork /\ pay'.challenge = pay.challenge
                          /\ pay'.paid = pay.paid
        PROVE  PaidFromTable'
    <3>1. AtWork => /\ pay.challenge \in Challenges
                    /\ mined[pay.challenge] # None
      BY DEF PayInv, JobsInOrder
    <3>2. AtWork => mined'[pay.challenge] = mined[pay.challenge]
      BY <3>1, MinedStays
    <3>3. QED
      BY <2>1, <3>2 DEF PaidFromTable
  <2>2. CASE Receive
    <3>1. mined' = mined /\ queue # <<>>
      BY <2>2 DEF Receive
    <3>2. PICK socks \in SUBSET DOMAIN mined[Head(queue)].table :
          \E s \in Orders(socks) :
            pay' = [pc |-> "earnings", challenge |-> Head(queue), paid |-> s,
                    at |-> 0]
      BY <2>2 DEF Receive
    <3>3. PICK s \in Orders(socks) :
            pay' = [pc |-> "earnings", challenge |-> Head(queue), paid |-> s,
                    at |-> 0]
      BY <3>2
    <3>4. /\ queue[1] \in Challenges /\ Head(queue) = queue[1]
          /\ mined[queue[1]] \in Success
      <4>1. queue[1] \in Challenges /\ Head(queue) = queue[1] /\ 1 \in 1..Len(queue)
        BY <3>1 DEF PayInv, ShapeOK
      <4>2. jobs[queue[1]] = "sent"
        BY <4>1 DEF PayInv, JobsInOrder
      <4>3. QED
        BY <4>1, <4>2 DEF PayInv, JobsInOrder, ShapeOK
    <3>5. socks \in SUBSET Conns
      BY <3>2, <3>4, PayoutConnAssumption DEF Success
    <3>6. Cardinality(socks) \in Nat
      BY <3>5, PayoutConnAssumption, FS_Subset, FS_CardinalityType
    <3>7. \A i \in 1..Len(s) : s[i] \in socks
      <4>1. s \in [1..Cardinality(socks) -> socks]
        BY DEF Orders
      <4>2. QED
        BY <3>6, <4>1
    <3>8. QED
      BY <3>1, <3>2, <3>3, <3>7 DEF PaidFromTable
  <2>3. CASE Restart \/ LookupFails \/ SettleChallenge
    BY <2>1, <2>3 DEF Restart, LookupFails, SettleChallenge, AtWork, PayIdle
  <2>4. CASE BookEarnings \/ BookRewards \/ BookSubmissions
    <3>1. AtWork /\ (BatchDone \/ UNCHANGED pay)
      BY <2>4 DEF BookEarnings, BookRewards, BookSubmissions, AnswerLost,
                  NextBatch, AtWork
    <3>2. QED
      BY <2>1, <3>1 DEF BatchDone, PayInv, ShapeOK, Pay
  <2>5. CASE BookPool \/ NextTable
    <3>1. AtWork
      BY <2>5 DEF BookPool, NextTable, AtWork
    <3>2. pay'.challenge = pay.challenge /\ pay'.paid = pay.paid
      BY <2>5 DEF BookPool, NextTable, AnswerLost, PayInv, ShapeOK, Pay
    <3>3. QED
      BY <2>1, <3>1, <3>2
  <2>6. CASE UNCHANGED pay
    BY <2>1, <2>6 DEF AtWork
  <2>7. QED
    BY <2>2, <2>3, <2>4, <2>5, <2>6
    DEF Next, JobStep, Finalized, BookCommission, SendSuccess, PayStep, vars
<1>4. QED
  BY <1>1, <1>2, <1>3

-----------------------------------------------------------------------------
(* The amounts.                                                             *)

LEMMA LedgerSum ==
  ASSUME NEW credits
  PROVE  Ledger!SumOf(credits) =
           SumFunctionOnSet([e \in credits |-> e.amount], credits)
BY DEF Ledger!SumOf, Ledger!SumFunction, Ledger!SumFunctionOnSet,
       Ledger!FoldFunctionOnSet, Ledger!MapThenFoldSet, SumFunctionOnSet,
       FoldFunctionOnSet, MapThenFoldSet

LEMMA ProductCancels ==
  ASSUME NEW i \in Nat, NEW k \in Nat, NEW n \in Nat \ {0}, i * n <= n * k
  PROVE  i <= k
<1> SUFFICES ASSUME k + 1 <= i PROVE FALSE
  OBVIOUS
<1>1. (k + 1) * n <= i * n
  OBVIOUS
<1>2. (k + 1) * n = n * k + n
  OBVIOUS
<1>3. n * k \in Nat /\ n > 0 /\ i * n \in Nat
  OBVIOUS
<1>4. QED
  BY <1>1, <1>2, <1>3

\* The commission and the shares of all connections of a table fit the reward.
\* (pool_mine_success_system.rs:74-86, pool_submission_system.rs:584)
LEMMA SharesFit ==
  ASSUME NEW c \in Challenges, mined[c] \in Success
  PROVE  LET D == DOMAIN mined[c].table
             shares == [u \in D |-> Share(c, u)] IN
         /\ IsFiniteSet(D) /\ D \subseteq Conns
         /\ CommissionOf(c) \in Nat /\ mined[c].rewards \in Nat
         /\ \A u \in D : Share(c, u) \in Nat
         /\ SumFunctionOnSet(shares, D) \in Nat
         /\ CommissionOf(c) + SumFunctionOnSet(shares, D) <= mined[c].rewards
<1> DEFINE D == DOMAIN mined[c].table
           shares == [u \in D |-> Share(c, u)]
           total == TotalHashpower(c)
           amount == mined[c].rewards - CommissionOf(c)
<1>1. /\ mined[c].rewards \in Nat /\ mined[c].table \in Tables
      /\ \A u \in D : mined[c].table[u] \in Nat \ {0}
  BY PayoutAmountAssumption DEF Success
<1>2. IsFiniteSet(D) /\ D \subseteq Conns /\ D # {}
  BY <1>1, PayoutConnAssumption, FS_Subset
<1>3. CommissionOf(c) \in Nat /\ CommissionOf(c) <= mined[c].rewards
  BY <1>1 DEF CommissionOf
<1>4. amount \in Nat
  BY <1>1, <1>3
<1>5. total = SumFunctionOnSet(mined[c].table, D)
  BY DEF TotalHashpower, SumFunction
<1>6. total \in Nat \ {0}
  <2>1. PICK v \in D : TRUE
    BY <1>2
  <2>2. IsFiniteSet(D \ {v}) /\ \A u \in D : mined[c].table[u] \in Int
    BY <1>1, <1>2, FS_Subset
  <2>3. SumFunctionOnSet(mined[c].table, D \ {v}) \in Nat
    BY <1>1, <2>2, SumNat
  <2>4. total = mined[c].table[v] + SumFunctionOnSet(mined[c].table, D \ {v})
    BY <1>2, <1>5, <2>2, SumRemove
  <2> HIDE DEF total
  <2>5. QED
    BY <1>1, <2>3, <2>4
<1>7. ASSUME NEW u \in D
      PROVE  /\ Share(c, u) \in Nat
             /\ Share(c, u) * total <= mined[c].table[u] * amount
  <2>1. Share(c, u) = Portion(mined[c].table[u], total, amount)
    BY DEF Share, HashpowerOf
  <2>2. mined[c].table[u] \in Nat
    BY <1>1
  <2> HIDE DEF total, amount, D
  <2>3. QED
    BY <1>4, <1>6, <2>1, <2>2, PortionIsWithinPart
<1>8. SumFunctionOnSet(shares, D) * total <= total * amount
  <2>1. \A u \in D : /\ shares[u] \in Nat /\ mined[c].table[u] \in Nat
                     /\ shares[u] * total <= mined[c].table[u] * amount
    BY <1>1, <1>7
  <2> HIDE DEF total, amount, shares
  <2>2. QED
    BY <1>2, <1>4, <1>5, <1>6, <2>1, SumWithinPart
<1>9. SumFunctionOnSet(shares, D) \in Nat
  <2>1. \A u \in D : shares[u] \in Nat
    BY <1>7
  <2> HIDE DEF shares
  <2>2. QED
    BY <1>2, <2>1, SumNat
<1>10. SumFunctionOnSet(shares, D) <= amount
  <2> HIDE DEF total, amount, shares
  <2>1. QED
    BY <1>4, <1>6, <1>8, <1>9, ProductCancels
<1>11. QED
  BY <1>1, <1>2, <1>3, <1>7, <1>9, <1>10

\* All that a mined challenge can credit.
AllCredits(c) ==
  {CommissionCredit(c)} \cup {ShareCredit(c, u) : u \in DOMAIN mined[c].table}

LEMMA AllCreditsFit ==
  ASSUME NEW c \in Challenges, mined[c] \in Success
  PROVE  /\ IsFiniteSet(AllCredits(c))
         /\ \A e \in AllCredits(c) : e.amount \in Nat
         /\ Ledger!SumOf(AllCredits(c)) <= mined[c].rewards
<1> DEFINE D == DOMAIN mined[c].table
           b == [u \in D |-> ShareCredit(c, u)]
           image == {b[u] : u \in D}
           all == AllCredits(c)
           f == [e \in all |-> e.amount]
           shares == [u \in D |-> Share(c, u)]
           k == CommissionCredit(c)
<1>1. /\ IsFiniteSet(D) /\ D \subseteq Conns
      /\ CommissionOf(c) \in Nat /\ mined[c].rewards \in Nat
      /\ \A u \in D : Share(c, u) \in Nat
      /\ SumFunctionOnSet(shares, D) \in Nat
      /\ CommissionOf(c) + SumFunctionOnSet(shares, D) <= mined[c].rewards
  BY SharesFit
<1>2. all = image \cup {k}
  BY DEF AllCredits
<1>3. IsFiniteSet(image)
  BY <1>1, FiniteImage
<1>4. IsFiniteSet(all)
  BY <1>2, <1>3, FS_AddElement
<1>5. /\ k.amount = CommissionOf(c) /\ k.payee = Commission
      /\ \A u \in D : b[u].amount = Share(c, u) /\ b[u].payee = u /\ b[u] \in all
  BY <1>2 DEF CommissionCredit, ShareCredit
<1> HIDE DEF D, b, k
<1>6. \A e \in all : e.amount \in Nat
  <2>1. \A e \in all : e = k \/ \E u \in D : e = b[u]
    BY <1>2
  <2>2. QED
    BY <1>1, <1>5, <2>1
<1>7. k \notin image
  BY <1>1, <1>5, PayoutConnAssumption
<1>8. /\ \A e \in all : f[e] \in Int
      /\ f[k] = CommissionOf(c)
      /\ \A u \in D : f[b[u]] = Share(c, u) /\ f[b[u]] \in Int
  <2>1. k \in all /\ \A u \in D : b[u] \in all
    BY <1>2
  <2> HIDE DEF all
  <2>2. QED
    BY <1>1, <1>5, <1>6, <2>1
<1>9. SumFunctionOnSet(f, all) = CommissionOf(c) + SumFunctionOnSet(f, image)
  <2>1. all \ {k} = image /\ k \in all
    BY <1>2, <1>7
  <2> HIDE DEF f, k, all, image
  <2>2. QED
    BY <1>4, <1>8, <2>1, SumRemove
<1>10. SumFunctionOnSet(f, image) = SumFunctionOnSet(shares, D)
  <2>1. \A u, v \in D : b[u] = b[v] => u = v
    BY <1>5
  <2>2. [u \in D |-> f[b[u]]] = shares
    BY <1>8
  <2>3. SumFunctionOnSet(f, image) = SumFunctionOnSet([u \in D |-> f[b[u]]], D)
    <3> HIDE DEF f, b, D
    <3>1. QED
      BY <1>1, <1>8, <2>1, SumImage
  <2>4. QED
    BY <2>2, <2>3
<1>11. Ledger!SumOf(all) = SumFunctionOnSet(f, all)
  BY LedgerSum
<1>12. QED
  BY <1>1, <1>4, <1>6, <1>9, <1>10, <1>11

LEMMA SumOfSubset ==
  ASSUME NEW all, IsFiniteSet(all), \A e \in all : e.amount \in Nat,
         NEW part \in SUBSET all
  PROVE  /\ Ledger!SumOf(part) \in Nat
         /\ Ledger!SumOf(part) <= Ledger!SumOf(all)
<1> DEFINE f == [e \in all |-> e.amount]
           g == [e \in part |-> e.amount]
<1>1. Ledger!SumOf(all) = SumFunctionOnSet(f, all)
  BY LedgerSum
<1>2. Ledger!SumOf(part) = SumFunctionOnSet(g, part)
  BY LedgerSum
<1>3. /\ \A e \in all : f[e] \in Nat
      /\ \A e \in part : g[e] \in Nat /\ f[e] = g[e]
  OBVIOUS
<1>4. IsFiniteSet(part)
  BY FS_Subset
<1> HIDE DEF f, g
<1>5. SumFunctionOnSet(f, part) <= SumFunctionOnSet(f, all)
  BY <1>3, SumSubset
<1>6. SumFunctionOnSet(f, part) = SumFunctionOnSet(g, part)
  BY <1>3, <1>4, SumSame
<1>7. SumFunctionOnSet(g, part) \in Nat
  BY <1>3, <1>4, SumNat
<1>8. QED
  BY <1>1, <1>2, <1>5, <1>6, <1>7

\* What is credited for a challenge, to the miners and as commission, is at most
\* what it brought: whatever its table, and whichever of its connections are
\* paid. (pool_mine_success_system.rs:62-100, pool_submission_system.rs:584-602)
THEOREM CreditsFitReward == Spec => []FitsReward
<1>1. ASSUME PayInv, AmountsInv PROVE FitsReward
  <2> SUFFICES ASSUME NEW c \in Challenges, mined[c] # None
               PROVE  Ledger!SumOf(CreditsOf(c)) <= mined[c].rewards
    BY DEF FitsReward
  <2>1. mined[c] \in Success
    BY <1>1 DEF PayInv, ShapeOK
  <2>2. CreditsOf(c) \in SUBSET AllCredits(c)
    BY <1>1 DEF AmountsInv, FromTable, CreditsOf, AllCredits
  <2>3. Ledger!SumOf(CreditsOf(c)) <= Ledger!SumOf(AllCredits(c))
    BY <2>1, <2>2, AllCreditsFit, SumOfSubset
  <2>4. /\ Ledger!SumOf(CreditsOf(c)) \in Nat
        /\ Ledger!SumOf(AllCredits(c)) \in Nat
    BY <2>1, <2>2, AllCreditsFit, SumOfSubset
  <2>5. mined[c].rewards \in Nat
    BY <2>1, SharesFit
  <2>6. Ledger!SumOf(AllCredits(c)) <= mined[c].rewards
    BY <2>1, AllCreditsFit
  <2>7. QED
    BY <2>3, <2>4, <2>5, <2>6
<1>2. QED
  BY <1>1, PayInit, PayKept, AmountsInit, AmountsKept, PTL DEF Spec

-----------------------------------------------------------------------------
(* The balances, and the types.                                             *)

CreditsTo(m) == {e \in credited : e.miner = m}
BalanceIsCredits ==
  balance = [m \in Miners |-> Ledger!SumOf(CreditsTo(m))]

BooksInv ==
  /\ IsFiniteSet(credited)
  /\ BalanceIsCredits
  /\ submissions \in [Challenges -> [Conns -> Nat]]
  /\ totals \in [Challenges -> Nat]
  /\ settled \in [Challenges -> Row \cup {None}]
  /\ lost \in 0..MaxLost

LEMMA BooksInit == Init => BooksInv
<1> SUFFICES ASSUME Init PROVE BooksInv
  OBVIOUS
<1>1. IsFiniteSet(credited) /\ \A m \in Miners : CreditsTo(m) = {}
  BY FS_EmptySet DEF Init, CreditsTo
<1>2. Ledger!SumOf({}) = 0
  BY LedgerSum, SumEmpty
<1>3. BalanceIsCredits
  BY <1>1, <1>2 DEF Init, BalanceIsCredits
<1>4. QED
  BY <1>1, <1>3, PayoutBoundAssumption DEF Init, BooksInv

LEMMA CreditAmount ==
  ASSUME NEW e, e.challenge \in Challenges, FromTable(e) PROVE e.amount \in Nat
<1>1. e \in AllCredits(e.challenge) /\ mined[e.challenge] \in Success
  BY DEF FromTable, AllCredits
<1>2. QED
  BY <1>1, AllCreditsFit

\* What is added to the credits is added to the balances.
LEMMA AddingSums ==
  ASSUME IsFiniteSet(credited), BalanceIsCredits,
         NEW credits, IsFiniteSet(credits), credited \cap credits = {},
         \A e \in credited \cup credits : e.amount \in Nat,
         AddToBalances(credits)
  PROVE  IsFiniteSet(credited') /\ BalanceIsCredits'
<1>1. credited' = credited \cup credits
  BY DEF AddToBalances
<1>2. ASSUME NEW m \in Miners
      PROVE  balance'[m] = Ledger!SumOf({e \in credited' : e.miner = m})
  <2> DEFINE A == {e \in credited : e.miner = m}
             B == {e \in credits : e.miner = m}
             f == [e \in A \cup B |-> e.amount]
  <2>1. balance'[m] = Ledger!SumOf(A) + Ledger!SumOf(B)
    BY DEF AddToBalances, BalanceIsCredits, CreditsTo
  <2>2. {e \in credited' : e.miner = m} = A \cup B
    BY <1>1
  <2>3. IsFiniteSet(A) /\ IsFiniteSet(B) /\ A \cap B = {}
    BY FS_Subset
  <2>4. \A e \in A \cup B : f[e] = e.amount /\ f[e] \in Int
    OBVIOUS
  <2> HIDE DEF A, B, f
  <2>5. Ledger!SumOf(A) = SumFunctionOnSet(f, A)
    <3>1. \A e \in A : [x \in A |-> x.amount][e] = f[e]
      BY <2>4
    <3>2. QED
      BY <2>3, <3>1, LedgerSum, SumSame
  <2>6. Ledger!SumOf(B) = SumFunctionOnSet(f, B)
    <3>1. \A e \in B : [x \in B |-> x.amount][e] = f[e]
      BY <2>4
    <3>2. QED
      BY <2>3, <3>1, LedgerSum, SumSame
  <2>7. Ledger!SumOf(A \cup B) = SumFunctionOnSet(f, A \cup B)
    BY LedgerSum DEF f
  <2>8. SumFunctionOnSet(f, A \cup B) = SumFunctionOnSet(f, A) + SumFunctionOnSet(f, B)
    BY <2>3, <2>4, SumDisjoint
  <2>9. balance'[m] = Ledger!SumOf(A \cup B)
    BY <2>1, <2>5, <2>6, <2>7, <2>8
  <2>10. QED
    BY <2>2, <2>9
<1>3. BalanceIsCredits'
  BY <1>2 DEF BalanceIsCredits, CreditsTo, AddToBalances
<1>4. QED
  BY <1>1, <1>3, FS_Union

LEMMA BooksKept ==
  PayInv /\ AmountsInv /\ BooksInv /\ [Next]_vars => BooksInv'
<1> SUFFICES ASSUME PayInv, AmountsInv, BooksInv, [Next]_vars PROVE BooksInv'
  OBVIOUS
<1>1. \A e \in credited' : e.amount \in Nat
  <2>1. \A e \in credited : FromTable(e) /\ e.challenge \in Challenges
    BY DEF PayInv, CreditsInOrder, CreditOK, Ledger!IsCredit, AmountsInv
  <2>2. \A e \in credited' : FromTable(e) /\ e.challenge \in Challenges
    BY <2>1, NewCredits
  <2>3. QED
    BY <2>2, CreditAmount
<1>2. ASSUME NEW credits, IsFiniteSet(credits), credited \cap credits = {},
             AddToBalances(credits)
      PROVE  IsFiniteSet(credited') /\ BalanceIsCredits'
  <2>1. credited' = credited \cup credits
    BY <1>2 DEF AddToBalances
  <2>2. QED
    BY <1>1, <1>2, <2>1, AddingSums DEF BooksInv
<1>3. ASSUME UNCHANGED ledgerVars
      PROVE  IsFiniteSet(credited') /\ BalanceIsCredits'
  BY <1>3 DEF BooksInv, BalanceIsCredits, CreditsTo, ledgerVars
<1>4. ASSUME NEW c \in Challenges, BookCommission(c)
      PROVE  IsFiniteSet(credited') /\ BalanceIsCredits'
  <2>1. jobs[c] = "commission" /\ UpdateRewards({CommissionCredit(c)})
    BY <1>4 DEF BookCommission
  <2>2. CommissionCredit(c) \notin credited
    BY <2>1, CommissionCredits
  <2>3. IsFiniteSet({CommissionCredit(c)})
    BY FS_Singleton
  <2>4. QED
    BY <1>2, <1>3, <2>1, <2>2, <2>3 DEF UpdateRewards
<1>5. ASSUME BookRewards PROVE IsFiniteSet(credited') /\ BalanceIsCredits'
  <2> DEFINE credits == {ShareCredit(pay.challenge, u) : u \in Batch}
             b == [u \in Batch |-> ShareCredit(pay.challenge, u)]
  <2>1. NextBatch("rewards") /\ UpdateRewards(credits) /\ pay.at < Len(pay.paid)
    BY <1>5 DEF BookRewards, NextBatch
  <2>2. \A e \in credits : e \notin credited
    BY <2>1, BatchCredits
  <2>3. IsFiniteSet(Batch)
    BY <2>1, BatchBounds, PayoutConnAssumption, FS_Subset DEF PayInv
  <2>4. credits = {b[u] : u \in Batch}
    OBVIOUS
  <2>5. IsFiniteSet({b[u] : u \in Batch})
    BY <2>3, FiniteImage
  <2>6. QED
    BY <1>2, <1>3, <2>1, <2>2, <2>4, <2>5 DEF UpdateRewards
<1>6. IsFiniteSet(credited') /\ BalanceIsCredits'
  BY <1>3, <1>4, <1>5
  DEF Next, JobStep, Finalized, SendSuccess, PayStep, Receive, LookupFails,
      NextTable, BookEarnings, BookSubmissions, BookPool, SettleChallenge,
      Restart, vars
<1>7. submissions' \in [Challenges -> [Conns -> Nat]]
  <2>1. CASE BookSubmissions
    <3>1. pay.challenge \in Challenges /\ submissions' = WithBatch(submissions)
      BY <2>1 DEF BookSubmissions, NextBatch, PayInv, JobsInOrder, AtWork
    <3>2. submissions[pay.challenge] \in [Conns -> Nat]
      BY <3>1 DEF BooksInv
    <3>3. [u \in Conns |-> IF u \in Batch THEN submissions[pay.challenge][u] + 1
                          ELSE submissions[pay.challenge][u]] \in [Conns -> Nat]
      BY <3>2
    <3>4. QED
      BY <3>1, <3>3 DEF WithBatch, BooksInv
  <2>2. CASE UNCHANGED submissions
    BY <2>2 DEF BooksInv
  <2>3. QED
    BY <2>1, <2>2
    DEF Next, JobStep, Finalized, BookCommission, SendSuccess, PayStep, Receive,
        LookupFails, NextTable, BookEarnings, BookRewards, BookPool,
        SettleChallenge, Restart, vars, tableVars
<1>8. totals' \in [Challenges -> Nat]
  <2>1. CASE BookPool
    <3>1. pay.challenge \in Challenges
      BY <2>1 DEF BookPool, PayInv, JobsInOrder, AtWork
    <3>2. QED
      BY <2>1, <3>1 DEF BookPool, BooksInv
  <2>2. CASE UNCHANGED totals
    BY <2>2 DEF BooksInv
  <2>3. QED
    BY <2>1, <2>2
    DEF Next, JobStep, Finalized, BookCommission, SendSuccess, PayStep, Receive,
        LookupFails, NextTable, BookEarnings, BookRewards, BookSubmissions,
        SettleChallenge, Restart, vars, tableVars
<1>9. settled' \in [Challenges -> Row \cup {None}]
  <2>1. CASE SettleChallenge
    <3>1. pay.challenge \in Challenges /\ mined[pay.challenge] \in Success
      BY <2>1 DEF SettleChallenge, PayInv, JobsInOrder, AtWork, ShapeOK
    <3>2. \A u \in Strongest(pay.challenge) :
            [challenge |-> pay.challenge, conn |-> u] \in Row
      BY <3>1, PayoutConnAssumption DEF Strongest, Row, Success
    <3>3. \A r \in OlderRows(pay.challenge) : r \in Row
      BY DEF OlderRows
    <3>4. \/ UNCHANGED settled
          \/ \E r \in Row : settled' = [settled EXCEPT ![pay.challenge] = r]
      BY <2>1, <3>2, <3>3 DEF SettleChallenge
    <3>5. QED
      BY <3>4 DEF BooksInv
  <2>2. CASE UNCHANGED settled
    BY <2>2 DEF BooksInv
  <2>3. QED
    BY <2>1, <2>2
    DEF Next, JobStep, Finalized, BookCommission, SendSuccess, PayStep, Receive,
        LookupFails, NextTable, BookEarnings, BookRewards, BookSubmissions,
        BookPool, Restart, vars, tableVars
<1>10. lost' \in 0..MaxLost
  <2>1. CASE AnswerLost
    BY <2>1, PayoutBoundAssumption DEF AnswerLost, BooksInv
  <2>2. CASE UNCHANGED lost
    BY <2>2 DEF BooksInv
  <2>3. QED
    BY <2>1, <2>2
    DEF Next, JobStep, Finalized, BookCommission, SendSuccess, PayStep, Receive,
        LookupFails, NextTable, BookEarnings, BookRewards, BookSubmissions,
        BookPool, SettleChallenge, Restart, vars
<1>11. QED
  BY <1>6, <1>7, <1>8, <1>9, <1>10 DEF BooksInv

AllInv == PayInv /\ AmountsInv /\ BooksInv

LEMMA PayoutAllInv == Spec => []AllInv
<1>1. Init => AllInv
  BY PayInit, AmountsInit, BooksInit DEF AllInv
<1>2. AllInv /\ [Next]_vars => AllInv'
  BY PayKept, AmountsKept, BooksKept DEF AllInv
<1>3. QED
  BY <1>1, <1>2, PTL DEF Spec

LEMMA CreditsAreCredits ==
  ASSUME AllInv
  PROVE  \A e \in credited : /\ e.challenge \in Challenges /\ e.miner \in Miners
                             /\ e.amount \in Nat
BY CreditAmount
DEF AllInv, PayInv, AmountsInv, CreditsInOrder, CreditOK, Ledger!IsCredit

\* The tables and the memory hold what they are declared to hold; the balances
\* are numbers, whatever was added to them.
THEOREM PayoutTypeCorrect == Spec => []PayoutTypeOK
<1>1. ASSUME AllInv PROVE PayoutTypeOK
  <2>1. ASSUME NEW m \in Miners PROVE Ledger!SumOf(CreditsTo(m)) \in Nat
    <3>1. IsFiniteSet(credited) /\ \A e \in credited : e.amount \in Nat
      BY <1>1, CreditsAreCredits DEF AllInv, BooksInv
    <3>2. CreditsTo(m) \in SUBSET credited
      BY DEF CreditsTo
    <3>3. QED
      BY <3>1, <3>2, SumOfSubset
  <2>2. balance \in [Miners -> Nat]
    BY <1>1, <2>1 DEF AllInv, BooksInv, BalanceIsCredits
  <2>3. QED
    BY <1>1, <2>2 DEF AllInv, BooksInv, PayInv, ShapeOK, JobsInOrder, AtWork,
       EarningsFirst, PayoutTypeOK
<1>2. QED
  BY <1>1, PayoutAllInv, PTL

\* What the pool owes its miners is at most what the mined challenges brought:
\* the credits, summed by miner, are the balances, and summed by challenge they
\* fit the rewards.
\* (pool_mine_success_system.rs:181-198, pool_submission_system.rs:590-602)
THEOREM OwedWasBrought == Spec => []OwedIsBrought
<1>1. ASSUME AllInv, FitsReward PROVE OwedIsBrought
  <2> DEFINE f == [e \in credited |-> e.amount]
             miner == [e \in credited |-> e.miner]
             chall == [e \in credited |-> e.challenge]
             ByMiner == [m \in Miners |-> SumFunctionOnSet(f, {e \in credited : miner[e] = m})]
             ByChall == [c \in Challenges |->
                           SumFunctionOnSet(f, {e \in credited : chall[e] = c})]
  <2>1. /\ IsFiniteSet(credited)
        /\ \A e \in credited : /\ f[e] \in Nat /\ f[e] = e.amount
                               /\ miner[e] = e.miner /\ chall[e] = e.challenge
                               /\ chall[e] \in Challenges
                               /\ miner[e] \in Miners
    BY <1>1, CreditsAreCredits DEF AllInv, BooksInv
  <2>2. IsFiniteSet(Miners)
    BY PayoutConnAssumption
  <2>3. IsFiniteSet(Challenges)
    BY FS_Interval, PayoutBoundAssumption DEF Challenges
  <2>4. ASSUME NEW part \in SUBSET credited
        PROVE  Ledger!SumOf(part) = SumFunctionOnSet(f, part)
    <3>1. IsFiniteSet(part) /\ \A e \in part : [x \in part |-> x.amount][e] = f[e]
      BY <2>1, FS_Subset
    <3>2. QED
      BY <3>1, LedgerSum, SumSame
  <2>5. \A m \in Miners : balance[m] = ByMiner[m]
    <3>1. ASSUME NEW m \in Miners PROVE balance[m] = ByMiner[m]
      <4>1. {e \in credited : miner[e] = m} = CreditsTo(m)
        BY <2>1 DEF CreditsTo
      <4>2. balance[m] = Ledger!SumOf(CreditsTo(m)) /\ CreditsTo(m) \in SUBSET credited
        BY <1>1 DEF AllInv, BooksInv, BalanceIsCredits, CreditsTo
      <4>3. QED
        BY <2>4, <4>1, <4>2
    <3>2. QED
      BY <3>1
  <2>6. SumFunctionOnSet(f, credited) = SumFunctionOnSet(ByMiner, Miners)
    <3>1. \A e \in credited : f[e] \in Int /\ miner[e] \in Miners
      BY <2>1
    <3> HIDE DEF f, miner
    <3>2. QED
      BY <2>1, <2>2, <3>1, SumByKey
  <2>7. SumFunctionOnSet(f, credited) = SumFunctionOnSet(ByChall, Challenges)
    <3>1. \A e \in credited : f[e] \in Int /\ chall[e] \in Challenges
      BY <2>1
    <3> HIDE DEF f, chall
    <3>2. QED
      BY <2>1, <2>3, <3>1, SumByKey
  <2>8. ASSUME NEW c \in Challenges
        PROVE  ByChall[c] \in Nat /\ Brought[c] \in Nat /\ ByChall[c] <= Brought[c]
    <3> DEFINE part == {e \in credited : chall[e] = c}
    <3>1. part \in SUBSET CreditsOf(c) /\ CreditsOf(c) \in SUBSET credited
      BY <2>1 DEF CreditsOf
    <3>2. IsFiniteSet(CreditsOf(c)) /\ \A e \in CreditsOf(c) : e.amount \in Nat
      BY <2>1, <3>1, FS_Subset
    <3>3. ByChall[c] = Ledger!SumOf(part)
      BY <2>4, <3>1
    <3> HIDE DEF part
    <3>4. /\ Ledger!SumOf(part) \in Nat /\ Ledger!SumOf(CreditsOf(c)) \in Nat
          /\ Ledger!SumOf(part) <= Ledger!SumOf(CreditsOf(c))
      BY <3>1, <3>2, SumOfSubset
    <3>5. CASE mined[c] = None
      <4>1. CreditsOf(c) = {}
        BY <1>1, <3>5, PayoutNoneAssumption
        DEF AllInv, AmountsInv, FromTable, CreditsOf
      <4>2. Ledger!SumOf(CreditsOf(c)) = 0
        BY <4>1, LedgerSum, SumEmpty
      <4>3. QED
        BY <3>3, <3>4, <3>5, <4>2 DEF Brought
    <3>6. CASE mined[c] # None
      <4>1. mined[c] \in Success
        BY <1>1, <3>6 DEF AllInv, PayInv, ShapeOK
      <4>2. Brought[c] = mined[c].rewards /\ mined[c].rewards \in Nat
        BY <3>6, <4>1, SharesFit DEF Brought
      <4>3. Ledger!SumOf(CreditsOf(c)) <= mined[c].rewards
        BY <1>1, <3>6 DEF FitsReward
      <4>4. QED
        BY <3>3, <3>4, <4>2, <4>3
    <3>7. QED
      BY <3>5, <3>6
  <2>9. SumFunctionOnSet(ByChall, Challenges) <= SumFunctionOnSet(Brought, Challenges)
    <3> HIDE DEF ByChall
    <3>1. QED
      BY <2>3, <2>8, SumMonotone
  <2>10. SumFunctionOnSet(balance, Miners) = SumFunctionOnSet(ByMiner, Miners)
    <3> HIDE DEF ByMiner
    <3>1. QED
      BY <2>2, <2>5, SumSame
  <2>11. SumFunction(Brought) = SumFunctionOnSet(Brought, Challenges)
    BY DEF SumFunction, Brought
  <2>12. SumFunction(balance) = SumFunctionOnSet(balance, Miners)
    BY <1>1 DEF SumFunction, AllInv, BooksInv, BalanceIsCredits
  <2>13. QED
    BY <2>6, <2>7, <2>9, <2>10, <2>11, <2>12 DEF OwedIsBrought
<1>2. QED
  BY <1>1, PayoutAllInv, CreditsFitReward, PTL

=============================================================================
