------------------------------- MODULE Payout -------------------------------
(***************************************************************************)
(* systems/pool_mine_success_system.rs, and the end of the task of         *)
(* systems/pool_submission_system.rs that announces a mined challenge: how *)
(* a reward becomes balances.  The task books the commission and sends the *)
(* success; the payout system computes the shares and books them, one      *)
(* table after the other, in batches, with no transaction around them.     *)
(*                                                                         *)
(* Challenges are numbered in the order in which the pool mines them, each *)
(* announced at most once (Settlement).  A connection is its uuid; which of*)
(* them are open when a success is received is left open (Connections).  A *)
(* call that fails without effect and is repeated is no step; one whose    *)
(* answer is lost after its effect is a step without progress.  A row of   *)
(* earnings or submissions is its challenge and connection, and the tables *)
(* count equal rows.                                                       *)
(***************************************************************************)
EXTENDS Naturals, Sequences, FiniteSets, Functions

CONSTANTS
  Miners,           \* the miners that have signed up
  Conns,            \* the connections
  MinerOf,          \* the miner of a connection
  LongNames,        \* the connections whose worker_name exceeds its column
  CommissionsMiner, \* app_config.commissions_miner_id
  None,             \* Rust's Option::None
  Rewards,          \* what a mined challenge can bring
  Tables,           \* submissions of a challenge, by connection their real_hashpower
  MaxHashpower,     \* MAX_CALCULATED_HASHPOWER
  BatchSize,        \* batch_size
  MaxChallenge,     \* bound: challenges mined
  MaxLost,          \* bound: answers of the database that are lost
  Faults            \* calls that may fail: "update", "lookup"

VARIABLES
  mined,        \* by challenge, what its transaction was mined from and brought
  jobs,         \* by challenge, the task that announces it
  queue,        \* the channel of mine successes
  pay,          \* pool_mine_success_system
  balance,      \* rewards.balance, by miner
  earnings,     \* by challenge and connection, the rows in earnings
  submissions,  \* by challenge and connection, the rows in submissions
  totals,       \* by challenge, how often it was added to pools.total_rewards
  settled,      \* by challenge, the row that challenges.submission_id names
  credited,     \* history: the credits booked to balances
  lost          \* history: the answers lost

Challenges == 1..MaxChallenge
Commission == "commission"

\* What a mined challenge brought, and what it was mined from.
Success == [rewards : Rewards, table : Tables]

ASSUME PayoutNoneAssumption == None \notin Nat \cup Success
ASSUME PayoutConnAssumption ==
  /\ IsFiniteSet(Conns) /\ IsFiniteSet(Miners)
  /\ Commission \notin Conns
  /\ MinerOf \in [Conns -> Miners]
  /\ LongNames \subseteq Conns
  /\ CommissionsMiner \in Miners
  /\ \A t \in Tables : DOMAIN t \in (SUBSET Conns) \ {{}}
ASSUME PayoutAmountAssumption ==
  /\ Rewards \subseteq Nat
  /\ \A t \in Tables : t \in [DOMAIN t -> Nat \ {0}]
  /\ MaxHashpower \in Nat
ASSUME PayoutBoundAssumption ==
  /\ BatchSize \in Nat \ {0}
  /\ MaxChallenge \in Nat /\ MaxLost \in Nat
  /\ Faults \subseteq {"update", "lookup"}

tableVars == <<earnings, submissions, totals, settled>>
ledgerVars == <<balance, credited>>
vars == <<mined, jobs, queue, pay, tableVars, ledgerVars, lost>>

Row == [challenge : Challenges, conn : Conns]
PayPc == {"recv", "earnings", "rewards", "submissions", "pool", "find", "dead"}
Pay == [pc : PayPc, challenge : Challenges \cup {None}, paid : Seq(Conns), at : Nat]
PayIdle == [pc |-> "recv", challenge |-> None, paid |-> <<>>, at |-> 0]

PayoutTypeOK ==
  /\ mined \in [Challenges -> Success \cup {None}]
  /\ jobs \in [Challenges -> {"none", "commission", "send", "sent", "lost"}]
  /\ queue \in Seq(Challenges)
  /\ pay \in Pay
  /\ pay.pc \notin {"recv", "dead"} => pay.challenge \in Challenges
  /\ pay.at \in 0..Len(pay.paid)
  /\ balance \in [Miners -> Nat]
  /\ earnings \in [Challenges -> [Conns -> Nat]]
  /\ submissions \in [Challenges -> [Conns -> Nat]]
  /\ totals \in [Challenges -> Nat]
  /\ settled \in [Challenges -> Row \cup {None}]
  /\ lost \in 0..MaxLost

Init ==
  /\ mined = [c \in Challenges |-> None]
  /\ jobs = [c \in Challenges |-> "none"]
  /\ queue = <<>>
  /\ pay = PayIdle
  /\ balance = [m \in Miners |-> 0]
  /\ earnings = [c \in Challenges |-> [u \in Conns |-> 0]]
  /\ submissions = [c \in Challenges |-> [u \in Conns |-> 0]]
  /\ totals = [c \in Challenges |-> 0]
  /\ settled = [c \in Challenges |-> None]
  /\ credited = {}
  /\ lost = 0

-----------------------------------------------------------------------------
(* The chain, and a restart.                                                *)

\* A transaction is final, and the task that announces it has read what it
\* brought.
Finalized(c) ==
  /\ mined[c] = None
  /\ \A d \in Challenges : d < c => mined[d] # None
  /\ \E r \in Rewards, t \in Tables :
       mined' = [mined EXCEPT ![c] = [rewards |-> r, table |-> t]]
  /\ jobs' = [jobs EXCEPT ![c] = "commission"]
  /\ UNCHANGED <<queue, pay, tableVars, ledgerVars, lost>>

\* The memory is gone, and with it every success that was not booked.
Restart ==
  /\ jobs' = [c \in Challenges |->
                IF jobs[c] = "none" \/ totals[c] > 0 THEN jobs[c] ELSE "lost"]
  /\ queue' = <<>>
  /\ pay' = PayIdle
  /\ UNCHANGED <<mined, tableVars, ledgerVars, lost>>

-----------------------------------------------------------------------------
(* The shares.                                                              *)

\* Mutant: the percentage without its hundred.
CommissionUnscaled(c) == mined[c].rewards * 5

\* commissions: five percent.
CommissionOf(c) == (mined[c].rewards * 5) \div 100

HashpowerOf(c, u) == mined[c].table[u]

\* Mutant: the sum of the capped hashpowers, which the message carries as well.
TotalCapped(c) ==
  SumFunction([u \in DOMAIN mined[c].table |->
                 IF HashpowerOf(c, u) > MaxHashpower THEN MaxHashpower
                 ELSE HashpowerOf(c, u)])

\* total_real_hashpower.
TotalHashpower(c) == SumFunction(mined[c].table)

\* earned_rewards: rounded down to millionths, and again to units.
Portion(hashpower, total, amount) ==
  (((hashpower * 1000000) \div total) * amount) \div 1000000

Share(c, u) ==
  Portion(HashpowerOf(c, u), TotalHashpower(c),
          mined[c].rewards - CommissionOf(c))

-----------------------------------------------------------------------------
(* The balances.                                                            *)

Ledger == INSTANCE RewardLedger WITH Payees <- Conns \cup {Commission}

ShareCredit(c, u) == [challenge |-> c, payee |-> u, miner |-> MinerOf[u],
                      amount |-> Share(c, u)]
CommissionCredit(c) == [challenge |-> c, payee |-> Commission,
                        miner |-> CommissionsMiner, amount |-> CommissionOf(c)]

\* The amounts of a batch, grouped by miner, are added to the balances.
AddToBalances(credits) ==
  /\ balance' = [m \in Miners |->
                   balance[m] + Ledger!SumOf({e \in credits : e.miner = m})]
  /\ credited' = credited \cup credits

\* try_join_all sees that the closure has run, not what its query returned: a
\* query that fails is Ok, and so is one whose answer is lost.
UpdateRewards(credits) ==
  \/ AddToBalances(credits)
  \/ "update" \in Faults /\ UNCHANGED ledgerVars

-----------------------------------------------------------------------------
(* The task that announces a mined challenge.                               *)

BookCommission(c) ==
  /\ jobs[c] = "commission"
  /\ UpdateRewards({CommissionCredit(c)})
  /\ jobs' = [jobs EXCEPT ![c] = "send"]
  /\ UNCHANGED <<mined, queue, pay, tableVars, lost>>

SendSuccess(c) ==
  /\ jobs[c] = "send"
  /\ queue' = IF pay.pc = "dead" THEN queue ELSE Append(queue, c)
  /\ jobs' = [jobs EXCEPT ![c] = "sent"]
  /\ UNCHANGED <<mined, pay, tableVars, ledgerVars, lost>>

-----------------------------------------------------------------------------
(* pool_mine_success_system.                                                *)

\* The order of a HashMap's iteration.
Orders(C) ==
  {s \in [1..Cardinality(C) -> C] : \A i, j \in DOMAIN s : s[i] = s[j] => i = j}

\* Rows are made for the submissions whose connection is among the sockets,
\* copied when the success was received.
Receive ==
  /\ pay.pc = "recv"
  /\ queue # <<>>
  /\ queue' = Tail(queue)
  /\ \E socks \in SUBSET DOMAIN mined[Head(queue)].table :
     \E s \in Orders(socks) :
       pay' = [pc |-> "earnings", challenge |-> Head(queue), paid |-> s, at |-> 0]
  /\ UNCHANGED <<mined, jobs, tableVars, ledgerVars, lost>>

\* A lookup of a submission's miner fails, and the unwrap ends the system and
\* with it the channel.
LookupFails ==
  /\ "lookup" \in Faults
  /\ pay.pc = "recv"
  /\ queue # <<>>
  /\ queue' = <<>>
  /\ pay' = [PayIdle EXCEPT !.pc = "dead"]
  /\ UNCHANGED <<mined, jobs, tableVars, ledgerVars, lost>>

BatchEnd == IF pay.at + BatchSize < Len(pay.paid) THEN pay.at + BatchSize
            ELSE Len(pay.paid)
Batch == {pay.paid[i] : i \in pay.at + 1 .. BatchEnd}

\* The tables are filled in this order, each by a loop over the batches.
After(pc) ==
  CASE pc = "earnings" -> "rewards"
    [] pc = "rewards" -> "submissions"
    [] pc = "submissions" -> "pool"

NextBatch(pc) ==
  /\ pay.pc = pc
  /\ pay.at < Len(pay.paid)

BatchDone == pay' = [pay EXCEPT !.at = BatchEnd]

\* The answer to a call that had its effect is lost: the call is repeated.
AnswerLost ==
  /\ lost < MaxLost
  /\ lost' = lost + 1
  /\ UNCHANGED pay

NextTable ==
  /\ pay.pc \in {"earnings", "rewards", "submissions"}
  /\ pay.at = Len(pay.paid)
  /\ pay' = [pay EXCEPT !.pc = After(pay.pc), !.at = 0]
  /\ UNCHANGED <<mined, jobs, queue, tableVars, ledgerVars, lost>>

\* The insert of a row for each of a batch.
WithBatch(rows) ==
  [rows EXCEPT ![pay.challenge] =
     [u \in Conns |-> IF u \in Batch THEN @[u] + 1 ELSE @[u]]]

\* A row of the batch does not fit into earnings: its worker_name, which
\* ws_handler_pubkey_v3 takes as it comes, is longer than the 36 characters of
\* the column.  The insert of the batch is an error each time it is repeated.
Unfit == Batch \cap LongNames # {}

\* Mutant: the loop over the batches ends with the first.
BookOneBatch ==
  /\ NextBatch("earnings")
  /\ ~Unfit
  /\ earnings' = WithBatch(earnings)
  /\ pay' = [pay EXCEPT !.at = Len(pay.paid)]
  /\ UNCHANGED <<mined, jobs, queue, submissions, totals, settled,
                 ledgerVars, lost>>

BookEarnings ==
  /\ NextBatch("earnings")
  /\ ~Unfit
  /\ earnings' = WithBatch(earnings)
  /\ \/ BatchDone /\ UNCHANGED lost
     \/ AnswerLost
  /\ UNCHANGED <<mined, jobs, queue, submissions, totals, settled,
                 ledgerVars>>

\* Mutant: an update is repeated until its answer arrives.
BookRewardsUntilAnswered ==
  /\ NextBatch("rewards")
  /\ AddToBalances({ShareCredit(pay.challenge, u) : u \in Batch})
  /\ BatchDone \/ UNCHANGED pay
  /\ UNCHANGED <<mined, jobs, queue, tableVars, lost>>

BookRewards ==
  /\ NextBatch("rewards")
  /\ UpdateRewards({ShareCredit(pay.challenge, u) : u \in Batch})
  /\ BatchDone
  /\ UNCHANGED <<mined, jobs, queue, tableVars, lost>>

BookSubmissions ==
  /\ NextBatch("submissions")
  /\ submissions' = WithBatch(submissions)
  /\ \/ BatchDone /\ UNCHANGED lost
     \/ AnswerLost
  /\ UNCHANGED <<mined, jobs, queue, earnings, totals, settled,
                 ledgerVars>>

BookPool ==
  /\ pay.pc = "pool"
  /\ totals' = [totals EXCEPT ![pay.challenge] = @ + 1]
  /\ \/ pay' = [pay EXCEPT !.pc = "find"] /\ UNCHANGED lost
     \/ AnswerLost
  /\ UNCHANGED <<mined, jobs, queue, earnings, submissions, settled,
                 ledgerVars>>

\* The submissions that may be the best: a strongest one, or one that a weaker
\* submission of its connection has replaced since, which is none of the table.
Strongest(c) ==
  {u \in DOMAIN mined[c].table :
     \A v \in DOMAIN mined[c].table : HashpowerOf(c, v) <= HashpowerOf(c, u)}

OlderRows(c) == {r \in Row : r.challenge < c /\ submissions[r.challenge][r.conn] > 0}

\* Mutant: the challenge is settled in a loop, like everything before it.
SettleUntilDone ==
  /\ pay.pc = "find"
  /\ \E best \in Strongest(pay.challenge) :
       /\ submissions[pay.challenge][best] > 0
       /\ settled' = [settled EXCEPT ![pay.challenge] =
                        [challenge |-> pay.challenge, conn |-> best]]
  /\ pay' = PayIdle
  /\ UNCHANGED <<mined, jobs, queue, earnings, submissions, totals,
                 ledgerVars, lost>>

\* The challenge's row is to name the latest submission with the nonce that was
\* mined.  That is the row of the best, if it was booked; otherwise one of an
\* earlier challenge, whose nonces were the same ones, or none.  When a call
\* fails the row is left as it is.
SettleChallenge ==
  /\ pay.pc = "find"
  /\ LET c == pay.challenge IN
       \/ \E best \in Strongest(c) :
            /\ submissions[c][best] > 0
            /\ settled' = [settled EXCEPT ![c] = [challenge |-> c, conn |-> best]]
       \/ \E r \in OlderRows(c) : settled' = [settled EXCEPT ![c] = r]
       \/ UNCHANGED settled
  /\ pay' = PayIdle
  /\ UNCHANGED <<mined, jobs, queue, earnings, submissions, totals,
                 ledgerVars, lost>>

-----------------------------------------------------------------------------
JobStep(c) == BookCommission(c) \/ SendSuccess(c)

PayStep ==
  \/ Receive
  \/ LookupFails
  \/ NextTable
  \/ BookEarnings
  \/ BookRewards
  \/ BookSubmissions
  \/ BookPool
  \/ SettleChallenge

Next ==
  \/ \E c \in Challenges : Finalized(c) \/ JobStep(c)
  \/ PayStep
  \/ Restart

Spec == Init /\ [][Next]_vars

\* The calls of both tasks return; what is repeated until it succeeds succeeds,
\* all but the insert of a batch that does not fit.
Fairness ==
  /\ WF_vars(PayStep)
  /\ \A c \in Challenges : WF_vars(JobStep(c))

FairSpec == Spec /\ Fairness

-----------------------------------------------------------------------------
(* Properties.                                                              *)

\* Across restarts, lost answers and swallowed errors: a balance is the sum of
\* credits, and no submission and no commission is credited twice.  That the
\* rewards are the one update whose failure is not noticed is what keeps a
\* repetition from crediting twice.
RefinesLedger == Ledger!Spec

CreditsOf(c) == {e \in credited : e.challenge = c}

\* What the miners and the commission are credited for a challenge is at most
\* what it brought: the shares are rounded down, and are shares of the sum over
\* the same table, of which some are not paid.
FitsReward ==
  \A c \in Challenges :
    mined[c] # None => Ledger!SumOf(CreditsOf(c)) <= mined[c].rewards

\* What the pool owes all its miners together is at most what the mined
\* challenges brought: it can pay what its books say.
Brought == [c \in Challenges |-> IF mined[c] = None THEN 0 ELSE mined[c].rewards]
OwedIsBrought == SumFunction(balance) <= SumFunction(Brought)

\* A share that is in a balance has its row in earnings, whatever batch a
\* restart cut off: a miner can be shown where the balance comes from.
CreditedIsEarned ==
  \A e \in credited : e.payee # Commission => earnings[e.challenge][e.payee] > 0

\* The payout stays at this batch until a restart, and every later success with
\* it.
HeldForGood == NextBatch("earnings") /\ Unfit

\* A mined challenge reaches the pool's total, unless the server restarts, the
\* payout system has ended on a failed lookup, or it repeats an insert that
\* cannot succeed.  Nothing else holds a success up: not a lost answer, not an
\* update that failed, not an earlier challenge that could not be settled.
\* (pool_mine_success_system.rs:57-300)
SuccessIsBooked ==
  \A c \in Challenges :
    jobs[c] = "commission"
      ~> \/ totals[c] > 0
         \/ jobs[c] = "lost"
         \/ pay.pc = "dead"
         \/ HeldForGood

-----------------------------------------------------------------------------
(* What the program's own messages say, and does not hold.                  *)

\* pool_mine_success_system.rs:196: "Successfully updated rewards".
UpdatedAsReported ==
  pay.pc = "submissions" =>
    \A i \in DOMAIN pay.paid : ShareCredit(pay.challenge, pay.paid[i]) \in credited
=============================================================================
