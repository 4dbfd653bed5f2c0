---------------------------- MODULE RewardLedger ----------------------------
(***************************************************************************)
(* What the bookings of mined challenges amount to: every payee of a       *)
(* challenge (a connection whose submission is paid, or the commission) is *)
(* credited at most once, and a balance is the sum of its credits.         *)
(***************************************************************************)
EXTENDS Naturals, Functions

CONSTANTS
  Miners,       \* the miners that have signed up
  Challenges,   \* the challenges that are mined
  Payees        \* the connections, and the commission

VARIABLES
  balance,      \* rewards.balance, by miner
  credited      \* the credits booked so far

IsCredit(e) ==
  /\ DOMAIN e = {"challenge", "payee", "miner", "amount"}
  /\ e.challenge \in Challenges /\ e.payee \in Payees /\ e.miner \in Miners

SumOf(credits) == SumFunction([e \in credits |-> e.amount])

Init ==
  /\ balance = [m \in Miners |-> 0]
  /\ credited = {}

\* Credits are added, none of them to a payee credited for that challenge
\* before, and the balances grow by exactly them.
Book ==
  LET new == credited' \ credited IN
    /\ credited \subseteq credited'
    /\ \A e \in new : IsCredit(e)
    /\ \A e \in new, d \in credited' :
         e # d => e.challenge # d.challenge \/ e.payee # d.payee
    /\ balance' = [m \in Miners |->
                     balance[m] + SumOf({e \in new : e.miner = m})]

Spec == Init /\ [][Book]_<<balance, credited>>
=============================================================================
