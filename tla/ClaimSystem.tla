----------------------------- MODULE ClaimSystem -----------------------------
(***************************************************************************)
(* systems/claim_system.rs and the two endpoints of utils.rs that fill the *)
(* queue it empties: how what a miner has earned leaves the pool.  A       *)
(* request reads the queue, the balance and the receiver's token account,  *)
(* one await after the other, and puts its claim into the queue at the     *)
(* end; the system pays the claim on chain and books it afterwards, one    *)
(* table after the other.                                                  *)
(*                                                                         *)
(* The 2_000_000_000 of the code, 0.02 BITZ, is AtaFee and MinClaim: two   *)
(* in units of 0.01 BITZ, one in units of 0.02.  A miner is also its       *)
(* receiver, with one token account.  A booking that fails without effect  *)
(* and is repeated is no step; one whose answer is lost after its effect is*)
(* a step without progress, and the repetition books the claim again.      *)
(***************************************************************************)
EXTENDS Naturals, FiniteSets, Functions

CONSTANTS
  Miners,       \* the miners that have signed up
  None,         \* Rust's Option::None
  AtaFee,       \* what a new token account costs
  MinClaim,     \* the smallest claim the endpoints let pass
  Endpoints,    \* the endpoints in use: "v2", "direct"
  MaxEarned,    \* bound: what a miner earns
  MaxPaid,      \* bound: what the chain pays out for a miner
  MaxLost,      \* bound: answers of the database that are lost
  MaxRequests   \* bound: requests of one miner that are handled at once

VARIABLES
  balance,      \* rewards.balance, by miner
  claimed,      \* pools.claimed_rewards
  rows,         \* the sum of the amounts in claims, by miner
  queue,        \* claims_queue, by miner
  requests,     \* the requests in the endpoints
  loop,         \* claim_system, and the transaction it waits for
  earned,       \* all that was ever added to balance, by miner
  paid,         \* all that transactions took for a miner, on chain
  hasAta,       \* the receiver's token account exists, on chain
  stray,        \* by miner, a transaction that is not waited for any more
  lost,         \* history: the answers lost
  repeated      \* history: what was booked by calls whose answer was lost

ASSUME ClaimNoneAssumption == None \notin Miners
ASSUME ClaimMinersAssumption == IsFiniteSet(Miners)
ASSUME ClaimAmountAssumption ==
  /\ AtaFee \in Nat \ {0}
  /\ MinClaim \in Nat \ {0}
  /\ Endpoints \subseteq {"v2", "direct"}
ASSUME ClaimBoundAssumption ==
  /\ MaxEarned \in Nat /\ MaxPaid \in Nat
  /\ MaxRequests \in Nat /\ MaxLost \in Nat

lostVars == <<lost, repeated>>
dbVars == <<balance, claimed, rows, lostVars>>
ledgerVars == <<paid, hasAta, stray>>
vars == <<dbVars, queue, requests, loop, earned, ledgerVars>>

Amounts == 0..MaxEarned

\* ClaimsQueueItem, without the receiver.
Claim == [amount : Amounts]
Tx == [amount : Amounts, creating : BOOLEAN]
Request == [kind : {"v2", "direct"}, miner : Miners, amount : Amounts,
            pc : {"queue", "balance", "cooldown", "ata", "insert"}]
LoopPc == {"idle", "ata", "hash", "send", "wait", "charge", "claimed", "row",
           "remove", "dead"}
Loop == [pc : LoopPc, miner : Miners \cup {None}, amount : Amounts,
         creating : BOOLEAN,
         tx : {"none", "flight", "landed"},
         again : BOOLEAN]   \* history: the booking at hand is a repeated one

LoopIdle == [pc |-> "idle", miner |-> None, amount |-> 0,
             creating |-> FALSE, tx |-> "none", again |-> FALSE]
NoClaims == [m \in Miners |-> None]
Zero == [m \in Miners |-> 0]

ClaimTypeOK ==
  /\ balance \in [Miners -> Amounts]
  /\ claimed \in Nat
  /\ rows \in [Miners -> Nat]
  /\ queue \in [Miners -> Claim \cup {None}]
  /\ requests \subseteq Request
  /\ loop \in Loop
  /\ loop.pc \notin {"idle", "dead"} => loop.miner \in Miners
  /\ earned \in [Miners -> Amounts]
  /\ paid \in [Miners -> 0..MaxPaid]
  /\ hasAta \in [Miners -> BOOLEAN]
  /\ stray \in [Miners -> Tx \cup {None}]
  /\ lost \in 0..MaxLost
  /\ repeated \in [charge : [Miners -> Nat], claimed : Nat, row : Nat]

Init ==
  /\ balance = Zero
  /\ claimed = 0
  /\ rows = Zero
  /\ queue = NoClaims
  /\ requests = {}
  /\ loop = LoopIdle
  /\ earned = Zero
  /\ paid = Zero
  /\ hasAta \in [Miners -> BOOLEAN]
  /\ stray = NoClaims
  /\ lost = 0
  /\ repeated = [charge |-> Zero, claimed |-> 0, row |-> 0]

\* What a miner has been charged for so far.
Charged(m) == earned[m] - balance[m]

-----------------------------------------------------------------------------
(* The chain, and the payout system.                                        *)

\* update_rewards adds a share of a mined challenge.
Earn(m) ==
  /\ \E a \in 1..(MaxEarned - earned[m]) :
       /\ earned' = [earned EXCEPT ![m] = @ + a]
       /\ balance' = [balance EXCEPT ![m] = @ + a]
  /\ UNCHANGED <<claimed, rows, lostVars, queue, requests, loop, ledgerVars>>

\* What a claim transaction does for miner m when it lands.  One that creates
\* an account that exists by then fails.
Land(m, tx) ==
  /\ tx.creating => ~hasAta[m]
  /\ paid[m] + tx.amount <= MaxPaid
  /\ paid' = [paid EXCEPT ![m] = @ + tx.amount]
  /\ hasAta' = [hasAta EXCEPT ![m] = @ \/ tx.creating]

LoopTx == [amount |-> loop.amount, creating |-> loop.creating]

LoopTxLands ==
  /\ loop.pc = "wait"
  /\ loop.tx = "flight"
  /\ Land(loop.miner, LoopTx)
  /\ loop' = [loop EXCEPT !.tx = "landed"]
  /\ UNCHANGED <<dbVars, queue, requests, earned, stray>>

StrayTxLands(m) ==
  /\ stray[m] # None
  /\ Land(m, stray[m])
  /\ stray' = [stray EXCEPT ![m] = None]
  /\ UNCHANGED <<dbVars, queue, requests, loop, earned>>

-----------------------------------------------------------------------------
(* The endpoints.                                                           *)

RequestsOf(m) == {r \in requests : r.miner = m}

\* POST /v2/claim names the amount.
PostClaimV2(m) ==
  /\ "v2" \in Endpoints
  /\ Cardinality(RequestsOf(m)) < MaxRequests
  /\ \E a \in Amounts :
       requests' = requests \cup {[kind |-> "v2", miner |-> m,
                                   amount |-> a, pc |-> "queue"]}
  /\ UNCHANGED <<dbVars, queue, loop, earned, ledgerVars>>

\* POST /v2/claim-direct claims the balance, and does not look at the queue.
ClaimDirect(m) ==
  /\ "direct" \in Endpoints
  /\ Cardinality(RequestsOf(m)) < MaxRequests
  /\ requests' = requests \cup {[kind |-> "direct", miner |-> m,
                                 amount |-> 0, pc |-> "balance"]}
  /\ UNCHANGED <<dbVars, queue, loop, earned, ledgerVars>>

\* A request goes on as next if cond holds, and is refused otherwise.
Answer(r, cond, next) ==
  /\ requests' = (requests \ {r}) \cup (IF cond THEN {next} ELSE {})
  /\ UNCHANGED <<dbVars, queue, loop, earned, ledgerVars>>

\* Mutant: a claim that is queued does not keep the next one out.
CheckAmountOnly(r) ==
  /\ r.pc = "queue"
  /\ Answer(r, r.amount >= MinClaim, [r EXCEPT !.pc = "balance"])

\* "QUEUED", and the minimum.
CheckQueue(r) ==
  /\ r.pc = "queue"
  /\ Answer(r, queue[r.miner] = None /\ r.amount >= MinClaim,
            [r EXCEPT !.pc = "balance"])

\* Mutant: a claim may exceed the balance.
CheckNoBalance(r) ==
  /\ r.pc = "balance"
  /\ Answer(r, TRUE, [r EXCEPT !.pc = "cooldown"])

\* get_miner_rewards.
CheckBalance(r) ==
  LET b == balance[r.miner] IN
  /\ r.pc = "balance"
  /\ IF r.kind = "v2"
     THEN Answer(r, r.amount <= b, [r EXCEPT !.pc = "cooldown"])
     ELSE Answer(r, b >= MinClaim, [r EXCEPT !.pc = "cooldown",
                                            !.amount = b])

\* Or the database does not answer.
BalanceFails(r) == r.pc = "balance" /\ Answer(r, FALSE, r)

\* get_last_claim: a miner who has a claim may have to wait.  A lookup that
\* fails is taken for a miner without one.
CheckCooldown(r) ==
  /\ r.pc = "cooldown"
  /\ \E waits \in BOOLEAN :
       /\ waits => rows[r.miner] > 0
       /\ Answer(r, ~waits, [r EXCEPT !.pc = "ata"])

\* get_token_account_balance: a call that fails is taken for an account that
\* does not exist.
Creating(m) == {c \in BOOLEAN : ~c => hasAta[m]}

\* claim_direct takes the fee off, post_claim_v2 only tries whether it could.
CheckAta(r) ==
  /\ r.pc = "ata"
  /\ \E c \in Creating(r.miner) :
       Answer(r, ~c \/ r.amount >= AtaFee,
              [r EXCEPT !.pc = "insert",
                 !.amount = IF c /\ r.kind = "direct" THEN @ - AtaFee ELSE @])

\* queue.insert replaces a claim that is there.
Insert(r) ==
  /\ r.pc = "insert"
  /\ queue' = [queue EXCEPT ![r.miner] = [amount |-> r.amount]]
  /\ requests' = requests \ {r}
  /\ UNCHANGED <<dbVars, loop, earned, ledgerVars>>

RequestStep(r) ==
  CheckQueue(r) \/ CheckBalance(r) \/ BalanceFails(r) \/ CheckCooldown(r)
    \/ CheckAta(r) \/ Insert(r)

RequestNext ==
  \/ \E m \in Miners : PostClaimV2(m) \/ ClaimDirect(m)
  \/ \E r \in requests : RequestStep(r)

-----------------------------------------------------------------------------
(* claim_system: paying.                                                    *)

\* The first claim in the HashMap's order, which is any.  It stays in the
\* queue while it is paid.
Pick(m) ==
  /\ loop.pc = "idle"
  /\ queue[m] # None
  /\ loop' = [LoopIdle EXCEPT !.pc = "ata", !.miner = m,
                !.amount = queue[m].amount]
  /\ UNCHANGED <<dbVars, queue, requests, earned, ledgerVars>>

\* queue.remove(&miner_pubkey): by key, whatever claim is there by now.
Dequeue == queue' = [queue EXCEPT ![loop.miner] = None]

\* "miner {} has not enough BITZ to claim." drops the claim.
LoopCheckAta ==
  /\ loop.pc = "ata"
  /\ \E c \in Creating(loop.miner) :
       IF c /\ loop.amount < AtaFee
       THEN loop' = LoopIdle /\ Dequeue
       ELSE /\ loop' = [loop EXCEPT !.pc = "hash", !.creating = c]
            /\ UNCHANGED queue
  /\ UNCHANGED <<dbVars, requests, earned, ledgerVars>>

LatestBlockhash ==
  /\ loop.pc = "hash"
  /\ loop' = [loop EXCEPT !.pc = "send"]
  /\ UNCHANGED <<dbVars, queue, requests, earned, ledgerVars>>

\* "Failed to confirm transaction, will retry on next iteration."
BlockhashFails ==
  /\ loop.pc = "hash"
  /\ loop' = LoopIdle
  /\ Dequeue
  /\ UNCHANGED <<dbVars, requests, earned, ledgerVars>>

Send ==
  /\ loop.pc = "send"
  /\ loop' = [loop EXCEPT !.pc = "wait", !.tx = "flight"]
  /\ UNCHANGED <<dbVars, queue, requests, earned, ledgerVars>>

\* The loop goes on to the next claim and leaves this one in the queue.  Its
\* transaction may be under way; the model keeps one such per miner.
GiveUp(mayLand) ==
  /\ loop' = LoopIdle
  /\ stray' \in {stray} \cup
       {[stray EXCEPT ![loop.miner] = LoopTx] : x \in {TRUE} \cap {mayLand}}
  /\ UNCHANGED <<dbVars, queue, requests, earned, paid, hasAta>>

\* Five answers were errors, which does not say that nothing was sent.
SendFails == loop.pc = "send" /\ GiveUp(TRUE)

\* Mutant: after 120 seconds the claim is booked.
ExpiresAsPaid ==
  /\ loop.pc = "wait"
  /\ loop' = [loop EXCEPT !.pc = "charge"]
  /\ UNCHANGED <<dbVars, queue, requests, earned, ledgerVars>>

\* "Transaction Expired": not seen finalized in 120 seconds.
Expires == loop.pc = "wait" /\ GiveUp(loop.tx = "flight")

\* "Transaction Failed": finalized with an error.
Fails == loop.pc = "wait" /\ loop.tx = "flight" /\ GiveUp(FALSE)

-----------------------------------------------------------------------------
(* claim_system: booking what was paid.  The row in txns is written and     *)
(* read again between the pool's row and the claim's; nothing else reads it.*)

\* Mutant: the miner is not charged.
FinalizedUncharged ==
  /\ loop.pc = "wait"
  /\ loop.tx = "landed"
  /\ loop' = [loop EXCEPT !.pc = "claimed"]
  /\ UNCHANGED <<dbVars, queue, requests, earned, ledgerVars>>

Finalized ==
  /\ loop.pc = "wait"
  /\ loop.tx = "landed"
  /\ loop' = [loop EXCEPT !.pc = "charge"]
  /\ UNCHANGED <<dbVars, queue, requests, earned, ledgerVars>>

\* The unwrap of the miner's or the pool's row ends the task.
LookupPanics ==
  /\ loop.pc = "wait"
  /\ loop.tx = "landed"
  /\ loop' = [LoopIdle EXCEPT !.pc = "dead"]
  /\ UNCHANGED <<dbVars, queue, requests, earned, ledgerVars>>

\* The booking is answered, and the next one begins.
Answered(next) ==
  /\ loop' = [loop EXCEPT !.pc = next, !.again = FALSE]
  /\ UNCHANGED lostVars

\* It has its effect and the connection breaks: Err, and it is repeated.
AnswerLost ==
  /\ lost < MaxLost
  /\ lost' = lost + 1
  /\ loop' = [loop EXCEPT !.again = TRUE]

\* Mutant: the balance goes below zero.
ChargeAnyway ==
  /\ loop.pc = "charge"
  /\ balance' = [balance EXCEPT ![loop.miner] = @ - loop.amount]
  /\ Answered("claimed")
  /\ UNCHANGED <<claimed, rows, queue, requests, earned, ledgerVars>>

\* decrease_miner_reward.  The column is unsigned: a balance that is too small
\* is an error, and an error is tried again.
Charge ==
  /\ loop.pc = "charge"
  /\ loop.amount <= balance[loop.miner]
  /\ balance' = [balance EXCEPT ![loop.miner] = @ - loop.amount]
  /\ \/ Answered("claimed")
     \/ /\ AnswerLost
        /\ repeated' = [repeated EXCEPT !.charge[loop.miner] = @ + loop.amount]
  /\ UNCHANGED <<claimed, rows, queue, requests, earned, ledgerVars>>

\* update_pool_claimed.
AddClaimed ==
  /\ loop.pc = "claimed"
  /\ claimed' = claimed + loop.amount
  /\ \/ Answered("row")
     \/ AnswerLost /\ repeated' = [repeated EXCEPT !.claimed = @ + loop.amount]
  /\ UNCHANGED <<balance, rows, queue, requests, earned, ledgerVars>>

\* add_new_claim.
AddRow ==
  /\ loop.pc = "row"
  /\ rows' = [rows EXCEPT ![loop.miner] = @ + loop.amount]
  /\ \/ Answered("remove")
     \/ AnswerLost /\ repeated' = [repeated EXCEPT !.row = @ + loop.amount]
  /\ UNCHANGED <<balance, claimed, queue, requests, earned, ledgerVars>>

Remove ==
  /\ loop.pc = "remove"
  /\ Dequeue
  /\ loop' = LoopIdle
  /\ UNCHANGED <<dbVars, requests, earned, ledgerVars>>

LoopNext ==
  \/ \E m \in Miners : Pick(m)
  \/ LoopCheckAta \/ LatestBlockhash \/ BlockhashFails \/ Send \/ SendFails
  \/ Expires \/ Fails \/ Finalized \/ LookupPanics
  \/ Charge \/ AddClaimed \/ AddRow \/ Remove

-----------------------------------------------------------------------------
(* The process ends and main runs again: the queue is in memory.            *)

Restart ==
  /\ queue' = NoClaims
  /\ requests' = {}
  /\ loop' = LoopIdle
  /\ stray' \in {stray} \cup
       {[stray EXCEPT ![m] = LoopTx] :
          m \in {x \in Miners : /\ x = loop.miner
                                /\ loop.pc \in {"send", "wait"}
                                /\ loop.tx # "landed"}}
  /\ UNCHANGED <<dbVars, earned, paid, hasAta>>

Next ==
  \/ \E m \in Miners : Earn(m) \/ StrayTxLands(m)
  \/ LoopTxLands
  \/ RequestNext
  \/ LoopNext
  \/ Restart

Spec == Init /\ [][Next]_vars

\* tokio runs the spawned system; its RPC calls and its retries end, all but a
\* retry that cannot succeed: only MaxLost answers are lost.  Nothing is assumed
\* of requests or the chain.
FairSpec == Spec /\ WF_vars(LoopNext)

-----------------------------------------------------------------------------
(* Properties.                                                              *)

\* What a miner was charged by calls that were answered.
ChargedOnce(m) == Charged(m) - repeated.charge[m]

\* A miner is charged only for what the chain has paid: not for a transaction
\* that expired or failed, not for a claim that was replaced in the queue while
\* another was paid, and not after a restart in the middle of a claim.  The one
\* thing that charges without a payment is a charge whose answer was lost.
\* (claim_system.rs:154-195)
ChargedWasPaid == \A m \in Miners : ChargedOnce(m) <= paid[m]

\* A restart between two bookings loses the later ones, never the earlier: the
\* pool has not paid out more than its miners were charged, and every claim on
\* record is part of it.  Each of the three is exact but for what its own lost
\* answers have booked; no lost answer is made up for in another table.
\* (claim_system.rs:182-241)
BooksInOrder ==
  LET claimedOnce == claimed - repeated.claimed IN
  /\ claimedOnce <= SumFunction([m \in Miners |-> ChargedOnce(m)])
  /\ SumFunction(rows) - repeated.row <= claimedOnce

\* utils.rs:827, "claim amount for BITZ exceeds miner rewards balance.": a
\* claim that is accepted, and then paid, can be charged, the first time it is
\* tried.  One that cannot is retried for ever and no claim is paid any more.
NeverOverdrawn ==
  loop.pc = "charge" /\ ~loop.again => loop.amount <= balance[loop.miner]

\* The charge of a claim that has been charged, on a balance that is too small
\* for a second one.
RepeatsInVain ==
  loop.pc = "charge" /\ loop.again /\ loop.amount > balance[loop.miner]

\* Whatever the chain answers, and however requests come in, the system does
\* not stay with one claim for ever, so that every miner's turn can come;
\* unless the answer to a charge was lost. (claim_system.rs:48-241)
LoopGoesOn ==
  loop.pc # "idle" ~> loop.pc \in {"idle", "dead"} \/ RepeatsInVain
=============================================================================
