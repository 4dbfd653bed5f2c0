# bitz-pool in TLA+

bitz-pool is the server of a mining pool.  Clients connect over a websocket,
are given the challenge of the pool's proof account and a range of nonces,
and send back the best solution they find.  About once a minute the server
mines the best of these solutions on chain, splits the reward among the
clients by difficulty, and starts again with the next challenge.

The server is one process in which a dozen tokio tasks share a handful of
values, each behind a lock of its own, and hold a lock for one read or one
write.  Nearly everything that can go wrong lies between two locks.  The
modules here model the tasks that settle one challenge after another, the way a
reward becomes the balances of miners and leaves the pool, and the way clients come
and go; they check all of it with TLC and prove the central facts with TLAPS.

Paths below are relative to the repository's `src/`.

## Inventory

| Part | State | Operations | Correct when |
|---|---|---|---|
| start-up, `main.rs` | everything below, created empty around the proof read from the chain | run again after a crash | a restart leaves no trace but the database |
| proof tracking, `systems/proof_tracking_system.rs` | reads `app_last_challenge`, writes `app_proof` | receive, write, reconnect | the proof follows the chain and does not go back |
| client messages, `systems/client_message_handler_system.rs` | `ready_clients`, `app_epoch_hashes` | Ready, BestSolution (a task each), Pong | the table of the epoch is consistent, and only valid solutions of given ranges enter it |
| handing out work, `systems/handle_ready_clients_system.rs` | `app_nonce`, `app_client_nonce_ranges`, `ready_clients` | the loop, a send task per message | every client that is ready is served, with nonces nobody else has |
| submission, `systems/pool_submission_system.rs` | the submission window; resets all of the above | the loop, a tracker per transaction, a task per finalized transaction | every mined challenge is announced once, the window opens again, the next epoch begins |
| payout, `systems/pool_mine_success_system.rs` and `pool_submission_system.rs:490-652` | rewards, earnings, submissions, pools, challenges in the database | book the commission, announce; compute the shares, book them in batches | what is booked is within the reward, once, and has its row in earnings |
| claims, `systems/claim_system.rs`, `utils.rs:656-914` | the claims queue, rewards, pools and claims in the database | request of an amount, request of the balance, pay, book | what is charged was paid, and every claim that is accepted can be charged |
| connections, `utils.rs:362-522`, `main.rs:664-709`, `systems/pong_tracking_system.rs` | the sockets by address, the pongs | connect, disconnect, ping, pong, remove the silent | a live connection keeps its socket, a silent one loses it, and a submission is paid to its own miner |
| handshakes and signup, `utils.rs:86-360`, `utils.rs:590-650` | the rows of miners | three handshakes, the endpoint | a miner is signed up once |
| read-only endpoints, `utils.rs`, `app_rr_database.rs` | none of their own | requests | |
| text to all clients, `systems/message_text_all_clients_system.rs` | none of its own | send | |

How they interact: the chain and its websocket move `app_proof`; the submission
loop compares `app_proof` with the copy it took at the top of its round to see
that its transaction has gone through; its trackers do the same beside it; all
three then start the next epoch by four resets under four locks (nonce, ranges,
epoch, window) and the insert of the new challenge.  The tasks of client
messages read the window, the ranges, the proof and the epoch one after the
other while this happens, and the loop that hands out work reads the proof,
the epoch, the window, the sockets and the nonce.  A success goes to the payout
system through a channel.  The payout adds to the balances in the database, from
which the claim endpoints and the claim system take, with the queue of claims
between them.

What is hard: resets by two tasks at once; decisions taken on a copy; an RPC
call whose answer says less than it seems ("failed" is not "did not happen");
notifications that are late or lost; a tracker that outlives its round; a
restart between the landing of a transaction and its announcement, or between two
bookings; calls of the database that are repeated after they had their effect; four
tasks that remove a socket by an address somebody else may have by then.
`PROJECT.json` lists each at its line, with the properties that watch over it.

## Modules

| Module | Models |
|---|---|
| `PoolState` | the shared values, their initial state, a restart, the chain and the clock, the steps that begin an epoch |
| `ProofTrackingSystem` | the websocket loop |
| `ClientMessageHandlerSystem` | Ready and BestSolution, and the sockets as far as they matter here |
| `HandleReadyClientsSystem` | the loop that hands out work and its send tasks |
| `PoolSubmissionSystem` | the submission loop, its trackers, the task of a finalized transaction |
| `Settlement` | the abstract system: submission, trackers, websocket and epoch, with the handing out and the checking of work left open; its properties |
| `Pool` | the four systems together; that they implement `Settlement` |
| `MCSettlement`, `MCPool` | instances for TLC |
| `PoolTypeProofs`, `PoolProofs` | theorems about `Pool`: its types, the table of the epoch, the window |
| `SettlementProofs` | theorems about `Pool`: the announcements and the challenges |
| `RefinementProofs` | `Pool` implements `Settlement`, proved action by action |
| `ClaimSystem` | the claims: two endpoints, the queue, the system that pays and books; what the payout adds to a balance is an action with any amount |
| `MCClaims` | instances for TLC |
| `ClaimProofs` | theorems about `ClaimSystem` |
| `RewardLedger` | the abstract books: every payee of a challenge is credited at most once, a balance is the sum of its credits |
| `Payout` | the task that books the commission and announces, and the payout system; that they implement `RewardLedger` |
| `MCPayout`, `PayoutProofs` | instances for TLC, theorems about `Payout` |
| `Connections` | handshakes, signup, `handle_socket`, pings, pongs and the removal of silent clients |
| `SumTheorems` | lemmas about sums over finite sets, for the proofs about amounts |
| `MCConnections`, `ConnectionProofs` | an instance for TLC, theorems about `Connections` |

**One acquisition of a lock is one step.**  An action reads or writes one of the
values of `PoolState` (or two, where a comment says why the code cannot tell),
and the `pc` of a task says which lock it takes next.  Values a task has copied
are fields of its record: `main.old` is `old_proof`, `main.sol` and `main.subs`
the snapshot of lines 70-74, `trackers[k].new` the proof a tracker is about to
write, `rdy.challenge` the challenge being handed out, `sends[..].known` the ranges
a send task has read.

**Data.**  A challenge is its number in the order of the chain; a nonce range the
number of ranges handed out before it since the last reset; a solution the
challenge it was computed for, its range and its difficulty.  A solution is valid
for a proof when its challenge is the proof's.  Clients are honest: they submit
solutions of the work they were last given, as often and as late as they like.
A connection that ends does not come back (`gone`): a reconnecting client gets a
new uuid.

**Time.**  `clock` has three values, as far as the two comparisons of `get_cutoff`
tell them apart: at least ten seconds left, fewer, none.  The proof on chain ages;
every older proof has had its minute.

**The chain** is external and modelled by what the code observes: a transaction
lands only while its solution's challenge is the chain's; sending can fail before,
after, or instead of landing; a transaction given up on can land later (`stray`); a
notification may be lost, and is when the subscription is down or the bound is reached.  A call
over RPC that fails is a step where the code then does something else, and no step
where it only asks again.  The loops that insert a challenge until it is done or
found done are their last, successful round.

**Restart** ends the process at any step: the database and the chain remain, and
main builds everything else from them.

**Claims.**  `requests` are the requests in the endpoints, each with the await it
comes to next (`CheckQueue`, `CheckBalance`, `CheckCooldown`, `CheckAta`, `Insert`);
two requests that are alike in every respect are one.  `loop` is the claim system and
the transaction it waits for.  The three bookings it repeats until they succeed, the
balance, the pool's total and the claim, are one step each.  One that fails without effect
is no step; one whose answer is lost after its effect (`AnswerLost`) is a step without
progress, so that the loop books the same claim there once more, or, at the balance, finds
it too small and stays.  `repeated` counts, by table, what such calls have booked, and
`loop.again` says that the booking at hand is a repetition; both are history variables.  A
transaction that was given up can land later: the model keeps one per miner (`stray`), the last.  A look
at a token account that fails is taken by the code for an account that does not exist,
and so it is here.  `earned` and `paid` are what the properties compare with; no action's
guard but a bound reads them, as with `lost`.

**Payout.**  Challenges are numbered in the order in which the pool mines them, and each
is announced at most once, which is `AnnouncedOnce` of `Settlement`.  A challenge brings
one of `Rewards` and was mined from one of `Tables`, a function from connections to
hashpower; which of these connections are still open when the payout receives the success
is any subset of them.  `pay` is the payout system: the table it fills next, the rows in
the order of the map, and how many of them are booked.  A call that fails without an
effect and is repeated is no step; one whose answer is lost after its effect is a step
without progress (`AnswerLost`).  `update_rewards` is modelled as it is written: a query
that fails is answered Ok (`UpdateRewards`).  Amounts are integers and the two roundings
of a share are the code's (`Portion`).  Rows are counted by challenge and connection, so
that a row booked twice shows.  `LongNames` are the connections whose `worker_name` is
longer than its column in `earnings`, VARCHAR(36): the handshake takes a name of any length,
an insert of a batch with such a row never succeeds in the strict mode that is the
default of MySQL (`Unfit`), and the payout repeats it
until a restart.  `credited` is a history variable.

**Connections.**  A connection is its uuid; sockets and pongs are kept by address.  `peer`
is how far a connection has come: its request, a signup, `handle_socket`, and its end.
Its client can fall silent without ending the connection, and be back.  Time passes in
units of the 30 seconds between two rounds of pings (`Tick`), and waits for nobody: the
sends of a round have no timeout, a handler keeps the lock on the sockets while it sends,
and so a round of pings, a check of the pongs, an answer and its handling may each take any
number of units.  `PongLimit` is the limit of 90 seconds in units: at that age the check may
find a pong too old or not, above it it does.  The check works on a copy of the pongs, judges
it by the time that has passed by then, and removes socket and pong in two steps; the round of
pings works on a copy of the sockets.  `live` is a history variable: a connection is in it
from its joining, if nothing of another connection was left at its address then
(`FindsNothing`: no pong, no copy of one, no task, no entry in a round of pings), for as long
as its client is up and at no tick a round or a check was still going on or an answer of it
later than `MaxLag` (`Late`).  `finder` is the miner that the handler of a solution finds at the
client's address.  The inbox holds one pong of a
connection: its client answers again when that has been handled.

Every `Mutant:` operator is a wrong version of the definition after it, used to
see that a property can fail.

## Properties and runs

| Run | Instance | Result |
|---|---|---|
| `settlement_late` | 3 challenges, 2 connections, 2 tasks at once, 2 difficulties that count, 1 tracker slot, 2 attempts, restarts, the websocket with 1 notification in flight; within `Part` | 1.3 million states; `EpochIsConsistent`, `NothingFromTheFuture`, `AnnouncementHasWork`, `ClosedWindowHasOpener`, `AnnouncedOnce` hold |
| `settlement_live` | 2 challenges, 2 attempts, fair | 74 896 states; `RoundEnds`, `WindowReopens`, `BestIsSettled` hold |
| `pool_work` | the whole `Pool`, 2 challenges, no tracker | 258 312 states; `TypeOK`, `RefinesSettlement` hold |
| `pool_round` | the whole `Pool`, 2 challenges, websocket with 1 notification in flight, 1 tracker slot; within `WorkOnce`: no connection is lost, each is given work once, no round starts with the second challenge | 748 190 states; `NothingFromTheFuture`, `RefinesSettlement` hold |
| `claims_race` | 1 miner, both endpoints, 2 requests at once, 2 units earned, 4 paid, 1 lost answer | 3.7 million states; `ClaimTypeOK`, `ChargedWasPaid` hold |
| `claims_single` | 2 miners, `post_claim_v2`, 1 request of a miner at a time, 1 lost answer, fair | 365 860 states; `NeverOverdrawn`, `BooksInOrder`, `LoopGoesOn` hold |
| `payout_books` | 2 challenges, 3 connections of 1 miner, one of them with too long a name, the commission for another miner, batches of 1, a reward of 21, 1 lost answer, fair | 473 005 states; `PayoutTypeOK`, `FitsReward`, `OwedIsBrought`, `CreditedIsEarned`, `RefinesLedger`, `SuccessIsBooked` hold |
| `connections` | 2 connections of 2 miners from 1 address, a limit of 2, a lag of 0, fair | 474 758 states; `ConnTypeOK`, `LiveKeepsSocket`, `PaidToItsMiner`, `SilentLeaves` hold |
| `pool_row`, `pool_discard` | the whole `Pool` | a counterexample each, see below |
| `claims_overdraw` | 1 miner, `post_claim_v2`, 2 requests at once | a counterexample, see below |
| `payout_reported` | that of `payout_books` with 2 connections | a counterexample, see below |

- `EpochIsConsistent`: no submission is worth more than the best hash, and there is a
  best hash exactly while there is a submission.  Tasks decide on one table and write
  to another, resets come in between.
- `AnnouncementHasWork`: a success is announced with a table the reward can be shared by:
  not empty, though a tracker may empty it between the loop's two looks at it, with every
  submission worth `MinDiff` and none worth more than the solution that was mined.  The
  payout divides by the sum of the hashpowers, powers of the difficulty above `MinDiff`.
- `ClosedWindowHasOpener`: when the window is closed, the loop is on a path that opens
  it, or a tracker is about to, or a best hash waits and will start a round.
- `AnnouncedOnce`: a challenge is announced at most once and only when the chain has
  paid it, with retried attempts, abandoned transactions that land and restarts.
- `NothingFromTheFuture`: no proof, epoch, row or announcement is ahead of the chain,
  and `app_last_challenge` is always behind it.  It is a bound from above: a proof that
  goes back to an older challenge, which happens (see below), does not violate it.
- `RoundEnds`, `WindowReopens`, `BestIsSettled`: a round ends, a closed window opens, a
  best hash is mined or discarded.  That a notification is lost matters to `RoundEnds`
  only, which needs the look at the proof over RPC.
- `RefinesSettlement`: `Pool` implements `Settlement`.  The mapping hides nonces, ranges,
  sockets and ready clients, and keeps of the tasks those that have passed every check:
  the step at which a task finds its solution valid is `Arrive`, at which a solution
  turns up from nowhere.  Safety of the epoch, the window, the proof and the
  announcements therefore carries over; what a client is given to work on does not appear.
- `ChargedWasPaid`: what was taken off a miner's balance, less what charges have taken
  whose answer was lost, is at most what the chain has paid for that miner, whatever expires,
  lands late, is replaced in the queue or is cut off by a restart.  (The converse does not
  hold, and the code cannot have it without asking the chain: a payment that lands late or
  before a restart is never charged.)
- `BooksInOrder`: the pool's total of claims is at most what was charged, the claims on
  record are at most that total: a restart between bookings loses the later ones only.  Each
  is taken less its own repetitions, so that a lost answer in one table is never made up for
  in another.
- `NeverOverdrawn`: when a claim has been paid, its balance covers it the first time it is
  charged.  Otherwise the decrease of the unsigned column fails and is repeated for ever.  It
  holds with one endpoint and one request of a miner at a time, and only then.
- `LoopGoesOn`: under the same condition the claim system gets past every claim, or is left
  with a charge to repeat that was made and does not fit the balance again (`RepeatsInVain`).
- `RefinesLedger`: `Payout` implements `RewardLedger`: whatever is cut off by a restart,
  repeated or lost, nobody is credited twice for a challenge, and a balance is the sum of
  its credits.  It holds because the update of the balances is the one booking that is not
  repeated when its query fails; its mutant repeats it like the others.
- `FitsReward`: what a challenge credits, shares and commission together, is within what it
  brought.  The shares are parts of the sum of the uncapped hashpowers; of the two sums
  that the message carries, the other would not do.  The credits are a set: that none is
  booked twice is `RefinesLedger`, and shows in `OwedIsBrought`.
- `OwedIsBrought`: what the pool owes all its miners together is within what all mined
  challenges brought, whichever bookings are cut off, repeated or fail.
- `CreditedIsEarned`: a share in a balance has its row in earnings, because earnings are
  booked first, every batch of them.
- `SuccessIsBooked`: a mined challenge reaches the pool's total, unless the server restarts,
  the payout system has ended on a failed lookup, or it is at a batch of earnings that cannot
  be inserted (`HeldForGood`).  Nothing else holds a success up: not a lost answer, not a
  failed update, and not the last booking, the only one that is given up.
- `LiveKeepsSocket`: no task takes the socket of a connection in `live`: the check judges a
  copy of the pongs that may be a round old, and four tasks remove by address.  Both conditions
  are needed.  When a send or a lock stalls a round or a check beyond its unit, a client that
  is up is not pinged, or is judged by a pong that had no time to come, and can lose its
  socket.  When it joins before the task of an earlier connection of its address has ended, or
  while a round of pings holds one, these remove the entry of the address, whoever has it.
  The property says that there is no other way, however long anything took before it joined.
- `PaidToItsMiner`: the handler finds the miner of a submission by address, the payout
  finds its connection by uuid, and between the two the address may have changed hands;
  still, what is paid is paid to the miner of the connection that found it.
- `SilentLeaves`: a client that has answered before and falls silent loses its socket, in the
  end, if no other connection has joined at its address.

**Bounds.**  `MaxChallenge` 3 lets a tracker of the first challenge be alive while the
second is mined and the third begins; a transaction given up in one round can land in
the next; with 2 there is one change of challenge, enough for each property about one
epoch and the one before.  `MaxAttempts` 1 or 2 stands for 10: a first attempt, a
repeated one, the end of the attempts.  `MaxTasks` 2 is the least that interleaves reads
and writes of the table.  `settlement_late` takes some sources
of interleavings at a time (the constraint `Part` of `MCSettlement`): two clients, two
difficulties and the websocket until the chain first moves, with the resets of the rounds
that fail there and the announcement of the one that does not; RPC, trackers, repeated attempts, abandoned transactions and restarts with
one solution at a time through the third challenge.  The websocket beside a tracker, across
the change of the challenge, is the subject of `pool_round`.  All at once, the instance is
far beyond TLC; the five safety properties of the run, and the refinement, are proved
without these limits.  `MaxNotes` 1 lets a notification be late by any number of
steps.  `Trackers` is the set of slots; with one, a second transaction is confirmed only
when the first tracker has ended, and with none no transaction is ever confirmed, so
that the run sees the failed rounds only.  Two overlapping trackers, and the whole `Pool`
with a tracker but without `WorkOnce`, are beyond TLC here; the theorems cover them, the
refinement included.  In `MCClaims`, 2 units
earned are enough for a claim of a part, a claim of the rest and one of the whole;
`MaxPaid` is twice what is earned, so that a transaction given up and its repetition can
both land; two requests are the least that pass each other.  `MaxLost` 1 lets one booking be
repeated, the charge, the total or the claim, in every place of a behaviour; a second would
repeat it once more.  It is 0 in `claims_overdraw`, which needs none.  With a fee of 1, the least
claim is the fee itself, as in the code.  In `MCPayout` two challenges are the least
for which a lookup by nonce finds the other's row; two connections of one miner in batches
of one give that miner two credits that must be told from one booked twice; 21 leaves a
remainder in the commission and in every share; the cap is below one of the two
hashpowers.  The third connection, of too long a name, has mined with one of the others, so
that a batch is booked before or behind the one that is not.  One lost answer repeats one
call.  In `MCConnections` two connections from one
address are what every mix-up needs, and a limit of 2 with a lag of 0 are the least that the
assumption `MaxLag + 1 < PongLimit` allows, with nothing to spare: a live client's pong gets
one unit old and is judged at two.  The 90 seconds of the code are three units, which the
theorem covers.  Deadlock is checked in every run and does not
occur.

**Fairness** (`FairSettlementSpec`).  Weak fairness of the loop and of each tracker,
because tokio runs every task that can go on and no lock is held for ever; weak fairness
of the clock; strong fairness of the proof fetched after finality, because the loop asks
every second and `RoundEnds` would otherwise fail on an RPC node that never answers.
Nothing is assumed of clients, the chain, the websocket or restarts.  Of the claims
(`FairSpec`), weak fairness of the system's loop: its calls return, its waits are bounded
by five attempts and 120 seconds, and only the repeated decrease can be without end.
The number of lost answers is bounded by `MaxLost`, so that a booking that can succeed does in
the end; one that cannot stays, and is named in the property.
Of the payout, weak fairness of the system and of each announcing task: their calls return,
and what is repeated succeeds if it can.  An insert that cannot is not enabled, and fairness
says nothing of it.  Of the connections, weak fairness of the
clock and of the check, whose locks are free at some time: how long that takes is left open,
and so is everything about the pings, the handler, signups and clients.

### What does not hold

Four runs end in a counterexample of a statement the program itself makes in its
messages; `PROJECT.json` quotes them.

- `EpochChallengeHasRow`: line 709 of the submission system inserts the old challenge for
  the new.
- `DiscardedWasNotMined`: "Failed to send tx" is also said of transactions that landed.
- `NeverOverdrawn`, with two requests at once: both pass the look at the queue and at the
  balance, one after the other is paid, and the second cannot be charged.
- `UpdatedAsReported`: "Successfully updated rewards" is also said of a batch whose query
  has failed; it is in earnings and in no balance.

The model exhibits these as well, and no property is stated:

- a booking of a claim whose answer is lost is made again (`claim_system.rs:182-234`): the
  miner is charged twice for one payment, the pool's total or the claims on record count it
  twice, or the charge is repeated on a balance too small for it and every later claim waits
  until a restart (`Charge`, `AddClaimed`, `AddRow`);
- one `worker_name` longer than its column keeps the payout at its batch until a restart
  (`BookEarnings`, `pool_mine_success_system.rs:168-172`), and every later success behind it;
- a client that reconnects from its address after a check or a ping has removed its old
  socket, and before the task of the old connection has ended, loses the new one to that task (`Leave` after `Join`, `utils.rs:415-417`), and one whose
  rounds or checks are stalled loses it to the check;
- the window is looked at, the challenge read and the nonce taken under three locks
  (`handle_ready_clients_system.rs:79-102`), so that a client can be given an old challenge
  with a nonce of the new epoch;
- a notification that is compared with `last_challenge` before a tracker writes the proof,
  or after the loop has written it, puts an older challenge back
  (`proof_tracking_system.rs:58-69`); work is then handed out for a challenge that has gone
  until a round has failed on it;
- the challenge an announcement names need not be the one mined (`msg.old` and `msg.mined`
  differ when a tracker moves the proof between lines 49 and 72);
- a submission that straddles a reset is counted for the next challenge, and one that was
  also counted for the last is paid twice;
- the epoch's challenge and the proof differ for as long as a reset takes, and longer
  after a failed round;
- two send tasks to one client read the same ranges, and the later write drops the range of
  the client's last message (`handle_ready_clients_system.rs:118-141`), whose nonces are
  then refused as "out of assigned range";
- two tasks of one connection read the same table, and the weaker solution, written last,
  replaces the submission that the best hash came from
  (`client_message_handler_system.rs:136-182`): its finder is paid for the weaker one, and
  no submission has the nonce that is mined;
- a claim for which no blockhash could be had is dropped (`BlockhashFails`), with the
  message "will retry on next iteration" (`claim_system.rs:248`);
- `claim_direct` takes the cost of a token account off the claim it queues (`CheckAta`) and
  the claim system takes it off again (`utils.rs:739-741`, `claim_system.rs:86-88`);
- "Minimum claim is 0.05 BITZ" (`utils.rs:716`) is said where `MinClaim` is 0.02 BITZ;
- a transfer that lands after it was given up, or before a restart, is not charged, and the
  miner can claim the same balance again;
- a lookup that fails in the payout (`pool_mine_success_system.rs:62-72`) ends it: later
  successes are announced to nobody until a restart, commissions are booked all the same;
- a restart between two bookings leaves the later ones for ever (`Restart`), and an insert
  repeated after a lost answer leaves its rows twice;
- a success whose connection has closed by then pays its finder nothing, and the share
  stays in the pool (`Receive`);
- the row of a challenge can come to name a submission of an earlier one with the same
  nonce (`SettleChallenge`, `app_database.rs:729`);
- a handshake that signs up a miner who is there by then repeats the signup until its
  client hangs up (`SignUpLoop`; `utils.rs:218-228`, `311-321`);
- a client that is back after its socket was removed stays connected, is answered its
  messages by nobody and is given no work (`CheckRemove`, then `Wake`), since nothing closes
  its connection; a client that never answered a ping has no pong and is never removed.

## Proofs

A theorem holds for every set of connections, trackers, miners and difficulties and every
value of the bounds, from the named assumptions of the modules, which TLC evaluates on every
run.  The model's assumptions are: bounds are naturals, and those that count from one are
positive; difficulties are naturals and `MinDiff` is positive; fees, hashpowers and batches
are positive; `None` is none of the values it is compared with; the miners, and in the payout
the connections, are finite sets, as rows of a table and keys of a map are; no table that is
announced is empty or has a hashpower of zero, which `AnnouncementAlwaysHasWork` proves of
the loop that announces it; and `MaxLag + 1 < PongLimit`.

### Pool

All theorems are about `Pool`, with the tasks, the send tasks, any number of overlapping
trackers, and restarts.  A lemma of "writers" (`EpochWriters`, `WindowWriters`,
`SuccessWriters`, `AnnouncedWriters`, `CopyWriters`) reduces a step of the nearly seventy actions to
the few that touch what an invariant is about.

- `TypeCorrect`: `Spec => []TypeOK`.  `TypeOK` is not inductive: that an attempt stays
  within `MaxAttempts` needs that past the start of an attempt the count is smaller and
  there is a solution (`AttemptOK`).
- `EpochAlwaysConsistent`: `Spec => []EpochIsConsistent`.  The invariant needs `TasksWorth`:
  a task past its check carries a solution of at least `MinDiff`, which is positive, so
  that a written submission makes a best hash.  `WriteIsConsistent` is the write of a task to
  any consistent table.
- `WindowAlwaysHasOpener`: `Spec => []ClosedWindowHasOpener`.  The property is inductive
  with the above: `LoopStaysOpener` (the loop leaves its path to the opening only through
  a snapshot that has a best hash), `LoopLeavesTracker`, `TrackerStaysOpener` (who empties
  the table is about to open the window), `OpenerStays`.
- `AnnouncementAlwaysHasWork`: `Spec => []AnnouncementHasWork`.  The announcement is made
  minutes after the table was read, so the invariant has to follow the loop's copy:
  `SnapshotHasWork`, the reward can be shared by the copied submissions if a best hash was
  copied with them.  That the copy begins so is `EpochAlwaysConsistent`, read under one lock,
  and `EpochWorth`: what is in the table is worth `MinDiff`.
- `NeverFromTheFuture`: `Spec => []NothingFromTheFuture`.  Everyone writes what was read
  earlier, so `KnownInv` bounds what is remembered as well: by the websocket and the
  notifications under way (`KnownNotes`), by the loop (`KnownLoop`), by each tracker
  (`KnownTrackers`) and in the announcements (`KnownNews`).  That `app_last_challenge` is
  strictly behind needs that a tracker's old challenge is, which is because its transaction
  has landed (`MainTrackersKnown`).
- `AnnouncedAtMostOnce`: `Spec => []AnnouncedOnce`.  `OnceInv` adds that the loop waits for
  finality only of a transaction that has landed (`FinalHasLanded`), that a landed one has
  mined a challenge the chain has left (`LandedIsMined`) and that nobody announces that
  challenge until it is final (`LandedIsUnannounced`).  A transaction lands only for the
  challenge in the proof account, for which nothing is announced yet (`LandingIsNew`);
  an abandoned one that lands leaves the loop's own without a challenge to land for.
- `PoolRefinesSettlement`: `Spec => RefinesSettlement`.  Each action of the loop, the
  trackers, the announcing tasks, the websocket and the chain is the action of the same name;
  handing out work, the clients and the checks before the proof are steps `Settlement` does
  not see (`ReadyIsInternal`, `ClientsAreInternal`, `EarlyStepIsInternal`); the step at which a
  solution is found valid is `Arrive` (`ValidArrives`).  `Arrive` needs room among
  `MaxTasks`: `TasksFit` bounds the tasks of `Pool`, and the one that arrives is one of them
  and not yet one of `Settlement`'s (`RoomToArrive`).

The inductive invariants of the announcements and the challenges (`WorkInv`, `KnownInv`,
`OnceInv`) hold in TLC on the instance of `settlement_late`, `TasksFit` on that of
`pool_work`.

### Claims

- `ClaimTypeCorrect`: `Spec => []ClaimTypeOK`; it is proved together with the next, since
  that a balance does not exceed `MaxEarned` needs that it does not exceed what was earned.
- `ChargedIsPaid`: `Spec => []ChargedWasPaid`.  The property is not inductive: between a
  transaction's landing and the decrease, the payment is owed.  `PaidInv` adds `Due(m)`, the
  amount the loop is about to charge for `m` after a transaction that has landed, to what
  was charged, and allows for `repeated.charge[m]`: a charge whose answer is lost adds the same
  amount on both sides and leaves the payment due.  `NoMoneyMoves` settles every step that only makes something due no more.
- `BooksAlwaysInOrder`: `Spec => []BooksInOrder`.  The three bookings of a claim, the balance,
  the pool's total and the row, are steps of their own with restarts between them.  `OrderInv`
  counts what the loop still has to book (`Pending`) with the table it is booked in next: the
  total and the pending amount are within what was charged, the rows and the pending amount
  within the total, each less its repetitions (`ClaimedOnce`, `RowsOnce`).  The sums over the miners change by one miner's amount (`ChargeOrder`,
  `RowOrder`).
- `OneRequestNeverOverdraws`: from `MaxRequests = 1` and `Endpoints = {"v2"}`,
  `Spec => []NeverOverdrawn`.  `OneInv` says that while a miner's request is past the look
  at the queue nothing of that miner is queued or in the loop unbooked
  (`RequestsCovered`), that the loop's claim is the one in the queue (`LoopHoldsClaim`),
  and that a queued claim is covered by the balance until it is booked (`QueueCovered`), which
  it counts as being once its charge was made, answered or not (`Booked`).

### Payout

- `BooksRefineLedger`: `Spec => RefinesLedger`.  `PayInv` says that a challenge is in one
  place, not mined, with its task, queued once or with the payout system (`JobsInOrder`),
  and where that place is for the challenge of a credit: a commission is credited before
  the success is sent, a share once the payout has booked its row (`CreditsInOrder`).  Each
  booking is then one `Book` of the ledger.
- `CreditsAreEarned`: `Spec => []CreditedIsEarned`, with `EarningsFirst`: past the table of
  earnings every row of the payout is in it.
- `PortionIsWithinPart`: a share times the total is at most the hashpower times the amount,
  for all naturals.
- `CreditsFitReward`: `Spec => []FitsReward`.  `AmountsInv` says that every credit, and every
  row the payout is about to book, is the commission of its challenge or the share of one of
  the submissions of its table, computed from that table and no other.  By `SharesFit` all that a
  table can credit fits: the shares, each at most its part, add up to at most what is left
  after the commission.  The credits of a challenge are a subset of that (`SumOfSubset`).
- `PayoutTypeCorrect`: `Spec => []PayoutTypeOK`, with `BooksInv`: a balance is the sum of the
  credits to its miner, which is a natural whatever was added.
- `OwedWasBrought`: `Spec => []OwedIsBrought`.  The balances together are the credits summed
  by miner, which are the credits summed by challenge (`SumByKey`), and each challenge's fit
  by `CreditsFitReward`.

### Connections

- `ConnTypeCorrect`: `Spec => []ConnTypeOK`; it needs that what is in the inbox, being pinged
  or being removed has joined and so has an address (`KnownHaveJoined`).
- `EachPaidToItsMiner`: `Spec => []PaidToItsMiner`, from `SocketsIndexed`: a socket is at the
  address of its connection, which joins once.
- `LiveAlwaysKeepsSocket`: `Spec => []LiveKeepsSocket`.  `Kept` bounds the age of the pong of
  a connection in `live` by the age of the ping it has not answered and one round more
  (`PongBound`), and that of the copy by the greatest lag and one; `OthersGone` says that every
  other connection of its address that has joined is done and in no round of pings.  It stays
  so since nobody joins at an address that has a socket (`OthersStayGone`).  No bound is assumed
  on a round or a check: one that outlasts its unit takes the connection out of `live`.

### Sums

`SumFunction` of the community modules is a fold, defined by recursion on finite sets.
`SumTheorems` first shows that the recursion defines a value for every finite set
(`SumEquation`) and then what the proofs above use: a sum changes by the change of one term
(`SumChange`), over a part it is at most that over the whole (`SumSubset`), it is monotone
(`SumMonotone`), over disjoint sets it is added (`SumDisjoint`), grouped by a key it stays the
same (`SumByKey`), and bounds that hold for the terms hold for the sum (`SumWithinPart`).
Induction on a finite set is not by the library's induction theorems, whose parameter is an
operator, but over the set of the counterexamples: one of the smallest cardinality has an
element, and without it would be a smaller one (`SmallestSet`, `SetInduction`, which takes the
set of those for which a statement holds).

### Only model-checked

Liveness, which the prover cannot treat (fairness and ENABLED): `RoundEnds`, `WindowReopens`,
`BestIsSettled`, `LoopGoesOn`, `SuccessIsBooked`, `SilentLeaves`.  Every safety property of the
passing runs is a theorem.  The theorems about the epoch, the window and the announcements
are of `Pool`, which the server is; of `Settlement` alone, with solutions that turn up from
nowhere, TLC checks them.

## Plan

1. `PoolState`, `ProofTrackingSystem`, `ClientMessageHandlerSystem`,
   `HandleReadyClientsSystem`, `PoolSubmissionSystem`, `Settlement`, `Pool`: done.
2. `Payout`, `RewardLedger`, `PayoutProofs`: done.
3. `ClaimSystem`, `MCClaims`, `ClaimProofs`: done.  Left: the claims over the bookings of
   `Payout`, in place of `Earn`.
4. `Connections`, `ConnectionProofs`: done.
5. Theorems: the safety properties of the passing runs and both refinements are proved.
   Left: the invariants of `Pool` for `Settlement` alone, from which the refinement would
   carry them over; that a task's solution is of a range its connection was given, with the
   hypothesis under which it holds; what a restart preserves of the payout's books, as
   action properties.

## Not modelled

The signatures and timestamps of the handshakes, which only decide whether a request is
made; the read-only endpoints and `app_rr_database.rs`, and the text to all clients, which
change nothing; the layout of messages; the construction of transactions; the table `txns`
and the stake accounts, which no modelled component reads; the lock on the sockets that is
held while a client is sent a message, whose duration nothing in the repository bounds: what
waits for it may take any time in `Connections`.
