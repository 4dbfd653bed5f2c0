------------------------------ MODULE PoolState ------------------------------
(***************************************************************************)
(* The state that main.rs wraps in Arc<Mutex<..>> or Arc<RwLock<..>> and   *)
(* hands to every system it spawns, and the two things outside the server  *)
(* that the systems read: the pool's proof account on chain and the        *)
(* database's challenges table.  Each lock is held for one read or one     *)
(* write, so one acquisition is one atomic step of the model.              *)
(*                                                                         *)
(* Challenges are numbered in the order in which the chain produces them;  *)
(* 0 is the [0u8; 32] that last_challenge starts with.  A nonce range is   *)
(* known by the number of ranges handed out before it since the last reset *)
(* (range k is k * NONCE_RANGE_SIZE and the nonces that follow).           *)
(***************************************************************************)
EXTENDS Naturals, Sequences, FiniteSets

CONSTANTS
  Conns,         \* the websocket connections, each known by its uuid
  None,          \* Rust's Option::None
  Diffs,         \* the difficulties a solution can hash to
  MinDiff,       \* MIN_DIFF of main.rs
  MaxChallenge,  \* bound: the last challenge the chain produces
  MaxNonce,      \* bound: nonce ranges handed out between two resets
  MaxNotes       \* bound: proof notifications in flight

VARIABLES
  proof,         \* app_proof.challenge: the challenge the server believes in
  lastChallenge, \* app_last_challenge
  nonce,         \* app_nonce, in units of NONCE_RANGE_SIZE
  ranges,        \* app_client_nonce_ranges
  epoch,         \* app_epoch_hashes
  closed,        \* app_submission_window.closed
  ready,         \* ready_clients
  online,        \* the keys of app_state.sockets
  gone,          \* connections that are over; a new one gets a new uuid
  work,          \* per client: the last StartMining message it received
  db,            \* the challenges that have a row in the database
  chain,         \* the challenge in the pool's proof account on chain
  clock,         \* how much of the minute of chain has passed
  stray,         \* a mine transaction nobody waits for can still land
  notes          \* account notifications the websocket has not delivered

Challenges == 0..MaxChallenge
Blocks == 0..(MaxNonce - 1)
Solutions == [challenge : Challenges, block : Blocks, diff : Diffs]
Work == [challenge : Challenges, block : Blocks]
Submissions == [Conns -> Solutions \cup {None}]

ASSUME NoneAssumption == None \notin Solutions
ASSUME DiffAssumption == Diffs \subseteq Nat /\ MinDiff \in Nat \ {0}
ASSUME BoundAssumption ==
  /\ MaxChallenge \in Nat \ {0}
  /\ MaxNonce \in Nat \ {0}
  /\ MaxNotes \in Nat

poolVars == <<proof, lastChallenge, nonce, ranges, epoch, closed, db>>
clientVars == <<ready, online, gone, work>>
chainVars == <<chain, clock, stray, notes>>
sharedVars == <<poolVars, clientVars, chainVars>>

NoSubmissions == [c \in Conns |-> None]
NoRanges == [c \in Conns |-> {}]

\* EpochHashes with an empty submissions map and no best hash.
EmptyEpoch(ch) ==
  [challenge |-> ch, solution |-> None, difficulty |-> 0,
   submissions |-> NoSubmissions]

EpochType ==
  [challenge : Challenges, solution : Solutions \cup {None},
   difficulty : Diffs \cup {0}, submissions : Submissions]

SharedTypeOK ==
  /\ proof \in Challenges
  /\ lastChallenge \in Challenges
  /\ nonce \in 0..MaxNonce
  /\ ranges \in [Conns -> SUBSET Blocks]
  /\ epoch \in EpochType
  /\ closed \in BOOLEAN
  /\ ready \subseteq Conns
  /\ online \subseteq Conns
  /\ gone \subseteq Conns
  /\ work \in [Conns -> Work \cup {None}]
  /\ db \subseteq Challenges
  /\ chain \in Challenges
  /\ clock \in 0..2
  /\ stray \in BOOLEAN
  /\ notes \in Seq(Challenges)

\* main.rs: the proof is read from the chain, its challenge is put in the
\* database, and everything else starts empty.
SharedInit ==
  /\ proof = 1
  /\ lastChallenge = 0
  /\ nonce = 0
  /\ ranges = NoRanges
  /\ epoch = EmptyEpoch(1)
  /\ closed = FALSE
  /\ ready = {}
  /\ online = {}
  /\ gone = {}
  /\ work = [c \in Conns |-> None]
  /\ db = {1}
  /\ chain = 1
  /\ clock = 0
  /\ stray = FALSE
  /\ notes = <<>>

\* The process ends, and main runs again: only the database and the chain
\* outlive it.  The connections are over.
SharedRestart ==
  /\ proof' = chain
  /\ lastChallenge' = 0
  /\ nonce' = 0
  /\ ranges' = NoRanges
  /\ epoch' = EmptyEpoch(chain)
  /\ closed' = FALSE
  /\ ready' = {}
  /\ online' = {}
  /\ gone' = gone \cup online
  /\ work' = [c \in Conns |-> None]
  /\ db' = db \cup {chain}
  /\ notes' = <<>>
  /\ UNCHANGED <<chain, clock>>

-----------------------------------------------------------------------------
(* Time.  get_cutoff compares the clock with the time of the last hash of   *)
(* a proof.  The model keeps three readings of it for the proof on chain:   *)
(* 0, at least ten seconds are left; 1, fewer are; 2, none is.  A proof the *)
(* chain has left behind has had its minute.                                *)

CutoffOf(p) == IF p = chain THEN clock ELSE 2

Tick ==
  /\ clock < 2
  /\ clock' = clock + 1
  /\ UNCHANGED <<poolVars, clientVars, chain, stray, notes>>

-----------------------------------------------------------------------------
(* The chain.                                                               *)

\* A change of the proof account sends one notification, which may be lost, and
\* is when the subscription cannot hold it.
Notify(ch) ==
  \/ UNCHANGED notes
  \/ Len(notes) < MaxNotes /\ notes' = Append(notes, ch)

\* A mine transaction lands: the proof account moves to its next challenge,
\* and no other transaction for the challenge it leaves can land any more.
Advance ==
  /\ chain < MaxChallenge
  /\ chain' = chain + 1
  /\ clock' = 0
  /\ stray' = FALSE
  /\ Notify(chain + 1)

\* A transaction the server has given up on lands after all.
LandStray ==
  /\ stray
  /\ Advance
  /\ UNCHANGED <<poolVars, clientVars>>

\* A claim moves the balance in the same proof account: a notification that
\* repeats the challenge.
TouchProof ==
  /\ Len(notes) < MaxNotes
  /\ Notify(chain)
  /\ UNCHANGED <<poolVars, clientVars, chain, clock, stray>>

-----------------------------------------------------------------------------
(* The steps that start a new epoch, each under a lock of its own.          *)

ResetNonce == nonce' = 0
ResetRanges == ranges' = NoRanges
\* Mutant: the best hash outlives the epoch it was found in.
ResetSubmissionsOnly(ch) ==
  epoch' = [EmptyEpoch(ch) EXCEPT !.solution = epoch.solution,
                                  !.difficulty = epoch.difficulty]
ResetEpoch(ch) == epoch' = EmptyEpoch(ch)
OpenWindow == closed' = FALSE
CloseWindow == closed' = TRUE

\* The insert of a challenge, retried until it is done or found done: the
\* retries leave the table as it was, so only the success is a step.
AddChallenge(ch) == db' = db \cup {ch}

\* What every write to app_epoch_hashes keeps: the difficulty of the best
\* hash is that of its solution, no submission beats it, and there is a best
\* hash only while there is a submission.
EpochConsistent(e) ==
  /\ e.solution = None <=> e.difficulty = 0
  /\ e.solution = None <=> e.submissions = NoSubmissions
  /\ e.solution # None => e.solution.diff = e.difficulty
  /\ \A c \in Conns : e.submissions[c] # None =>
       e.submissions[c].diff <= e.difficulty
=============================================================================
