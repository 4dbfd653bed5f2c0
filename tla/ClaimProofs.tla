----------------------------- MODULE ClaimProofs -----------------------------
(***************************************************************************)
(* Theorems about ClaimSystem, for every set of miners, every fee and      *)
(* minimum and every value of the bounds.                                  *)
(***************************************************************************)
EXTENDS ClaimSystem, FiniteSetTheorems, SumTheorems, TLAPS

-----------------------------------------------------------------------------
(* Type correctness.                                                        *)

LEMMA IdleTyped == LoopIdle \in Loop /\ NoClaims \in [Miners -> Claim \cup {None}]
  BY ClaimBoundAssumption DEF LoopIdle, Loop, LoopPc, Amounts, NoClaims

LEMMA ClaimInitTyped == Init => ClaimTypeOK
  BY IdleTyped, ClaimBoundAssumption
     DEF Init, ClaimTypeOK, Zero, Amounts, NoClaims, LoopIdle

LEMMA EarnTyped ==
  ASSUME ClaimTypeOK, NEW m \in Miners, Earn(m), balance[m] <= earned[m]
  PROVE  ClaimTypeOK'
<1>1. PICK a \in 1..(MaxEarned - earned[m]) :
        /\ earned' = [earned EXCEPT ![m] = @ + a]
        /\ balance' = [balance EXCEPT ![m] = @ + a]
  BY DEF Earn
<1>2. earned[m] \in Amounts /\ balance[m] \in Amounts
  BY DEF ClaimTypeOK
<1>3. earned[m] + a \in Amounts /\ balance[m] + a \in Amounts
  BY <1>1, <1>2, ClaimBoundAssumption DEF Amounts
<1>4. earned' \in [Miners -> Amounts] /\ balance' \in [Miners -> Amounts]
  BY <1>1, <1>3 DEF ClaimTypeOK
<1>5. QED
  BY <1>4 DEF Earn, ClaimTypeOK, lostVars, ledgerVars

LEMMA LandTyped ==
  ASSUME ClaimTypeOK, NEW m \in Miners, NEW tx \in Tx, Land(m, tx)
  PROVE  /\ paid' \in [Miners -> 0..MaxPaid]
         /\ hasAta' \in [Miners -> BOOLEAN]
<1>1. paid[m] + tx.amount \in 0..MaxPaid
  BY ClaimBoundAssumption DEF ClaimTypeOK, Land, Tx, Amounts
<1>2. QED
  BY <1>1 DEF ClaimTypeOK, Land, Tx

LEMMA LoopTxTyped ==
  ASSUME ClaimTypeOK PROVE LoopTx \in Tx
  BY DEF ClaimTypeOK, LoopTx, Tx, Loop

LEMMA AnswerTyped ==
  ASSUME ClaimTypeOK, NEW r, NEW cond, NEW next,
         cond => next \in Request, Answer(r, cond, next)
  PROVE  ClaimTypeOK'
<1>1. requests' \subseteq Request
  BY DEF Answer, ClaimTypeOK
<1>2. QED
  BY <1>1 DEF Answer, ClaimTypeOK, dbVars, lostVars, ledgerVars

LEMMA RequestTyped ==
  ASSUME ClaimTypeOK, RequestNext PROVE ClaimTypeOK'
<1>1. ASSUME NEW m \in Miners, PostClaimV2(m) \/ ClaimDirect(m)
      PROVE  ClaimTypeOK'
  <2>1. requests' \subseteq Request
    BY <1>1, ClaimBoundAssumption
       DEF PostClaimV2, ClaimDirect, ClaimTypeOK, Request, Amounts
  <2>2. QED
    BY <1>1, <2>1 DEF PostClaimV2, ClaimDirect, ClaimTypeOK, dbVars, lostVars, ledgerVars
<1>2. ASSUME NEW r \in requests, RequestStep(r)
      PROVE  ClaimTypeOK'
  <2> r \in Request
    BY DEF ClaimTypeOK
  <2>1. CASE CheckQueue(r)
    BY <2>1, AnswerTyped DEF CheckQueue, Request
  <2>2. CASE CheckBalance(r)
    <3>1. balance[r.miner] \in Amounts
      BY DEF ClaimTypeOK, Request
    <3>2. [r EXCEPT !.pc = "cooldown"] \in Request
      BY DEF Request
    <3>3. [r EXCEPT !.pc = "cooldown",
                    !.amount = balance[r.miner]] \in Request
      BY <3>1 DEF Request
    <3>4. CASE r.kind = "v2"
      <4>1. Answer(r, r.amount <= balance[r.miner], [r EXCEPT !.pc = "cooldown"])
        BY <2>2, <3>4 DEF CheckBalance
      <4>2. QED
        BY <4>1, <3>2, AnswerTyped
    <3>5. CASE r.kind # "v2"
      <4>1. Answer(r, balance[r.miner] >= MinClaim,
                   [r EXCEPT !.pc = "cooldown",
                             !.amount = balance[r.miner]])
        BY <2>2, <3>5 DEF CheckBalance
      <4>2. QED
        BY <4>1, <3>3, AnswerTyped
    <3>6. QED
      BY <3>4, <3>5
  <2>3. CASE BalanceFails(r)
    BY <2>3, AnswerTyped DEF BalanceFails
  <2>4. CASE CheckCooldown(r)
    BY <2>4, AnswerTyped DEF CheckCooldown, Request
  <2>5. CASE CheckAta(r)
    <3>1. PICK c \in BOOLEAN :
            Answer(r, ~c \/ r.amount >= AtaFee,
                   [r EXCEPT !.pc = "insert",
                      !.amount = IF c /\ r.kind = "direct" THEN @ - AtaFee
                                 ELSE @])
      BY <2>5 DEF CheckAta, Creating
    <3>2. (~c \/ r.amount >= AtaFee) =>
            [r EXCEPT !.pc = "insert",
               !.amount = IF c /\ r.kind = "direct" THEN @ - AtaFee ELSE @]
              \in Request
      <4>1. ASSUME ~c \/ r.amount >= AtaFee
            PROVE  (IF c /\ r.kind = "direct" THEN r.amount - AtaFee
                    ELSE r.amount) \in Amounts
        BY <4>1, ClaimAmountAssumption, ClaimBoundAssumption
           DEF Request, Amounts
      <4>2. QED
        BY <4>1 DEF Request
    <3>3. QED
      BY <3>1, <3>2, AnswerTyped
  <2>6. CASE Insert(r)
    BY <2>6 DEF Insert, ClaimTypeOK, Claim, Request, dbVars, lostVars, ledgerVars
  <2>7. QED
    BY <1>2, <2>1, <2>2, <2>3, <2>4, <2>5, <2>6 DEF RequestStep
<1>3. QED
  BY <1>1, <1>2 DEF RequestNext

LEMMA GiveUpTyped ==
  ASSUME ClaimTypeOK, loop.miner \in Miners, NEW mayLand \in BOOLEAN,
         GiveUp(mayLand)
  PROVE  ClaimTypeOK'
<1>1. stray' \in [Miners -> Tx \cup {None}]
  BY LoopTxTyped DEF GiveUp, ClaimTypeOK
<1>2. QED
  BY <1>1, IdleTyped DEF GiveUp, ClaimTypeOK, dbVars, lostVars, LoopIdle

\* A booking that is answered or not.
LEMMA BookingTyped ==
  ASSUME ClaimTypeOK, Charge \/ AddClaimed \/ AddRow PROVE ClaimTypeOK'
<1> USE DEF ClaimTypeOK, ledgerVars, lostVars
<1>1. loop.miner \in Miners /\ loop.amount \in Nat
  BY ClaimBoundAssumption DEF Charge, AddClaimed, AddRow, Loop, Amounts
<1>2. /\ loop' \in Loop /\ lost' \in 0..MaxLost
      /\ loop'.pc \notin {"idle", "dead"} => loop'.miner \in Miners
  <2>1. ASSUME AnswerLost, loop.pc # "idle", loop.pc # "dead"
        PROVE  /\ loop' \in Loop /\ lost' \in 0..MaxLost
               /\ loop'.miner \in Miners
    <3>1. lost' \in 0..MaxLost
      BY <2>1, ClaimBoundAssumption DEF AnswerLost
    <3>2. loop' \in Loop /\ loop'.miner = loop.miner
      BY <2>1 DEF AnswerLost, Loop
    <3>3. QED
      BY <1>1, <3>1, <3>2
  <2>2. ASSUME NEW pc \in {"claimed", "row", "remove"}, Answered(pc)
        PROVE  /\ loop' \in Loop /\ lost' \in 0..MaxLost
               /\ loop'.pc \notin {"idle", "dead"} => loop'.miner \in Miners
    BY <1>1, <2>2 DEF Answered, Loop, LoopPc
  <2>3. QED
    BY <2>1, <2>2 DEF Charge, AddClaimed, AddRow
<1>3. repeated' \in [charge : [Miners -> Nat], claimed : Nat, row : Nat]
  <2>1. CASE repeated' = [repeated EXCEPT !.charge[loop.miner] = @ + loop.amount]
    <3>1. [repeated.charge EXCEPT ![loop.miner] = @ + loop.amount] \in [Miners -> Nat]
      BY <1>1
    <3>2. QED
      BY <2>1, <3>1
  <2>2. CASE \/ repeated' = [repeated EXCEPT !.claimed = @ + loop.amount]
             \/ repeated' = [repeated EXCEPT !.row = @ + loop.amount]
    BY <1>1, <2>2
  <2>3. CASE UNCHANGED repeated
    BY <2>3
  <2>4. QED
    BY <2>1, <2>2, <2>3 DEF Charge, AddClaimed, AddRow, Answered
<1>4. Charge => balance' \in [Miners -> Amounts]
  BY <1>1, ClaimBoundAssumption DEF Charge, Amounts
<1>5. QED
  BY <1>1, <1>2, <1>3, <1>4 DEF Charge, AddClaimed, AddRow

LEMMA LoopTyped ==
  ASSUME ClaimTypeOK, LoopNext PROVE ClaimTypeOK'
<1> USE DEF ClaimTypeOK, dbVars, lostVars, ledgerVars
<1>1. ASSUME NEW m \in Miners, Pick(m) PROVE ClaimTypeOK'
  <2>1. queue[m] \in Claim
    BY <1>1 DEF Pick
  <2>2. loop' \in Loop /\ loop'.miner = m
    BY <1>1, <2>1, IdleTyped DEF Pick, Loop, LoopPc, Claim
  <2>3. QED
    BY <1>1, <2>2 DEF Pick
<1>2. CASE LoopCheckAta
  <2>1. loop' \in Loop /\ (loop'.pc \notin {"idle", "dead"} => loop'.miner \in Miners)
    BY <1>2, IdleTyped DEF LoopCheckAta, Creating, Loop, LoopPc, LoopIdle
  <2>2. queue' \in [Miners -> Claim \cup {None}]
    BY <1>2 DEF LoopCheckAta, Dequeue
  <2>3. QED
    BY <1>2, <2>1, <2>2 DEF LoopCheckAta
<1>3. CASE BlockhashFails \/ Remove
  <2>1. queue' \in [Miners -> Claim \cup {None}]
    BY <1>3 DEF BlockhashFails, Remove, Dequeue
  <2>2. loop' = LoopIdle /\ LoopIdle.pc = "idle"
    BY <1>3 DEF BlockhashFails, Remove, LoopIdle
  <2>3. QED
    BY <1>3, <2>1, <2>2, IdleTyped DEF BlockhashFails, Remove
<1>4. CASE LatestBlockhash \/ Send \/ Finalized \/ LookupPanics
  <2>1. loop' \in Loop /\ (loop'.pc \notin {"idle", "dead"} => loop'.miner \in Miners)
    BY <1>4, IdleTyped DEF LatestBlockhash, Send, Finalized, LookupPanics,
       Loop, LoopPc, LoopIdle
  <2>2. QED
    BY <1>4, <2>1 DEF LatestBlockhash, Send, Finalized, LookupPanics
<1>5. CASE SendFails \/ Expires \/ Fails
  BY <1>5, GiveUpTyped DEF SendFails, Expires, Fails
<1>6. CASE Charge \/ AddClaimed \/ AddRow
  BY <1>6, BookingTyped
<1>7. QED
  BY <1>1, <1>2, <1>3, <1>4, <1>5, <1>6 DEF LoopNext

LEMMA RestartTyped ==
  ASSUME ClaimTypeOK, Restart PROVE ClaimTypeOK'
<1>1. stray' \in [Miners -> Tx \cup {None}]
  BY LoopTxTyped DEF Restart, ClaimTypeOK
<1>2. loop' = LoopIdle /\ LoopIdle.pc = "idle"
  BY DEF Restart, LoopIdle
<1>3. QED
  BY <1>1, <1>2, IdleTyped DEF Restart, ClaimTypeOK, dbVars, lostVars

LEMMA LandingTyped ==
  ASSUME ClaimTypeOK,
         LoopTxLands \/ \E m \in Miners : StrayTxLands(m)
  PROVE  ClaimTypeOK'
<1>1. CASE LoopTxLands
  <2>1. /\ paid' \in [Miners -> 0..MaxPaid]
        /\ hasAta' \in [Miners -> BOOLEAN]
    BY <1>1, LandTyped, LoopTxTyped DEF LoopTxLands, ClaimTypeOK
  <2>2. loop' \in Loop /\ loop'.miner = loop.miner /\ loop'.pc = loop.pc
    BY <1>1 DEF LoopTxLands, ClaimTypeOK, Loop
  <2>3. QED
    BY <1>1, <2>1, <2>2 DEF LoopTxLands, ClaimTypeOK, dbVars, lostVars
<1>2. ASSUME NEW m \in Miners, StrayTxLands(m) PROVE ClaimTypeOK'
  <2>1. stray[m] \in Tx /\ Land(m, stray[m])
    BY <1>2 DEF StrayTxLands, ClaimTypeOK
  <2>2. /\ paid' \in [Miners -> 0..MaxPaid]
        /\ hasAta' \in [Miners -> BOOLEAN]
    BY <2>1, LandTyped
  <2>3. QED
    BY <1>2, <2>2 DEF StrayTxLands, ClaimTypeOK, dbVars, lostVars
<1>3. QED
  BY <1>1, <1>2

-----------------------------------------------------------------------------
(* What is charged has been paid.                                           *)

\* A payment that has landed and is not charged yet.
Due(m) ==
  IF loop.miner = m /\ loop.tx = "landed" /\ loop.pc \in {"wait", "charge"}
  THEN loop.amount ELSE 0

\* Inductive: what was paid covers what was charged once and what is due, a charge
\* is only due for a transaction that has landed, and nobody's balance exceeds
\* what was earned.
PaidInv ==
  /\ ClaimTypeOK
  /\ loop.pc = "charge" => loop.tx = "landed"
  /\ \A m \in Miners : balance[m] <= earned[m]
  /\ \A m \in Miners :
       earned[m] + Due(m) <= paid[m] + balance[m] + repeated.charge[m]

LEMMA AmountsAreNat ==
  ASSUME ClaimTypeOK
  PROVE  /\ \A m \in Miners :
              /\ balance[m] \in Nat /\ earned[m] \in Nat /\ paid[m] \in Nat
              /\ repeated.charge[m] \in Nat
         /\ loop.amount \in Nat
         /\ \A m \in Miners : Due(m) \in Nat
  BY ClaimBoundAssumption DEF ClaimTypeOK, Amounts, Loop, Due

\* A step that moves no money keeps the invariant if it does not make a
\* payment due.
LEMMA NoMoneyMoves ==
  ASSUME PaidInv, ClaimTypeOK',
         UNCHANGED <<balance, earned, paid, repeated.charge>>,
         loop'.pc = "charge" => loop'.tx = "landed",
         \A m \in Miners : Due(m)' = Due(m) \/ Due(m)' = 0
  PROVE  PaidInv'
<1>1. ASSUME NEW m \in Miners
      PROVE  earned'[m] + Due(m)' <= paid'[m] + balance'[m] + repeated'.charge[m]
  BY AmountsAreNat DEF PaidInv
<1>2. QED
  BY <1>1 DEF PaidInv

LEMMA PaidInit == Init => PaidInv
<1> SUFFICES ASSUME Init PROVE PaidInv
  OBVIOUS
<1>1. ClaimTypeOK
  BY ClaimInitTyped
<1>2. \A m \in Miners : /\ balance[m] = 0 /\ earned[m] = 0 /\ paid[m] = 0
                        /\ repeated.charge[m] = 0
  BY DEF Init, Zero
<1>3. \A m \in Miners : Due(m) = 0
  BY DEF Init, LoopIdle, Due
<1>4. QED
  BY <1>1, <1>2, <1>3 DEF PaidInv, Init, LoopIdle

LEMMA EarnPaid ==
  ASSUME PaidInv, NEW m \in Miners, Earn(m) PROVE PaidInv'
<1>1. ClaimTypeOK /\ balance[m] <= earned[m]
  BY DEF PaidInv
<1>2. PICK a \in 1..(MaxEarned - earned[m]) :
        /\ earned' = [earned EXCEPT ![m] = @ + a]
        /\ balance' = [balance EXCEPT ![m] = @ + a]
  BY DEF Earn
<1>3. a \in Nat
  BY <1>1, AmountsAreNat, ClaimBoundAssumption
<1>4. /\ earned'[m] = earned[m] + a /\ balance'[m] = balance[m] + a
      /\ \A n \in Miners \ {m} : earned'[n] = earned[n] /\ balance'[n] = balance[n]
  BY <1>1, <1>2 DEF ClaimTypeOK
<1>5. repeated' = repeated /\ \A n \in Miners : Due(n)' = Due(n) /\ paid'[n] = paid[n]
  BY DEF Earn, Due, ledgerVars, lostVars
<1>6. ASSUME NEW n \in Miners
      PROVE  /\ balance'[n] <= earned'[n]
             /\ earned'[n] + Due(n)' <= paid'[n] + balance'[n] + repeated'.charge[n]
  BY <1>1, <1>3, <1>4, <1>5, AmountsAreNat DEF PaidInv
<1>7. QED
  BY <1>1, <1>6, EarnTyped DEF PaidInv, Earn

LEMMA LandPaid ==
  ASSUME PaidInv, LoopTxLands \/ \E m \in Miners : StrayTxLands(m)
  PROVE  PaidInv'
<1>1. ClaimTypeOK /\ ClaimTypeOK'
  BY LandingTyped DEF PaidInv
<1>2. CASE LoopTxLands
  <2>1. loop.miner \in Miners
    BY <1>1, <1>2 DEF LoopTxLands, ClaimTypeOK
  <2>2. /\ paid'[loop.miner] = paid[loop.miner] + loop.amount
        /\ \A n \in Miners \ {loop.miner} : paid'[n] = paid[n]
        /\ UNCHANGED <<balance, earned, repeated>>
    BY <1>1, <1>2, <2>1 DEF LoopTxLands, Land, LoopTx, ClaimTypeOK, dbVars, lostVars
  <2>3. \A n \in Miners :
          /\ n = loop.miner => Due(n) = 0 /\ Due(n)' = loop.amount
          /\ n # loop.miner => Due(n)' = 0
    BY <1>1, <1>2 DEF LoopTxLands, Due, ClaimTypeOK, Loop
  <2>4. ASSUME NEW n \in Miners
        PROVE  earned'[n] + Due(n)' <= paid'[n] + balance'[n] + repeated'.charge[n]
    <3>1. /\ balance[n] \in Nat /\ earned[n] \in Nat /\ paid[n] \in Nat
          /\ loop.amount \in Nat /\ Due(n) \in Nat /\ repeated.charge[n] \in Nat
          /\ earned[n] + Due(n) <= paid[n] + balance[n] + repeated.charge[n]
      BY <1>1, AmountsAreNat DEF PaidInv
    <3>2. CASE n = loop.miner
      BY <3>1, <3>2, <2>2, <2>3
    <3>3. CASE n # loop.miner
      BY <3>1, <3>3, <2>2, <2>3
    <3>4. QED
      BY <3>2, <3>3
  <2>5. loop'.pc = "wait"
    BY <1>1, <1>2 DEF LoopTxLands, ClaimTypeOK, Loop
  <2>6. QED
    BY <1>1, <2>2, <2>4, <2>5 DEF PaidInv
<1>3. ASSUME NEW m \in Miners, StrayTxLands(m) PROVE PaidInv'
  <2>1. stray[m] \in Tx
    BY <1>1, <1>3 DEF StrayTxLands, ClaimTypeOK
  <2>2. stray[m].amount \in Nat
    BY <2>1, ClaimBoundAssumption DEF Tx, Amounts
  <2>3. /\ paid'[m] = paid[m] + stray[m].amount
        /\ \A n \in Miners \ {m} : paid'[n] = paid[n]
        /\ UNCHANGED <<balance, earned, loop, repeated>>
    BY <1>1, <1>3 DEF StrayTxLands, Land, ClaimTypeOK, dbVars, lostVars
  <2>4. \A n \in Miners : Due(n)' = Due(n)
    BY <2>3 DEF Due
  <2>5. ASSUME NEW n \in Miners
        PROVE  earned'[n] + Due(n)' <= paid'[n] + balance'[n] + repeated'.charge[n]
    BY <1>1, <2>2, <2>3, <2>4, AmountsAreNat DEF PaidInv
  <2>6. QED
    BY <1>1, <2>3, <2>5 DEF PaidInv
<1>4. QED
  BY <1>2, <1>3

LEMMA RequestPaid ==
  ASSUME PaidInv, RequestNext PROVE PaidInv'
<1>1. ClaimTypeOK'
  BY RequestTyped DEF PaidInv
<1>2. UNCHANGED <<balance, earned, paid, loop, repeated>>
  BY DEF RequestNext, PostClaimV2, ClaimDirect, RequestStep, CheckQueue,
     CheckBalance, BalanceFails, CheckCooldown, CheckAta, Insert, Answer,
     dbVars, lostVars, ledgerVars
<1>3. QED
  BY <1>1, <1>2, NoMoneyMoves DEF PaidInv, Due

LEMMA ChargePaid ==
  ASSUME PaidInv, Charge PROVE PaidInv'
<1>1. ClaimTypeOK /\ ClaimTypeOK'
  BY LoopTyped DEF PaidInv, LoopNext
<1>2. loop.miner \in Miners /\ loop.tx = "landed" /\ loop.pc = "charge"
  BY <1>1 DEF Charge, PaidInv, ClaimTypeOK
<1>3. /\ balance'[loop.miner] = balance[loop.miner] - loop.amount
      /\ loop.amount <= balance[loop.miner]
      /\ \A n \in Miners \ {loop.miner} : balance'[n] = balance[n]
      /\ UNCHANGED <<earned, paid>>
  BY <1>1, <1>2 DEF Charge, ClaimTypeOK, ledgerVars
<1>4. /\ loop'.tx = "landed"
      /\ \A n \in Miners : balance'[n] <= earned'[n]
  <2>1. loop'.tx = "landed"
    BY <1>1, <1>2 DEF Charge, Answered, AnswerLost, ClaimTypeOK, Loop
  <2>2. ASSUME NEW n \in Miners PROVE balance'[n] <= earned'[n]
    BY <1>1, <1>2, <1>3, AmountsAreNat DEF PaidInv
  <2>3. QED
    BY <2>1, <2>2
<1>5. Due(loop.miner) = loop.amount
  BY <1>2 DEF Due
<1>6. \A n \in Miners \ {loop.miner} : Due(n) = 0 /\ Due(n)' = 0
  BY <1>1, <1>2 DEF Due, Charge, Answered, AnswerLost, ClaimTypeOK, Loop
<1>7. ASSUME NEW n \in Miners
      PROVE  earned'[n] + Due(n)' <= paid'[n] + balance'[n] + repeated'.charge[n]
  <2>1. /\ balance[n] \in Nat /\ earned[n] \in Nat /\ paid[n] \in Nat
        /\ repeated.charge[n] \in Nat /\ loop.amount \in Nat
        /\ earned[n] + Due(n) <= paid[n] + balance[n] + repeated.charge[n]
    BY <1>1, AmountsAreNat DEF PaidInv
  <2>2. CASE Answered("claimed")
    <3>1. Due(n)' = 0 /\ repeated' = repeated
      BY <1>1, <2>2 DEF Due, Answered, ClaimTypeOK, Loop, lostVars
    <3>2. QED
      BY <1>3, <1>5, <1>6, <2>1, <3>1
  <2>3. CASE /\ AnswerLost
             /\ repeated' = [repeated EXCEPT !.charge[loop.miner] = @ + loop.amount]
    <3>1. /\ n = loop.miner => Due(n)' = loop.amount
          /\ n # loop.miner => Due(n)' = 0
      BY <1>1, <1>2, <2>3 DEF Due, AnswerLost, ClaimTypeOK, Loop
    <3>2. /\ repeated'.charge[loop.miner] = repeated.charge[loop.miner] + loop.amount
          /\ n # loop.miner => repeated'.charge[n] = repeated.charge[n]
      BY <1>1, <1>2, <2>3 DEF ClaimTypeOK
    <3>3. CASE n = loop.miner
      BY <1>3, <1>5, <2>1, <3>1, <3>2, <3>3
    <3>4. CASE n # loop.miner
      BY <1>3, <1>6, <2>1, <3>1, <3>2, <3>4
    <3>5. QED
      BY <3>3, <3>4
  <2>4. QED
    BY <2>2, <2>3 DEF Charge
<1>8. QED
  BY <1>1, <1>4, <1>7 DEF PaidInv

LEMMA LoopPaid ==
  ASSUME PaidInv, LoopNext PROVE PaidInv'
<1>1. ClaimTypeOK /\ ClaimTypeOK'
  BY LoopTyped DEF PaidInv
<1>2. CASE Charge
  BY <1>2, ChargePaid
<1>3. CASE Finalized
  <2>1. UNCHANGED <<balance, earned, paid, repeated.charge>>
    BY <1>3 DEF Finalized, dbVars, lostVars, ledgerVars
  <2>2. loop'.tx = "landed" /\ \A m \in Miners : Due(m)' = Due(m)
    BY <1>1, <1>3 DEF Finalized, Due, ClaimTypeOK, Loop
  <2>3. QED
    BY <1>1, <2>1, <2>2, NoMoneyMoves
<1>4. CASE ~Charge /\ ~Finalized
  <2>1. UNCHANGED <<balance, earned, paid, repeated.charge>>
    <3>1. CASE AddClaimed \/ AddRow
      BY <1>1, <3>1 DEF AddClaimed, AddRow, Answered, lostVars, ledgerVars,
         ClaimTypeOK
    <3>2. CASE ~AddClaimed /\ ~AddRow
      BY <1>4, <3>2 DEF LoopNext, Pick, LoopCheckAta, LatestBlockhash,
         BlockhashFails, Send, SendFails, Expires, Fails, GiveUp, LookupPanics,
         Remove, dbVars, lostVars, ledgerVars
    <3>3. QED
      BY <3>1, <3>2
  <2>2. loop'.pc \notin {"wait", "charge"} \/ (loop'.pc = "wait" /\ loop'.tx = "flight")
    <3> USE <1>1 DEF ClaimTypeOK, Loop
    <3>1. ASSUME NEW m \in Miners, Pick(m) PROVE loop'.pc = "ata"
      BY <3>1 DEF Pick, LoopIdle
    <3>2. ASSUME LoopCheckAta PROVE loop'.pc \in {"hash", "idle"}
      <4>1. PICK c \in Creating(loop.miner) :
              \/ loop' = LoopIdle
              \/ loop' = [loop EXCEPT !.pc = "hash", !.creating = c]
        BY <3>2 DEF LoopCheckAta
      <4>2. CASE loop' = LoopIdle
        BY <4>2 DEF LoopIdle
      <4>3. CASE loop' = [loop EXCEPT !.pc = "hash", !.creating = c]
        <5>1. loop'.pc = "hash"
          BY <4>3
        <5>2. QED
          BY <5>1
      <4>4. QED
        BY <4>1, <4>2, <4>3
    <3>3. BlockhashFails \/ SendFails \/ Expires \/ Fails \/ Remove
            => loop'.pc = "idle"
      BY DEF BlockhashFails, SendFails, Expires, Fails, GiveUp, Remove, LoopIdle
    <3>4. /\ LatestBlockhash => loop'.pc = "send"
          /\ LookupPanics => loop'.pc = "dead"
          /\ AddClaimed => loop'.pc \in {"claimed", "row"}
          /\ AddRow => loop'.pc \in {"row", "remove"}
      BY DEF LatestBlockhash, LookupPanics, AddClaimed, AddRow, Answered,
         AnswerLost, LoopIdle
    <3>5. Send => loop'.pc = "wait" /\ loop'.tx = "flight"
      BY DEF Send
    <3>6. QED
      BY <1>4, <3>1, <3>2, <3>3, <3>4, <3>5 DEF LoopNext
  <2>3. \A m \in Miners : Due(m)' = 0
    BY <2>2 DEF Due
  <2>4. QED
    BY <1>1, <2>1, <2>2, <2>3, NoMoneyMoves
<1>5. QED
  BY <1>2, <1>3, <1>4

LEMMA RestartPaid ==
  ASSUME PaidInv, Restart PROVE PaidInv'
<1>1. ClaimTypeOK'
  BY RestartTyped DEF PaidInv
<1>2. UNCHANGED <<balance, earned, paid, repeated.charge>> /\ loop'.pc = "idle"
  BY DEF Restart, LoopIdle, dbVars, lostVars
<1>3. \A m \in Miners : Due(m)' = 0
  BY <1>2 DEF Due
<1>4. QED
  BY <1>1, <1>2, <1>3, NoMoneyMoves

LEMMA PaidKept == PaidInv /\ [Next]_vars => PaidInv'
<1> SUFFICES ASSUME PaidInv, [Next]_vars PROVE PaidInv'
  OBVIOUS
<1>1. CASE Next
  BY <1>1, EarnPaid, LandPaid, RequestPaid, LoopPaid, RestartPaid DEF Next
<1>2. CASE UNCHANGED vars
  BY <1>2 DEF vars, dbVars, lostVars, ledgerVars, PaidInv, ClaimTypeOK, Due
<1>3. QED
  BY <1>1, <1>2

\* Every variable keeps its type; no balance goes below zero, none exceeds what
\* was earned, and no more is paid out than MaxPaid allows.
THEOREM ClaimTypeCorrect == Spec => []ClaimTypeOK
<1>1. PaidInv => ClaimTypeOK
  BY DEF PaidInv
<1>2. QED
  BY PaidInit, PaidKept, <1>1, PTL DEF Spec

\* Whatever the requests, the chain, restarts and lost answers do, no miner is
\* charged more than the chain has paid for that miner, but for the charges
\* whose answer was lost. (claim_system.rs:154-195)
THEOREM ChargedIsPaid == Spec => []ChargedWasPaid
<1>1. PaidInv => ChargedWasPaid
  <2> SUFFICES ASSUME PaidInv, NEW m \in Miners PROVE ChargedOnce(m) <= paid[m]
    BY DEF ChargedWasPaid
  <2>1. /\ balance[m] \in Nat /\ earned[m] \in Nat /\ paid[m] \in Nat
        /\ repeated.charge[m] \in Nat /\ Due(m) \in Nat
        /\ earned[m] + Due(m) <= paid[m] + balance[m] + repeated.charge[m]
    BY AmountsAreNat DEF PaidInv
  <2>2. QED
    BY <2>1 DEF Charged, ChargedOnce
<1>2. QED
  BY PaidInit, PaidKept, <1>1, PTL DEF Spec

-----------------------------------------------------------------------------
(* The books of a claim, one table after the other.                         *)

SumCharged == SumFunction([m \in Miners |-> ChargedOnce(m)])
ClaimedOnce == claimed - repeated.claimed
RowsOnce == SumFunction(rows) - repeated.row

\* What the loop has booked in the table before pc's and not yet in this one.
Pending(pc) == IF loop.pc = pc THEN loop.amount ELSE 0

\* Inductive, with PaidInv: what is pending in a table is already in the one
\* before it.
OrderInv ==
  /\ ClaimedOnce + Pending("claimed") <= SumCharged
  /\ RowsOnce + Pending("row") <= ClaimedOnce

LEMMA OrderTyped ==
  ASSUME ClaimTypeOK
  PROVE  /\ SumCharged \in Int /\ SumFunction(rows) \in Nat
         /\ ClaimedOnce \in Int /\ RowsOnce \in Int
         /\ \A pc \in LoopPc : Pending(pc) \in Nat
<1>1. \A m \in Miners : [n \in Miners |-> ChargedOnce(n)][m] \in Int
  BY AmountsAreNat DEF Charged, ChargedOnce
<1>2. SumFunctionOnSet([n \in Miners |-> ChargedOnce(n)], Miners) \in Int
  BY <1>1, SumInt, ClaimMinersAssumption
<1>3. SumFunctionOnSet(rows, Miners) \in Nat
  BY SumNat, ClaimMinersAssumption DEF ClaimTypeOK
<1>4. SumFunction(rows) \in Nat
  BY <1>3 DEF SumFunction, ClaimTypeOK
<1>5. QED
  BY <1>2, <1>4, AmountsAreNat
     DEF SumCharged, SumFunction, ClaimedOnce, RowsOnce, Pending, ClaimTypeOK

LEMMA OrderInit == Init => OrderInv
<1> SUFFICES ASSUME Init PROVE OrderInv
  OBVIOUS
<1> DEFINE none == [m \in Miners |-> 0]
<1>1. SumFunctionOnSet(none, Miners) \in Nat
  <2>1. \A m \in Miners : none[m] \in Nat
    OBVIOUS
  <2> HIDE DEF none
  <2>2. QED
    BY <2>1, SumNat, ClaimMinersAssumption
<1>2. SumFunctionOnSet(none, Miners) = 0
  <2>1. \A m \in Miners : none[m] \in Nat /\ none[m] * 1 <= none[m] * 0
    OBVIOUS
  <2> HIDE DEF none
  <2>2. SumFunctionOnSet(none, Miners) * 1 <= SumFunctionOnSet(none, Miners) * 0
    BY <2>1, SumWithinPart, ClaimMinersAssumption
  <2>3. QED
    BY <1>1, <2>2
<1>3. rows = none /\ [m \in Miners |-> ChargedOnce(m)] = none
  BY DEF Init, Zero, Charged, ChargedOnce
<1>4. SumFunction(rows) = 0 /\ SumCharged = 0
  <2>1. DOMAIN none = Miners
    OBVIOUS
  <2> HIDE DEF none
  <2>2. QED
    BY <1>2, <1>3, <2>1 DEF SumFunction, SumCharged
<1>5. QED
  BY <1>4 DEF OrderInv, ClaimedOnce, RowsOnce, Pending, Init, LoopIdle

\* A step that books nothing that counts and makes nothing pending.
LEMMA NothingBooked ==
  ASSUME ClaimTypeOK, ClaimTypeOK', OrderInv,
         \A m \in Miners : ChargedOnce(m)' = ChargedOnce(m),
         UNCHANGED <<ClaimedOnce, RowsOnce>>,
         Pending("claimed")' \in {0, Pending("claimed")},
         Pending("row")' \in {0, Pending("row")}
  PROVE  OrderInv'
<1>1. [m \in Miners |-> ChargedOnce(m)]' = [m \in Miners |-> ChargedOnce(m)]
  OBVIOUS
<1>2. SumCharged' = SumCharged
  BY <1>1 DEF SumCharged
<1>3. /\ SumCharged \in Int /\ RowsOnce \in Int /\ ClaimedOnce \in Int
      /\ Pending("claimed") \in Nat /\ Pending("row") \in Nat
  BY OrderTyped DEF LoopPc
<1>4. QED
  BY <1>2, <1>3 DEF OrderInv

\* Where the answer to a booking is lost, what counts is as before.
LEMMA LostOrder ==
  ASSUME ClaimTypeOK, ClaimTypeOK', OrderInv, AnswerLost,
         Charge \/ AddClaimed \/ AddRow,
         \A m \in Miners : ChargedOnce(m)' = ChargedOnce(m),
         UNCHANGED <<ClaimedOnce, RowsOnce>>
  PROVE  OrderInv'
<1>1. loop'.pc = loop.pc /\ loop'.amount = loop.amount
  BY DEF AnswerLost, ClaimTypeOK, Loop
<1>2. QED
  BY <1>1, NothingBooked DEF Pending

LEMMA ChargeOrder ==
  ASSUME ClaimTypeOK, ClaimTypeOK', OrderInv, Charge PROVE OrderInv'
<1>1. loop.miner \in Miners /\ loop.pc = "charge" /\ loop.amount \in Nat
  BY AmountsAreNat DEF Charge, ClaimTypeOK
<1>2. /\ balance'[loop.miner] = balance[loop.miner] - loop.amount
      /\ \A n \in Miners \ {loop.miner} : balance'[n] = balance[n]
      /\ UNCHANGED <<earned, claimed, rows>>
  BY <1>1 DEF Charge, ClaimTypeOK
<1>3. CASE /\ AnswerLost
           /\ repeated' = [repeated EXCEPT !.charge[loop.miner] = @ + loop.amount]
  <2>1. /\ repeated'.charge[loop.miner] = repeated.charge[loop.miner] + loop.amount
        /\ \A n \in Miners \ {loop.miner} : repeated'.charge[n] = repeated.charge[n]
        /\ repeated'.claimed = repeated.claimed /\ repeated'.row = repeated.row
    BY <1>1, <1>3 DEF ClaimTypeOK
  <2>2. ASSUME NEW m \in Miners PROVE ChargedOnce(m)' = ChargedOnce(m)
    BY <1>1, <1>2, <2>1, AmountsAreNat DEF ChargedOnce, Charged
  <2>3. UNCHANGED <<ClaimedOnce, RowsOnce>>
    BY <1>2, <2>1 DEF ClaimedOnce, RowsOnce
  <2>4. QED
    BY <1>3, <2>2, <2>3, LostOrder
<1>4. CASE Answered("claimed")
  <2> DEFINE f == [m \in Miners |-> ChargedOnce(m)]
             g == [m \in Miners |-> ChargedOnce(m)']
             y == loop.miner
  <2>1. repeated' = repeated
    BY <1>4 DEF Answered, lostVars
  <2>2. /\ y \in Miners
        /\ \A m \in Miners : f[m] \in Int /\ g[m] \in Int
        /\ \A m \in Miners \ {y} : f[m] = g[m]
        /\ g[y] - f[y] = loop.amount
    BY <1>1, <1>2, <2>1, AmountsAreNat DEF ChargedOnce, Charged
  <2>3. /\ SumCharged = SumFunctionOnSet(f, Miners)
        /\ SumCharged' = SumFunctionOnSet(g, Miners)
    BY DEF SumCharged, SumFunction
  <2>4. SumCharged' = SumCharged + loop.amount
    <3> HIDE DEF f, g, y
    <3>1. SumFunctionOnSet(g, Miners) =
            SumFunctionOnSet(f, Miners) + (g[y] - f[y])
      BY <2>2, SumChange, ClaimMinersAssumption
    <3>2. QED
      BY <2>2, <2>3, <3>1
  <2>5. /\ Pending("claimed") = 0 /\ Pending("claimed")' = loop.amount
        /\ Pending("row") = 0 /\ Pending("row")' = 0
    BY <1>1, <1>4 DEF Answered, Pending, ClaimTypeOK, Loop
  <2>6. UNCHANGED <<ClaimedOnce, RowsOnce>>
    BY <1>2, <2>1 DEF ClaimedOnce, RowsOnce
  <2>7. SumCharged \in Int /\ ClaimedOnce \in Int /\ RowsOnce \in Int
    BY OrderTyped
  <2>8. QED
    BY <1>1, <2>4, <2>5, <2>6, <2>7 DEF OrderInv
<1>5. QED
  BY <1>3, <1>4 DEF Charge

LEMMA RowOrder ==
  ASSUME ClaimTypeOK, ClaimTypeOK', OrderInv, AddRow PROVE OrderInv'
<1>1. loop.miner \in Miners /\ loop.pc = "row" /\ loop.amount \in Nat
  BY AmountsAreNat DEF AddRow, ClaimTypeOK
<1>2. SumFunction(rows') = SumFunction(rows) + loop.amount
  <2> DEFINE y == loop.miner
  <2>1. /\ y \in Miners
        /\ \A m \in Miners : rows[m] \in Int /\ rows'[m] \in Int
        /\ \A m \in Miners \ {y} : rows[m] = rows'[m]
        /\ rows'[y] - rows[y] = loop.amount
    BY <1>1 DEF AddRow, ClaimTypeOK
  <2> HIDE DEF y
  <2>2. SumFunctionOnSet(rows', Miners) =
          SumFunctionOnSet(rows, Miners) + (rows'[y] - rows[y])
    BY <2>1, SumChange, ClaimMinersAssumption
  <2>3. /\ SumFunction(rows) = SumFunctionOnSet(rows, Miners)
        /\ SumFunction(rows') = SumFunctionOnSet(rows', Miners)
    BY DEF SumFunction, ClaimTypeOK
  <2>4. QED
    BY <2>1, <2>2, <2>3
<1>3. /\ SumCharged \in Int /\ ClaimedOnce \in Int /\ RowsOnce \in Int
      /\ SumFunction(rows) \in Nat
  BY OrderTyped
<1>4. CASE AnswerLost /\ repeated' = [repeated EXCEPT !.row = @ + loop.amount]
  <2>1. /\ repeated'.row = repeated.row + loop.amount
        /\ repeated'.claimed = repeated.claimed
        /\ repeated'.charge = repeated.charge /\ repeated.row \in Nat
    BY <1>4 DEF ClaimTypeOK
  <2>2. UNCHANGED <<ClaimedOnce, RowsOnce>>
    BY <1>1, <1>2, <1>3, <2>1 DEF AddRow, ClaimedOnce, RowsOnce
  <2>3. \A m \in Miners : ChargedOnce(m)' = ChargedOnce(m)
    BY <2>1 DEF AddRow, ChargedOnce, Charged
  <2>4. QED
    BY <1>4, <2>2, <2>3, LostOrder
<1>5. CASE Answered("remove")
  <2>1. repeated' = repeated
    BY <1>5 DEF Answered, lostVars
  <2>2. SumCharged' = SumCharged /\ ClaimedOnce' = ClaimedOnce
    BY <2>1 DEF SumCharged, ChargedOnce, Charged, ClaimedOnce, AddRow
  <2>3. RowsOnce' = RowsOnce + loop.amount
    <3>1. repeated.row \in Nat
      BY DEF ClaimTypeOK
    <3>2. QED
      BY <1>1, <1>2, <1>3, <2>1, <3>1 DEF RowsOnce
  <2>4. /\ Pending("claimed") = 0 /\ Pending("claimed")' = 0
        /\ Pending("row") = loop.amount /\ Pending("row")' = 0
    BY <1>1, <1>5 DEF Answered, Pending, ClaimTypeOK, Loop
  <2>5. QED
    BY <1>1, <1>3, <2>2, <2>3, <2>4 DEF OrderInv
<1>6. QED
  BY <1>4, <1>5 DEF AddRow

LEMMA ClaimedOrder ==
  ASSUME ClaimTypeOK, ClaimTypeOK', OrderInv, AddClaimed PROVE OrderInv'
<1>1. /\ claimed' = claimed + loop.amount /\ loop.pc = "claimed"
      /\ claimed \in Nat /\ loop.amount \in Nat /\ repeated.claimed \in Nat
  BY AmountsAreNat DEF AddClaimed, ClaimTypeOK
<1>2. SumCharged \in Int /\ ClaimedOnce \in Int /\ RowsOnce \in Int
  BY OrderTyped
<1>3. CASE AnswerLost /\ repeated' = [repeated EXCEPT !.claimed = @ + loop.amount]
  <2>1. /\ repeated'.claimed = repeated.claimed + loop.amount
        /\ repeated'.row = repeated.row /\ repeated'.charge = repeated.charge
    BY <1>3 DEF ClaimTypeOK
  <2>2. UNCHANGED <<ClaimedOnce, RowsOnce>>
    BY <1>1, <2>1 DEF AddClaimed, ClaimedOnce, RowsOnce
  <2>3. \A m \in Miners : ChargedOnce(m)' = ChargedOnce(m)
    BY <2>1 DEF AddClaimed, ChargedOnce, Charged
  <2>4. QED
    BY <1>3, <2>2, <2>3, LostOrder
<1>4. CASE Answered("row")
  <2>1. repeated' = repeated
    BY <1>4 DEF Answered, lostVars
  <2>2. SumCharged' = SumCharged /\ RowsOnce' = RowsOnce
    BY <2>1 DEF SumCharged, ChargedOnce, Charged, RowsOnce, AddClaimed
  <2>3. ClaimedOnce' = ClaimedOnce + loop.amount
    BY <1>1, <2>1 DEF ClaimedOnce
  <2>4. /\ Pending("claimed") = loop.amount /\ Pending("claimed")' = 0
        /\ Pending("row") = 0 /\ Pending("row")' = loop.amount
    BY <1>1, <1>4 DEF Answered, Pending, ClaimTypeOK, Loop
  <2>5. QED
    BY <1>1, <1>2, <2>2, <2>3, <2>4 DEF OrderInv
<1>5. QED
  BY <1>3, <1>4 DEF AddClaimed

LEMMA OrderKept == PaidInv /\ OrderInv /\ [Next]_vars => OrderInv'
<1> SUFFICES ASSUME PaidInv, OrderInv, [Next]_vars PROVE OrderInv'
  OBVIOUS
<1>1. ClaimTypeOK /\ ClaimTypeOK'
  BY PaidKept DEF PaidInv
<1>2. ASSUME NEW m \in Miners, Earn(m) PROVE OrderInv'
  <2>1. PICK a \in 1..(MaxEarned - earned[m]) :
          /\ earned' = [earned EXCEPT ![m] = @ + a]
          /\ balance' = [balance EXCEPT ![m] = @ + a]
    BY <1>2 DEF Earn
  <2>2. a \in Int
    BY <1>1, AmountsAreNat, ClaimBoundAssumption
  <2>3. \A n \in Miners : ChargedOnce(n)' = ChargedOnce(n)
    BY <1>1, <1>2, <2>1, <2>2, AmountsAreNat
       DEF Earn, Charged, ChargedOnce, ClaimTypeOK, lostVars
  <2>4. QED
    BY <1>1, <1>2, <2>3, NothingBooked DEF Earn, Pending, ClaimedOnce, RowsOnce, lostVars
<1>3. ASSUME NEW m \in Miners, StrayTxLands(m) PROVE OrderInv'
  BY <1>1, <1>3, NothingBooked DEF StrayTxLands, Charged, ChargedOnce, ClaimedOnce,
     RowsOnce, Pending, dbVars, lostVars
<1>4. CASE LoopTxLands
  <2>1. loop'.pc = loop.pc /\ loop'.amount = loop.amount
    BY <1>1, <1>4 DEF LoopTxLands, ClaimTypeOK, Loop
  <2>2. QED
    BY <1>1, <1>4, <2>1, NothingBooked DEF LoopTxLands, Charged, ChargedOnce, ClaimedOnce,
     RowsOnce, Pending, dbVars, lostVars
<1>5. CASE RequestNext
  <2>1. UNCHANGED <<balance, claimed, rows, earned, repeated, loop>>
    BY <1>5 DEF RequestNext, PostClaimV2, ClaimDirect, RequestStep, CheckQueue,
       CheckBalance, BalanceFails, CheckCooldown, CheckAta, Insert, Answer,
       dbVars, lostVars
  <2>2. QED
    BY <1>1, <2>1, NothingBooked DEF Charged, ChargedOnce, ClaimedOnce,
     RowsOnce, Pending
<1>6. CASE Charge
  BY <1>1, <1>6, ChargeOrder
<1>7. CASE AddClaimed
  BY <1>1, <1>7, ClaimedOrder
<1>8. CASE AddRow
  BY <1>1, <1>8, RowOrder
<1>9. CASE Restart \/ (LoopNext /\ ~Charge /\ ~AddClaimed /\ ~AddRow)
  <2>1. UNCHANGED <<balance, claimed, rows, earned, repeated>>
    BY <1>9 DEF Restart, LoopNext, Pick, LoopCheckAta, LatestBlockhash,
       BlockhashFails, Send, SendFails, Expires, Fails, GiveUp, Finalized,
       LookupPanics, Remove, dbVars, lostVars
  <2>2. loop'.pc \notin {"claimed", "row"}
    <3>1. CASE Restart \/ BlockhashFails \/ SendFails \/ Expires \/ Fails
               \/ Remove
      <4>1. loop' = LoopIdle
        BY <3>1 DEF Restart, BlockhashFails, SendFails, Expires, Fails, GiveUp,
           Remove
      <4>2. QED
        BY <4>1 DEF LoopIdle
    <3>2. CASE LookupPanics \/ \E m \in Miners : Pick(m)
      BY <3>2 DEF LookupPanics, Pick, LoopIdle
    <3>3. CASE LoopCheckAta
      <4>1. PICK c \in Creating(loop.miner) :
              \/ loop' = LoopIdle
              \/ loop' = [loop EXCEPT !.pc = "hash", !.creating = c]
        BY <3>3 DEF LoopCheckAta
      <4>2. loop \in Loop
        BY <1>1 DEF ClaimTypeOK
      <4>3. CASE loop' = LoopIdle
        BY <4>3 DEF LoopIdle
      <4>4. CASE loop' = [loop EXCEPT !.pc = "hash", !.creating = c]
        BY <4>2, <4>4 DEF Loop
      <4>5. QED
        BY <4>1, <4>3, <4>4
    <3>4. CASE LatestBlockhash \/ Send \/ Finalized
      BY <1>1, <3>4 DEF LatestBlockhash, Send, Finalized, ClaimTypeOK, Loop
    <3>5. QED
      BY <1>9, <3>1, <3>2, <3>3, <3>4 DEF LoopNext
  <2>3. QED
    BY <1>1, <2>1, <2>2, NothingBooked DEF Charged, ChargedOnce, ClaimedOnce,
     RowsOnce, Pending
<1>10. CASE UNCHANGED vars
  BY <1>1, <1>10, NothingBooked DEF vars, dbVars, lostVars, Charged, ChargedOnce, ClaimedOnce,
     RowsOnce, Pending
<1>11. QED
  BY <1>2, <1>3, <1>4, <1>5, <1>6, <1>7, <1>8, <1>9, <1>10 DEF Next

\* Wherever a restart or a panic cuts a claim off, the pool's claimed_rewards
\* are at most what all miners together were charged, and the claims on record
\* at most the claimed_rewards, each without what its own lost answers booked.
\* (claim_system.rs:182-241)
THEOREM BooksAlwaysInOrder == Spec => []BooksInOrder
<1>1. PaidInv /\ OrderInv => BooksInOrder
  <2> SUFFICES ASSUME PaidInv, OrderInv PROVE BooksInOrder
    OBVIOUS
  <2>1. ClaimTypeOK
    BY DEF PaidInv
  <2>2. /\ SumCharged \in Int /\ RowsOnce \in Int /\ ClaimedOnce \in Int
        /\ Pending("claimed") \in Nat /\ Pending("row") \in Nat
    BY <2>1, OrderTyped DEF LoopPc
  <2>3. ClaimedOnce <= SumCharged /\ RowsOnce <= ClaimedOnce
    BY <2>2 DEF OrderInv
  <2>4. QED
    BY <2>3 DEF BooksInOrder, SumCharged, ClaimedOnce, RowsOnce
<1>2. Init => PaidInv /\ OrderInv
  BY PaidInit, OrderInit
<1>3. PaidInv /\ OrderInv /\ [Next]_vars => (PaidInv /\ OrderInv)'
  BY PaidKept, OrderKept
<1>4. QED
  BY <1>1, <1>2, <1>3, PTL DEF Spec

-----------------------------------------------------------------------------
(* With post_claim_v2 alone, and one request of a miner at a time, a claim   *)
(* that is accepted can be charged.                                          *)

\* Inductive, with ClaimTypeOK.  A request that has passed the queue keeps its
\* miner out of it, so that nothing is charged to that miner before the
\* request is answered; and a claim stays in the queue, and covered by the
\* balance, until it is charged.
OneEach ==
  /\ IsFiniteSet(requests)
  /\ \A r, q \in requests : r.miner = q.miner => r = q
  /\ \A r \in requests : r.kind = "v2"
RequestsCovered ==
  \A r \in requests :
    /\ r.pc # "queue" => queue[r.miner] = None
    /\ r.pc \in {"cooldown", "ata", "insert"} => r.amount <= balance[r.miner]
LoopHoldsClaim ==
  loop.pc \notin {"idle", "dead"} =>
    /\ queue[loop.miner] # None
    /\ loop.amount = queue[loop.miner].amount
\* The balance has been charged for the claim of the loop.
Booked == \/ loop.pc = "charge" /\ loop.again
          \/ loop.pc \in {"claimed", "row", "remove"}
QueueCovered ==
  \A m \in Miners :
    queue[m] # None =>
      \/ queue[m].amount <= balance[m]
      \/ loop.miner = m /\ Booked
OneInv == OneEach /\ RequestsCovered /\ LoopHoldsClaim /\ QueueCovered

LEMMA OneInit == Init => OneInv
  BY FS_EmptySet
     DEF Init, OneInv, OneEach, RequestsCovered, LoopHoldsClaim, QueueCovered, Booked,
         LoopIdle, NoClaims

\* A new request is the only one of its miner.
LEMMA OnePost ==
  ASSUME MaxRequests = 1, Endpoints = {"v2"}, ClaimTypeOK, OneInv,
         NEW m \in Miners, PostClaimV2(m) \/ ClaimDirect(m)
  PROVE  OneInv'
<1>1. PostClaimV2(m)
  BY DEF ClaimDirect
<1>2. PICK a \in Amounts :
        requests' = requests \cup {[kind |-> "v2", miner |-> m,
                                    amount |-> a, pc |-> "queue"]}
  BY <1>1 DEF PostClaimV2
<1>3. RequestsOf(m) = {}
  <2>1. IsFiniteSet(RequestsOf(m))
    BY FS_Subset DEF OneInv, OneEach, RequestsOf
  <2>2. Cardinality(RequestsOf(m)) = 0
    BY <1>1, <2>1, FS_CardinalityType DEF PostClaimV2
  <2>3. QED
    BY <2>1, <2>2, FS_EmptySet
<1>4. OneEach'
  <2>1. IsFiniteSet(requests')
    BY <1>2, FS_AddElement DEF OneInv, OneEach
  <2>2. \A r \in requests : r.miner # m
    BY <1>3 DEF RequestsOf
  <2>3. QED
    BY <1>2, <2>1, <2>2 DEF OneInv, OneEach
<1>5. RequestsCovered'
  BY <1>1, <1>2 DEF PostClaimV2, OneInv, RequestsCovered, dbVars, lostVars
<1>6. UNCHANGED <<balance, queue, loop>>
  BY <1>1 DEF PostClaimV2, dbVars, lostVars
<1>7. QED
  BY <1>4, <1>5, <1>6 DEF OneInv, LoopHoldsClaim, QueueCovered, Booked

\* A step of a request r that leaves the queue alone, and ends in next or not
\* at all.
LEMMA OneAnswer ==
  ASSUME ClaimTypeOK, OneInv, NEW r \in requests, NEW cond, NEW next,
         Answer(r, cond, next),
         cond => /\ next.miner = r.miner /\ next.kind = r.kind
                 /\ next.pc # "queue" => queue[r.miner] = None
                 /\ next.pc \in {"cooldown", "ata", "insert"} =>
                      next.amount <= balance[r.miner]
  PROVE  OneInv'
<1>1. requests' = (requests \ {r}) \cup (IF cond THEN {next} ELSE {})
  BY DEF Answer
<1>2. UNCHANGED <<balance, queue, loop>>
  BY DEF Answer, dbVars, lostVars
<1>3. IsFiniteSet(requests')
  <2>1. IsFiniteSet(requests \ {r})
    BY FS_RemoveElement DEF OneInv, OneEach
  <2>2. QED
    BY <1>1, <2>1, FS_AddElement
<1>4. OneEach'
  BY <1>1, <1>3 DEF OneInv, OneEach
<1>5. RequestsCovered'
  BY <1>1, <1>2 DEF OneInv, RequestsCovered
<1>6. QED
  BY <1>2, <1>4, <1>5 DEF OneInv, LoopHoldsClaim, QueueCovered, Booked

LEMMA OneRequestStep ==
  ASSUME ClaimTypeOK, OneInv, NEW r \in requests, RequestStep(r)
  PROVE  OneInv'
<1> r \in Request /\ r.kind = "v2"
  BY DEF ClaimTypeOK, OneInv, OneEach
<1>1. CASE CheckQueue(r)
  BY <1>1, OneAnswer DEF CheckQueue, Request
<1>2. CASE CheckBalance(r)
  <2>1. Answer(r, r.amount <= balance[r.miner], [r EXCEPT !.pc = "cooldown"])
    BY <1>2 DEF CheckBalance
  <2>2. queue[r.miner] = None
    BY <1>2 DEF CheckBalance, OneInv, RequestsCovered
  <2>3. QED
    BY <2>1, <2>2, OneAnswer DEF Request
<1>3. CASE BalanceFails(r)
  BY <1>3, OneAnswer DEF BalanceFails
<1>4. CASE CheckCooldown(r)
  <2>1. PICK waits \in BOOLEAN : Answer(r, ~waits, [r EXCEPT !.pc = "ata"])
    BY <1>4 DEF CheckCooldown
  <2>2. queue[r.miner] = None /\ r.amount <= balance[r.miner]
    BY <1>4 DEF CheckCooldown, OneInv, RequestsCovered
  <2>3. QED
    BY <2>1, <2>2, OneAnswer DEF Request
<1>5. CASE CheckAta(r)
  <2>1. PICK c \in BOOLEAN :
          Answer(r, ~c \/ r.amount >= AtaFee, [r EXCEPT !.pc = "insert"])
    <3>1. PICK c \in BOOLEAN :
            Answer(r, ~c \/ r.amount >= AtaFee,
                   [r EXCEPT !.pc = "insert",
                      !.amount = IF c /\ r.kind = "direct" THEN @ - AtaFee
                                 ELSE @])
      BY <1>5 DEF CheckAta, Creating
    <3>2. [r EXCEPT !.pc = "insert",
             !.amount = IF c /\ r.kind = "direct" THEN @ - AtaFee ELSE @]
            = [r EXCEPT !.pc = "insert"]
      BY DEF Request
    <3>3. QED
      BY <3>1, <3>2
  <2>2. queue[r.miner] = None /\ r.amount <= balance[r.miner]
    BY <1>5 DEF CheckAta, OneInv, RequestsCovered
  <2>3. QED
    BY <2>1, <2>2, OneAnswer DEF Request
<1>6. CASE Insert(r)
  <2>1. /\ requests' = requests \ {r}
        /\ UNCHANGED <<balance, loop>>
        /\ r.miner \in Miners /\ r.amount <= balance[r.miner]
        /\ queue[r.miner] = None
    BY <1>6 DEF Insert, Request, OneInv, RequestsCovered, dbVars, lostVars
  <2>2. /\ queue'[r.miner].amount = r.amount
        /\ \A m \in Miners \ {r.miner} : queue'[m] = queue[m]
    BY <1>6 DEF Insert, ClaimTypeOK, Request
  <2>3. OneEach'
    BY <2>1, FS_RemoveElement DEF OneInv, OneEach
  <2>4. RequestsCovered'
    BY <2>1, <2>2 DEF OneInv, OneEach, RequestsCovered, ClaimTypeOK, Request
  <2>5. loop.pc \notin {"idle", "dead"} => loop.miner \in Miners \ {r.miner}
    BY <2>1 DEF OneInv, LoopHoldsClaim, ClaimTypeOK
  <2>6. LoopHoldsClaim' /\ QueueCovered'
    BY <2>1, <2>2, <2>5 DEF OneInv, LoopHoldsClaim, QueueCovered, Booked
  <2>7. QED
    BY <2>3, <2>4, <2>6 DEF OneInv
<1>7. QED
  BY <1>1, <1>2, <1>3, <1>4, <1>5, <1>6 DEF RequestStep

\* The loop moves on with the claim it has, or lets go of it unbooked.
LEMMA OneLoopMoves ==
  ASSUME OneInv, UNCHANGED <<balance, queue, requests>>,
         Booked => Booked',
         \/ loop'.pc \in {"idle", "dead"}
         \/ /\ loop.pc \notin {"idle", "dead"}
            /\ loop'.miner = loop.miner /\ loop'.amount = loop.amount
  PROVE  OneInv'
<1>1. LoopHoldsClaim'
  BY DEF OneInv, LoopHoldsClaim
<1>2. Booked => loop'.miner = loop.miner
  BY DEF Booked
<1>3. QueueCovered'
  BY <1>2 DEF OneInv, QueueCovered
<1>4. OneEach' /\ RequestsCovered'
  BY DEF OneInv, OneEach, RequestsCovered
<1>5. QED
  BY <1>1, <1>3, <1>4 DEF OneInv

\* The loop is done with its claim and takes it out of the queue.
LEMMA OneDequeue ==
  ASSUME ClaimTypeOK, OneInv, loop.miner \in Miners, Dequeue,
         UNCHANGED <<balance, requests>>, loop'.pc = "idle"
  PROVE  OneInv'
<1>1. /\ queue'[loop.miner] = None
      /\ \A m \in Miners \ {loop.miner} : queue'[m] = queue[m]
  BY DEF Dequeue, ClaimTypeOK
<1>2. LoopHoldsClaim'
  BY DEF LoopHoldsClaim
<1>3. QueueCovered'
  BY <1>1 DEF OneInv, QueueCovered
<1>4. OneEach' /\ RequestsCovered'
  BY <1>1 DEF OneInv, OneEach, RequestsCovered, ClaimTypeOK, Request
<1>5. QED
  BY <1>2, <1>3, <1>4 DEF OneInv

\* A balance grows.
LEMMA OneEarn ==
  ASSUME ClaimTypeOK, balance \in [Miners -> Nat], OneInv,
         NEW m \in Miners, Earn(m), balance[m] <= earned[m]
  PROVE  OneInv'
<1>1. PICK a \in 1..(MaxEarned - earned[m]) :
        balance' = [balance EXCEPT ![m] = @ + a]
  BY DEF Earn
<1>2. earned[m] \in Nat
  BY AmountsAreNat
<1>3. a \in Nat
  BY <1>2, ClaimBoundAssumption
<1>4. \A n \in Miners : balance[n] \in Nat /\ balance'[n] \in Nat
                        /\ balance[n] <= balance'[n]
  BY <1>1, <1>3
<1>5. UNCHANGED <<queue, requests, loop>>
  BY DEF Earn
<1>6. \A r \in requests : r.miner \in Miners /\ r.amount \in Nat
  BY ClaimBoundAssumption DEF ClaimTypeOK, Request, Amounts
<1>7. RequestsCovered'
  BY <1>4, <1>5, <1>6 DEF OneInv, RequestsCovered
<1>8. \A n \in Miners : queue[n] # None => queue[n].amount \in Nat
  BY ClaimBoundAssumption DEF ClaimTypeOK, Claim, Amounts
<1>9. QueueCovered'
  BY <1>4, <1>5, <1>8 DEF OneInv, QueueCovered, Booked
<1>10. OneEach' /\ LoopHoldsClaim'
  BY <1>5 DEF OneInv, OneEach, LoopHoldsClaim
<1>11. QED
  BY <1>7, <1>9, <1>10 DEF OneInv

LEMMA OneCharge ==
  ASSUME ClaimTypeOK, OneInv, Charge PROVE OneInv'
<1>1. loop.miner \in Miners /\ queue[loop.miner] # None
  BY DEF Charge, ClaimTypeOK, OneInv, LoopHoldsClaim
<1>2. /\ \A n \in Miners \ {loop.miner} : balance'[n] = balance[n]
      /\ UNCHANGED <<queue, requests>>
  BY <1>1 DEF Charge, ClaimTypeOK
<1>3. Booked' /\ loop'.miner = loop.miner /\ loop'.amount = loop.amount
  BY DEF Charge, Answered, AnswerLost, Booked, ClaimTypeOK, Loop
<1>4. \A r \in requests : r.pc # "queue" => r.miner \in Miners \ {loop.miner}
  BY <1>1 DEF OneInv, RequestsCovered, ClaimTypeOK, Request
<1>5. RequestsCovered'
  BY <1>2, <1>4 DEF OneInv, RequestsCovered
<1>6. QueueCovered'
  <2> SUFFICES ASSUME NEW n \in Miners, queue'[n] # None
               PROVE  \/ queue'[n].amount <= balance'[n]
                      \/ loop'.miner = n /\ Booked'
    BY DEF QueueCovered
  <2>1. CASE n = loop.miner
    BY <1>3, <2>1
  <2>2. CASE n # loop.miner
    <3>1. queue[n].amount <= balance[n]
      BY <1>2, <2>2 DEF OneInv, QueueCovered
    <3>2. QED
      BY <1>2, <2>2, <3>1
  <2>3. QED
    BY <2>1, <2>2
<1>7. OneEach' /\ LoopHoldsClaim'
  <2>1. loop.amount = queue[loop.miner].amount
    BY DEF Charge, OneInv, LoopHoldsClaim
  <2>2. QED
    BY <1>1, <1>2, <1>3, <2>1 DEF OneInv, OneEach, LoopHoldsClaim
<1>8. QED
  BY <1>5, <1>6, <1>7 DEF OneInv

LEMMA OneLoop ==
  ASSUME ClaimTypeOK, OneInv, LoopNext PROVE OneInv'
<1> USE DEF ClaimTypeOK, Loop, dbVars, lostVars, ledgerVars
<1>1. ASSUME NEW m \in Miners, Pick(m) PROVE OneInv'
  <2>1. /\ loop'.pc = "ata" /\ loop'.miner = m
        /\ loop'.amount = queue[m].amount /\ queue[m] # None
    BY <1>1 DEF Pick, LoopIdle
  <2>2. UNCHANGED <<balance, queue, requests>> /\ loop.pc = "idle"
    BY <1>1 DEF Pick
  <2>3. LoopHoldsClaim' /\ QueueCovered'
    BY <2>1, <2>2 DEF OneInv, LoopHoldsClaim, QueueCovered, Booked
  <2>4. QED
    BY <2>2, <2>3 DEF OneInv, OneEach, RequestsCovered
<1>2. CASE LoopCheckAta
  <2>1. loop.miner \in Miners /\ UNCHANGED <<balance, requests>> /\ loop.pc = "ata"
    BY <1>2 DEF LoopCheckAta
  <2>2. PICK c \in Creating(loop.miner) :
          \/ loop' = LoopIdle /\ Dequeue
          \/ loop' = [loop EXCEPT !.pc = "hash", !.creating = c] /\ UNCHANGED queue
    BY <1>2 DEF LoopCheckAta
  <2>3. CASE loop' = LoopIdle /\ Dequeue
    BY <2>1, <2>3, OneDequeue DEF LoopIdle
  <2>4. CASE loop' = [loop EXCEPT !.pc = "hash", !.creating = c] /\ UNCHANGED queue
    <3>1. loop'.miner = loop.miner /\ loop'.amount = loop.amount
      BY <2>4
    <3>2. QED
      BY <2>1, <2>4, <3>1, OneLoopMoves DEF Booked
  <2>5. QED
    BY <2>2, <2>3, <2>4
<1>3. CASE BlockhashFails \/ Remove
  BY <1>3, OneDequeue DEF BlockhashFails, Remove, LoopIdle
<1>4. CASE LatestBlockhash \/ Send \/ Finalized \/ AddClaimed \/ AddRow
  <2>1. loop'.miner = loop.miner /\ loop'.amount = loop.amount
    BY <1>4 DEF LatestBlockhash, Send, Finalized, AddClaimed, AddRow, Answered,
       AnswerLost
  <2>2. /\ UNCHANGED <<balance, queue, requests>>
        /\ loop.pc \notin {"idle", "dead"}
        /\ Booked => Booked'
    BY <1>4 DEF LatestBlockhash, Send, Finalized, AddClaimed, AddRow, Answered,
       AnswerLost, Booked
  <2>3. QED
    BY <2>1, <2>2, OneLoopMoves
<1>5. CASE SendFails \/ Expires \/ Fails
  <2>1. loop.pc \in {"send", "wait"} /\ UNCHANGED <<balance, queue, requests>>
    BY <1>5 DEF SendFails, Expires, Fails, GiveUp
  <2>2. loop'.pc = "idle"
    BY <1>5 DEF SendFails, Expires, Fails, GiveUp, LoopIdle
  <2>3. QED
    BY <2>1, <2>2, OneLoopMoves DEF Booked
<1>6. CASE LookupPanics
  BY <1>6, OneLoopMoves DEF LookupPanics, LoopIdle, Booked
<1>7. CASE Charge
  BY <1>7, OneCharge
<1>8. QED
  BY <1>1, <1>2, <1>3, <1>4, <1>5, <1>6, <1>7 DEF LoopNext

LEMMA OneLands ==
  ASSUME ClaimTypeOK, OneInv,
         LoopTxLands \/ \E m \in Miners : StrayTxLands(m)
  PROVE  OneInv'
<1>1. CASE LoopTxLands
  <2>1. /\ UNCHANGED <<balance, queue, requests>>
        /\ loop.pc = "wait" /\ loop'.pc = loop.pc
        /\ loop'.miner = loop.miner /\ loop'.amount = loop.amount
    BY <1>1 DEF LoopTxLands, ClaimTypeOK, Loop, dbVars, lostVars
  <2>2. QED
    BY <2>1, OneLoopMoves DEF Booked
<1>2. ASSUME NEW m \in Miners, StrayTxLands(m) PROVE OneInv'
  BY <1>2 DEF StrayTxLands, dbVars, lostVars, OneInv, OneEach, RequestsCovered,
     LoopHoldsClaim, QueueCovered, Booked
<1>3. QED
  BY <1>1, <1>2

LEMMA OneRestart ==
  ASSUME Restart PROVE OneInv'
  BY FS_EmptySet DEF Restart, NoClaims, LoopIdle, OneInv, OneEach,
     RequestsCovered, LoopHoldsClaim, QueueCovered, Booked

LEMMA OneKept ==
  ASSUME MaxRequests = 1, Endpoints = {"v2"}
  PROVE  PaidInv /\ OneInv /\ [Next]_vars => OneInv'
<1> SUFFICES ASSUME PaidInv, OneInv, [Next]_vars PROVE OneInv'
  OBVIOUS
<1>1. /\ ClaimTypeOK /\ balance \in [Miners -> Nat]
      /\ \A m \in Miners : balance[m] <= earned[m]
  BY ClaimBoundAssumption DEF PaidInv, ClaimTypeOK, Amounts
<1>2. CASE Next
  <2>1. CASE RequestNext
    BY <1>1, <2>1, OnePost, OneRequestStep DEF RequestNext
  <2>2. QED
    BY <1>1, <1>2, <2>1, OneEarn, OneLands, OneLoop, OneRestart DEF Next
<1>3. CASE UNCHANGED vars
  BY <1>3 DEF vars, dbVars, lostVars, OneInv, OneEach, RequestsCovered, LoopHoldsClaim,
     QueueCovered, Booked
<1>4. QED
  BY <1>2, <1>3

\* Where post_claim_v2 is the only endpoint and answers one request of a miner
\* at a time, every claim it accepts can be charged when it has been paid, for
\* any number of miners and across restarts, expired and late transactions.
\* Two requests at once break this (utils.rs:803-885), as does claim_direct.
THEOREM OneRequestNeverOverdraws ==
  ASSUME MaxRequests = 1, Endpoints = {"v2"}
  PROVE  Spec => []NeverOverdrawn
<1>1. PaidInv /\ OneInv => NeverOverdrawn
  BY DEF PaidInv, ClaimTypeOK, OneInv, LoopHoldsClaim, QueueCovered, Booked,
     NeverOverdrawn
<1>2. Init => PaidInv /\ OneInv
  BY PaidInit, OneInit
<1>3. PaidInv /\ OneInv /\ [Next]_vars => (PaidInv /\ OneInv)'
  BY PaidKept, OneKept
<1>4. QED
  BY <1>1, <1>2, <1>3, PTL DEF Spec
=============================================================================
