--------------------------- MODULE Commerce_proofs ---------------------------
(***************************************************************************)
(* Proofs about the domain flows: rows pay once, and splits are exact.     *)
(***************************************************************************)
EXTENDS Commerce, CommonTheorems

------------------------------------------------------------------------------
(* Splits.                                                                   *)

\* A share is a natural number, and not more than its weight says.
LEMMA ShareBound ==
  ASSUME NEW units \in Nat, NEW bps \in Nat
  PROVE  Share(units, bps) \in Nat /\ 10000 * Share(units, bps) <= units * bps
<1> DEFINE p == units * bps
<1>1. p \in Nat
  OBVIOUS
<1> HIDE DEF p
<1>2. p \div 10000 \in Nat /\ 10000 * (p \div 10000) <= p
  BY <1>1
<1>3. Share(units, bps) = p \div 10000
  BY DEF Share, p
<1>4. QED
  BY <1>2, <1>3 DEF p

\* A split by basis points neither creates nor loses a base unit, and no part
\* of it is negative, whatever the amount and the weights (splitByBps).
THEOREM SplitIsExact ==
  ASSUME NEW units \in Nat, NEW bps1 \in Nat, NEW bps2 \in Nat, bps1 + bps2 <= 10000
  PROVE  /\ Share(units, bps1) \in Nat /\ Share(units, bps2) \in Nat
         /\ Remainder(units, bps1, bps2) \in Nat
         /\ Share(units, bps1) + Share(units, bps2) + Remainder(units, bps1, bps2) = units
<1> DEFINE p1 == units * bps1
           p2 == units * bps2
           s1 == Share(units, bps1)
           s2 == Share(units, bps2)
<1>1. p1 \in Nat /\ p2 \in Nat
  OBVIOUS
<1>2. p1 + p2 <= units * 10000
  <2>1. units * bps1 + units * bps2 = units * (bps1 + bps2)
    OBVIOUS
  <2>2. \A x, y \in Nat : x <= y => units * x <= units * y
    OBVIOUS
  <2>3. QED
    BY <2>1, <2>2
<1>3. s1 \in Nat /\ 10000 * s1 <= p1
  BY ShareBound
<1>4. s2 \in Nat /\ 10000 * s2 <= p2
  BY ShareBound
<1>5. Remainder(units, bps1, bps2) = units - s1 - s2
  BY DEF Remainder
<1> HIDE DEF p1, p2, s1, s2
<1>6. units - s1 - s2 \in Nat
  BY <1>1, <1>2, <1>3, <1>4
<1>7. QED
  BY <1>3, <1>4, <1>5, <1>6 DEF s1, s2

\* Only prices of at least 20 base units can be settled: below that the burn
\* share is zero, and the ledger refuses a movement of nothing.
THEOREM SettleableFrom20 ==
  ASSUME NEW units \in Nat
  PROVE  (/\ Share(units, Shop!DEFAULT_POLICY.treasury) > 0
          /\ Share(units, Shop!DEFAULT_POLICY.burn) > 0
          /\ Remainder(units, Shop!DEFAULT_POLICY.treasury, Shop!DEFAULT_POLICY.burn) > 0)
         <=> units >= 20
BY DEF Share, Remainder, Shop!DEFAULT_POLICY, Shop!Share, Shop!Remainder

------------------------------------------------------------------------------
(* What a posting does to the ledger.                                        *)

\* The ledger gains one transaction.
Gains(type, ref) ==
  /\ DOMAIN txns' = DOMAIN txns \union {Len(txns) + 1}
  /\ Len(txns) + 1 \notin DOMAIN txns
  /\ \A t \in DOMAIN txns : txns'[t] = txns[t]
  /\ txns'[Len(txns) + 1].type = type
  /\ txns'[Len(txns) + 1].ref = ref
  /\ IsSeq(txns)'

\* A transaction that is appended leaves the others alone.
LEMMA AppendGains ==
  ASSUME IsSeq(txns), NEW x, txns' = Append(txns, x)
  PROVE  Gains(x.type, x.ref)
BY AppendFacts DEF Gains

\* A posting of any flow adds one transaction.
LEMMA PostGains ==
  ASSUME IsSeq(txns), NEW type, NEW ref, NEW key, NEW from, NEW credits,
         \/ Shop!Post(type, ref, key, from, credits)
         \/ Vault!Post(type, ref, key, from, credits)
         \/ Arena!Post(type, ref, key, from, credits)
  PROVE  Gains(type, ref)
<1>1. PICK amount :
          txns' = Append(txns, [type |-> type, ref |-> ref, key |-> key, amount |-> amount])
  BY DEF Shop!Post, Vault!Post, Arena!Post
<1> DEFINE x == [type |-> type, ref |-> ref, key |-> key, amount |-> amount]
<1>2. x.type = type /\ x.ref = ref
  OBVIOUS
<1> HIDE DEF x
<1>3. txns' = Append(txns, x)
  BY <1>1 DEF x
<1>4. QED
  BY <1>2, <1>3, AppendGains

------------------------------------------------------------------------------
(* Escrows are paid once.                                                    *)

Payouts == {"escrow_release", "escrow_refund"}

\* How a step of the flows touches the escrows and their payouts.
OtherTxn == \/ UNCHANGED txns
            \/ \E type, ref : type \notin Payouts /\ Gains(type, ref)

OpensEscrow ==
  \E row : /\ "status" \in DOMAIN row /\ row.status = "active"
           /\ escrows' = Append(escrows, row)
           /\ OtherTxn

Disputes ==
  /\ UNCHANGED txns
  /\ \E e \in DOMAIN escrows :
       /\ escrows[e].status \in Shop!Open
       /\ escrows' = [escrows EXCEPT ![e].status = "disputed"]

PaysOut ==
  \E e \in DOMAIN escrows, type \in Payouts, status \in {"released", "refunded"} :
    /\ escrows[e].status \in Shop!Open
    /\ Gains(type, e)
    /\ escrows' = [escrows EXCEPT ![e].status = status]

EscrowInv ==
  /\ IsSeq(txns)
  /\ IsSeq(escrows)
  /\ \A e \in DOMAIN escrows : "status" \in DOMAIN escrows[e]
  /\ Shop!PaidOnce
  /\ \A t \in DOMAIN txns : txns[t].type \in Payouts => txns[t].ref \in DOMAIN escrows

\* Every step is one of these for the escrows.
LEMMA EscrowSteps ==
  ASSUME IsSeq(txns), [Next]_vars
  PROVE  OpensEscrow \/ Disputes \/ PaysOut \/ (UNCHANGED escrows /\ OtherTxn)
<1>1. CASE Shop!Next
  <2>1. ASSUME NEW buyer, NEW amount, NEW key, Shop!Purchase(buyer, amount, key)
        PROVE  OpensEscrow
    BY <2>1, PostGains DEF Shop!Purchase, Shop!NewEscrow, OpensEscrow, OtherTxn, Payouts
  <2>2. ASSUME NEW e \in DOMAIN escrows, Shop!Settle(e) \/ Shop!Refund(e)
        PROVE  PaysOut
    BY <2>2, PostGains DEF Shop!Settle, Shop!Refund, Shop!SetStatus, PaysOut, Payouts
  <2>3. ASSUME NEW e \in DOMAIN escrows, Shop!Dispute(e)
        PROVE  Disputes
    BY <2>3 DEF Shop!Dispute, Shop!SetStatus, Shop!Open, Disputes
  <2>4. ASSUME NEW amount, NEW key, Shop!ReleasePending(amount, key)
        PROVE  UNCHANGED escrows /\ OtherTxn
    BY <2>4, PostGains DEF Shop!ReleasePending, OtherTxn, Payouts
  <2>5. QED
    BY <1>1, <2>1, <2>2, <2>3, <2>4 DEF Shop!Next
<1>2. CASE Vault!Next /\ UNCHANGED escrows
  <2>1. ASSUME NEW owner, NEW amount, NEW key, Vault!Stake(owner, amount, key)
        PROVE  OtherTxn
    BY <2>1, PostGains DEF Vault!Stake, OtherTxn, Payouts
  <2>2. ASSUME NEW i, Vault!RequestUnstake(i) \/ Vault!Elapse(i) \/ Vault!CompleteUnstake(i)
        PROVE  OtherTxn
    BY <2>2, PostGains DEF Vault!RequestUnstake, Vault!Elapse, Vault!CompleteUnstake, OtherTxn, Payouts
  <2>3. QED
    BY <1>2, <2>1, <2>2 DEF Vault!Next
<1>3. CASE Arena!Next /\ UNCHANGED escrows
  <2>1. ASSUME NEW t, NEW player, NEW fee, Arena!Join(t, player, fee)
        PROVE  OtherTxn
    BY <2>1, PostGains DEF Arena!Join, OtherTxn, Payouts
  <2>2. ASSUME NEW t, NEW winner, Arena!ReadPool(t, winner)
        PROVE  OtherTxn
    BY <2>2 DEF Arena!ReadPool, OtherTxn
  <2>3. ASSUME NEW r, Arena!PayPrizes(r) \/ Arena!Abandon(r)
        PROVE  OtherTxn
    BY <2>3, PostGains DEF Arena!PayPrizes, Arena!Abandon, OtherTxn, Payouts
  <2>4. QED
    BY <1>3, <2>1, <2>2, <2>3 DEF Arena!Next
<1>4. CASE UNCHANGED vars
  BY <1>4 DEF vars, OtherTxn
<1>5. QED
  BY <1>1, <1>2, <1>3, <1>4 DEF Next

\* Every step keeps the payouts in line with the rows.
LEMMA EscrowStep == EscrowInv /\ [Next]_vars => EscrowInv'
<1> SUFFICES ASSUME EscrowInv, [Next]_vars PROVE EscrowInv'
  OBVIOUS
<1>1. IsSeq(txns)' /\ DOMAIN txns \subseteq DOMAIN txns'
      /\ \A t \in DOMAIN txns : txns'[t] = txns[t]
  BY EscrowSteps DEF EscrowInv, OpensEscrow, Disputes, PaysOut, OtherTxn, Gains
<1>2. CASE OpensEscrow
  <2>1. PICK row : /\ "status" \in DOMAIN row /\ row.status = "active"
                   /\ escrows' = Append(escrows, row)
    BY <1>2 DEF OpensEscrow
  <2>2. OtherTxn
    BY <1>2 DEF OpensEscrow
  <2>3. /\ IsSeq(escrows)'
        /\ DOMAIN escrows' = DOMAIN escrows \union {Len(escrows) + 1}
        /\ Len(escrows) + 1 \notin DOMAIN escrows
        /\ \A e \in DOMAIN escrows : escrows'[e] = escrows[e]
        /\ escrows'[Len(escrows) + 1].status = "active"
        /\ "status" \in DOMAIN escrows'[Len(escrows) + 1]
    BY <2>1, AppendFacts DEF EscrowInv
  <2>4. \A t \in DOMAIN txns' : txns'[t].type \in Payouts => t \in DOMAIN txns
    BY <2>2 DEF OtherTxn, Gains
  <2>5. QED
    BY <1>1, <2>3, <2>4 DEF EscrowInv, Shop!PaidOnce, Shop!Paid, Shop!Payout, Shop!Open, Payouts
<1>3. CASE Disputes
  <2>1. PICK e \in DOMAIN escrows :
          /\ escrows[e].status \in Shop!Open
          /\ escrows' = [escrows EXCEPT ![e].status = "disputed"]
    BY <1>3 DEF Disputes
  <2>2. IsSeq(escrows)' /\ DOMAIN escrows' = DOMAIN escrows
    BY <2>1, ExceptFacts DEF EscrowInv
  <2>3. \A d \in DOMAIN escrows : escrows'[d].status \in Shop!Open <=> escrows[d].status \in Shop!Open
    BY <2>1 DEF Shop!Open
  <2>4. QED
    BY <1>3, <1>1, <2>2, <2>3 DEF Disputes, EscrowInv, Shop!PaidOnce, Shop!Paid, Shop!Payout
<1>4. CASE PaysOut
  <2>1. PICK e \in DOMAIN escrows, type \in Payouts, status \in {"released", "refunded"} :
          /\ escrows[e].status \in Shop!Open
          /\ Gains(type, e)
          /\ escrows' = [escrows EXCEPT ![e].status = status]
    BY <1>4 DEF PaysOut
  <2>2. IsSeq(escrows)' /\ DOMAIN escrows' = DOMAIN escrows
    BY <2>1, ExceptFacts DEF EscrowInv
  <2>3. /\ escrows'[e].status \notin Shop!Open
        /\ \A d \in DOMAIN escrows : d # e => escrows'[d] = escrows[d]
    BY <2>1 DEF EscrowInv, Shop!Open
  <2>4. ~\E t \in DOMAIN txns : txns[t].type \in Payouts /\ txns[t].ref = e
    BY <2>1 DEF EscrowInv, Shop!PaidOnce, Shop!Paid, Shop!Payout, Payouts
  <2>5. QED
    BY <1>1, <2>1, <2>2, <2>3, <2>4
    DEF EscrowInv, Shop!PaidOnce, Shop!Paid, Shop!Payout, Payouts, Gains
<1>5. CASE UNCHANGED escrows /\ OtherTxn
  <2>1. \A t \in DOMAIN txns' : txns'[t].type \in Payouts => t \in DOMAIN txns
    BY <1>5 DEF OtherTxn, Gains
  <2>2. QED
    BY <1>1, <1>5, <2>1 DEF EscrowInv, Shop!PaidOnce, Shop!Paid, Shop!Payout, Payouts
<1>6. QED
  BY <1>2, <1>3, <1>4, <1>5, EscrowSteps DEF EscrowInv

\* Every escrow is paid out by one transaction, exactly when it is closed,
\* whatever the users, prices, keys and the length of the ledger.
THEOREM EscrowsPayOnce == Spec => []EscrowPaidOnce
<1>1. Init => EscrowInv
  BY DEF Init, EscrowInv, IsSeq, Shop!PaidOnce
<1>2. EscrowInv => EscrowPaidOnce
  BY DEF EscrowInv, EscrowPaidOnce
<1>3. QED
  BY <1>1, <1>2, EscrowStep, PTL DEF Spec

------------------------------------------------------------------------------
(* Stakes are released once.                                                 *)

\* How a step of the flows touches the stakes and their releases.
NoUnlock == \/ UNCHANGED txns
            \/ \E type, ref : type # "staking_unlock" /\ Gains(type, ref)

OpensStake ==
  \E row : /\ "status" \in DOMAIN row /\ row.status = "active"
           /\ stakes' = Append(stakes, row)
           /\ NoUnlock

Waits ==
  /\ UNCHANGED txns
  /\ \E i \in DOMAIN stakes :
       \/ /\ stakes[i].status = "active"
          /\ stakes' = [stakes EXCEPT ![i].status = "cooldown"]
       \/ stakes' = [stakes EXCEPT ![i].elapsed = TRUE]

ReleasesStake ==
  \E i \in DOMAIN stakes :
    /\ stakes[i].status = "cooldown"
    /\ Gains("staking_unlock", i)
    /\ stakes' = [stakes EXCEPT ![i].status = "released"]

StakeInv ==
  /\ IsSeq(txns)
  /\ IsSeq(stakes)
  /\ \A i \in DOMAIN stakes : "status" \in DOMAIN stakes[i]
  /\ Vault!ReleasedOnce
  /\ \A t \in DOMAIN txns : txns[t].type = "staking_unlock" => txns[t].ref \in DOMAIN stakes

\* Every step is one of these for the stakes.
LEMMA StakeSteps ==
  ASSUME IsSeq(txns), [Next]_vars
  PROVE  OpensStake \/ Waits \/ ReleasesStake \/ (UNCHANGED stakes /\ NoUnlock)
<1>1. CASE Shop!Next /\ UNCHANGED stakes
  <2>1. ASSUME NEW buyer, NEW amount, NEW key, Shop!Purchase(buyer, amount, key)
        PROVE  NoUnlock
    BY <2>1, PostGains DEF Shop!Purchase, NoUnlock
  <2>2. ASSUME NEW e, Shop!Settle(e) \/ Shop!Refund(e) \/ Shop!Dispute(e)
        PROVE  NoUnlock
    BY <2>2, PostGains DEF Shop!Settle, Shop!Refund, Shop!Dispute, NoUnlock
  <2>3. ASSUME NEW amount, NEW key, Shop!ReleasePending(amount, key)
        PROVE  NoUnlock
    BY <2>3, PostGains DEF Shop!ReleasePending, NoUnlock
  <2>4. QED
    BY <1>1, <2>1, <2>2, <2>3 DEF Shop!Next
<1>2. CASE Vault!Next
  <2>1. ASSUME NEW owner, NEW amount, NEW key, Vault!Stake(owner, amount, key)
        PROVE  OpensStake
    BY <2>1, PostGains DEF Vault!Stake, Vault!NewStake, OpensStake, NoUnlock
  <2>2. ASSUME NEW i \in DOMAIN stakes, Vault!RequestUnstake(i) \/ Vault!Elapse(i)
        PROVE  Waits
    BY <2>2 DEF Vault!RequestUnstake, Vault!Elapse, Waits
  <2>3. ASSUME NEW i \in DOMAIN stakes, Vault!CompleteUnstake(i)
        PROVE  ReleasesStake
    BY <2>3, PostGains DEF Vault!CompleteUnstake, ReleasesStake
  <2>4. QED
    BY <1>2, <2>1, <2>2, <2>3 DEF Vault!Next
<1>3. CASE Arena!Next /\ UNCHANGED stakes
  <2>1. ASSUME NEW t, NEW player, NEW fee, Arena!Join(t, player, fee)
        PROVE  NoUnlock
    BY <2>1, PostGains DEF Arena!Join, NoUnlock
  <2>2. ASSUME NEW t, NEW winner, Arena!ReadPool(t, winner)
        PROVE  NoUnlock
    BY <2>2 DEF Arena!ReadPool, NoUnlock
  <2>3. ASSUME NEW r, Arena!PayPrizes(r) \/ Arena!Abandon(r)
        PROVE  NoUnlock
    BY <2>3, PostGains DEF Arena!PayPrizes, Arena!Abandon, NoUnlock
  <2>4. QED
    BY <1>3, <2>1, <2>2, <2>3 DEF Arena!Next
<1>4. CASE UNCHANGED vars
  BY <1>4 DEF vars, NoUnlock
<1>5. QED
  BY <1>1, <1>2, <1>3, <1>4 DEF Next

\* Every step keeps the releases in line with the rows.
LEMMA StakeStep == StakeInv /\ [Next]_vars => StakeInv'
<1> SUFFICES ASSUME StakeInv, [Next]_vars PROVE StakeInv'
  OBVIOUS
<1>1. IsSeq(txns)' /\ DOMAIN txns \subseteq DOMAIN txns'
      /\ \A t \in DOMAIN txns : txns'[t] = txns[t]
  BY StakeSteps DEF StakeInv, OpensStake, Waits, ReleasesStake, NoUnlock, Gains
<1>2. CASE OpensStake
  <2>1. PICK row : /\ "status" \in DOMAIN row /\ row.status = "active"
                   /\ stakes' = Append(stakes, row)
    BY <1>2 DEF OpensStake
  <2>2. NoUnlock
    BY <1>2 DEF OpensStake
  <2>3. /\ IsSeq(stakes)'
        /\ DOMAIN stakes' = DOMAIN stakes \union {Len(stakes) + 1}
        /\ Len(stakes) + 1 \notin DOMAIN stakes
        /\ \A i \in DOMAIN stakes : stakes'[i] = stakes[i]
        /\ stakes'[Len(stakes) + 1].status = "active"
        /\ "status" \in DOMAIN stakes'[Len(stakes) + 1]
    BY <2>1, AppendFacts DEF StakeInv
  <2>4. \A t \in DOMAIN txns' : txns'[t].type = "staking_unlock" => t \in DOMAIN txns
    BY <2>2 DEF NoUnlock, Gains
  <2>5. QED
    BY <1>1, <2>3, <2>4 DEF StakeInv, Vault!ReleasedOnce, Vault!Unlocks
<1>3. CASE Waits
  <2>1. PICK i \in DOMAIN stakes :
          \/ /\ stakes[i].status = "active"
             /\ stakes' = [stakes EXCEPT ![i].status = "cooldown"]
          \/ stakes' = [stakes EXCEPT ![i].elapsed = TRUE]
    BY <1>3 DEF Waits
  <2>2. IsSeq(stakes)' /\ DOMAIN stakes' = DOMAIN stakes
    BY <2>1, ExceptFacts DEF StakeInv
  <2>3. \A j \in DOMAIN stakes :
          /\ stakes'[j].status = "released" <=> stakes[j].status = "released"
          /\ "status" \in DOMAIN stakes'[j]
    BY <2>1 DEF StakeInv
  <2>4. QED
    BY <1>3, <1>1, <2>2, <2>3 DEF Waits, StakeInv, Vault!ReleasedOnce, Vault!Unlocks
<1>4. CASE ReleasesStake
  <2>1. PICK i \in DOMAIN stakes :
          /\ stakes[i].status = "cooldown"
          /\ Gains("staking_unlock", i)
          /\ stakes' = [stakes EXCEPT ![i].status = "released"]
    BY <1>4 DEF ReleasesStake
  <2>2. IsSeq(stakes)' /\ DOMAIN stakes' = DOMAIN stakes
    BY <2>1, ExceptFacts DEF StakeInv
  <2>3. /\ stakes'[i].status = "released"
        /\ \A j \in DOMAIN stakes : j # i => stakes'[j] = stakes[j]
        /\ \A j \in DOMAIN stakes : "status" \in DOMAIN stakes'[j]
    BY <2>1 DEF StakeInv
  <2>4. ~\E t \in DOMAIN txns : txns[t].type = "staking_unlock" /\ txns[t].ref = i
    BY <2>1 DEF StakeInv, Vault!ReleasedOnce, Vault!Unlocks
  <2>5. QED
    BY <1>1, <2>1, <2>2, <2>3, <2>4 DEF StakeInv, Vault!ReleasedOnce, Vault!Unlocks, Gains
<1>5. CASE UNCHANGED stakes /\ NoUnlock
  <2>1. \A t \in DOMAIN txns' : txns'[t].type = "staking_unlock" => t \in DOMAIN txns
    BY <1>5 DEF NoUnlock, Gains
  <2>2. QED
    BY <1>1, <1>5, <2>1 DEF StakeInv, Vault!ReleasedOnce, Vault!Unlocks
<1>6. QED
  BY <1>2, <1>3, <1>4, <1>5, StakeSteps DEF StakeInv

\* Every stake is released by one transaction, exactly when its status says so.
THEOREM StakesReleaseOnce == Spec => []StakeReleasedOnce
<1>1. Init => StakeInv
  BY DEF Init, StakeInv, IsSeq, Vault!ReleasedOnce
<1>2. StakeInv => StakeReleasedOnce
  BY DEF StakeInv, StakeReleasedOnce
<1>3. QED
  BY <1>1, <1>2, StakeStep, PTL DEF Spec

------------------------------------------------------------------------------
(* What a posting moves.                                                     *)

\* The sums of the flows are sums.
LEMMA SumsAgree ==
  \A f : /\ Shop!SumFunction(f) = SumFunctionOnSet(f, DOMAIN f)
         /\ Vault!SumFunction(f) = SumFunctionOnSet(f, DOMAIN f)
         /\ Arena!SumFunction(f) = SumFunctionOnSet(f, DOMAIN f)
BY DEF SumFunctionOnSet, FoldFunctionOnSet, MapThenFoldSet,
       Shop!SumFunction, Shop!SumFunctionOnSet, Shop!FoldFunctionOnSet, Shop!MapThenFoldSet,
       Vault!SumFunction, Vault!SumFunctionOnSet, Vault!FoldFunctionOnSet, Vault!MapThenFoldSet,
       Arena!SumFunction, Arena!SumFunctionOnSet, Arena!FoldFunctionOnSet, Arena!MapThenFoldSet

\* The ledger gains a transaction of an amount.
Grows(type, amount) ==
  /\ IsSeq(txns)'
  /\ DOMAIN txns' = DOMAIN txns \union {Len(txns) + 1}
  /\ Len(txns) + 1 \notin DOMAIN txns
  /\ \A t \in DOMAIN txns : txns'[t] = txns[t]
  /\ txns'[Len(txns) + 1].type = type
  /\ txns'[Len(txns) + 1].amount = amount
  /\ amount \in Int

\* A posting moves the sum of its credits out of one account.
Moves(from, credits, total) ==
  bal' = [a \in Accounts |-> bal[a] - (IF a = from THEN total ELSE 0)
                                    + (IF a \in DOMAIN credits THEN credits[a] ELSE 0)]

AnyPost(type, ref, key, from, credits) ==
  \/ Shop!Post(type, ref, key, from, credits)
  \/ Vault!Post(type, ref, key, from, credits)
  \/ Arena!Post(type, ref, key, from, credits)

\* Every posting does both.
LEMMA PostMoves ==
  ASSUME IsSeq(txns), NEW type, NEW ref, NEW key, NEW from, NEW credits,
         AnyPost(type, ref, key, from, credits),
         SumFunctionOnSet(credits, DOMAIN credits) \in Int
  PROVE  /\ Grows(type, SumFunctionOnSet(credits, DOMAIN credits))
         /\ Moves(from, credits, SumFunctionOnSet(credits, DOMAIN credits))
         /\ txns'[Len(txns) + 1].ref = ref /\ txns'[Len(txns) + 1].key = key
         /\ \A t \in DOMAIN txns : key # NoKey => txns[t].key # key
         /\ \A a \in DOMAIN credits : credits[a] > 0
<1> DEFINE total == SumFunctionOnSet(credits, DOMAIN credits)
           x == [type |-> type, ref |-> ref, key |-> key, amount |-> total]
<1>1. /\ txns' = Append(txns, x)
      /\ \A t \in DOMAIN txns : key # NoKey => txns[t].key # key
      /\ \A a \in DOMAIN credits : credits[a] > 0
  BY SumsAgree DEF AnyPost, Shop!Post, Vault!Post, Arena!Post, Shop!Total, Vault!Total, Arena!Total,
                   Shop!Committed, Vault!Committed, Arena!Committed
<1>2. bal' = [a \in Accounts |-> bal[a] - (IF a = from THEN total ELSE 0)
                                        + (IF a \in DOMAIN credits THEN credits[a] ELSE 0)]
  BY SumsAgree DEF AnyPost, Shop!Post, Vault!Post, Arena!Post, Shop!Total, Vault!Total, Arena!Total,
                   Shop!Posted, Vault!Posted, Arena!Posted
<1>3. x.type = type /\ x.ref = ref /\ x.key = key /\ x.amount = total
  OBVIOUS
<1> HIDE DEF x, total
<1>4. /\ IsSeq(txns)' /\ DOMAIN txns' = DOMAIN txns \union {Len(txns) + 1}
      /\ Len(txns) + 1 \notin DOMAIN txns
      /\ \A t \in DOMAIN txns : txns'[t] = txns[t]
      /\ txns'[Len(txns) + 1] = x
  BY <1>1, AppendFacts
<1>5. QED
  BY <1>1, <1>2, <1>3, <1>4 DEF Grows, Moves, total

\* One account gets it all.
LEMMA OneCredit ==
  ASSUME NEW a, NEW amount \in Int
  PROVE  /\ DOMAIN Credit(a, amount) = {a} /\ Credit(a, amount)[a] = amount
         /\ SumFunctionOnSet(Credit(a, amount), DOMAIN Credit(a, amount)) = amount
BY SumOfSingle DEF Credit

------------------------------------------------------------------------------
(* Balances.                                                                 *)

Locks == {"escrow_lock", "staking_lock"}

\* Balances and amounts are integers, and a row knows the transaction it was
\* given; every escrow_lock and every staking_lock was given to a row.
MoneyInv ==
  /\ IsSeq(txns) /\ IsSeq(escrows) /\ IsSeq(stakes)
  /\ bal \in [Accounts -> Int]
  /\ \A t \in DOMAIN txns :
       /\ txns[t].amount \in Int
       /\ txns[t].type = "escrow_lock" => \E e \in DOMAIN escrows : escrows[e].txn = t
       /\ txns[t].type = "staking_lock" => \E i \in DOMAIN stakes : stakes[i].txn = t
  /\ \A e \in DOMAIN escrows :
       /\ {"status", "txn", "amount", "buyer"} \subseteq DOMAIN escrows[e]
       /\ escrows[e].txn \in DOMAIN txns /\ escrows[e].amount \in Int
       /\ escrows[e].buyer \in Users
  /\ \A i \in DOMAIN stakes :
       /\ {"status", "txn", "amount", "owner", "elapsed"} \subseteq DOMAIN stakes[i]
       /\ stakes[i].txn \in DOMAIN txns /\ stakes[i].amount \in Int
       /\ stakes[i].owner \in Users
  /\ \A r \in settling : r.tournament \in Tourneys /\ r.winner \in Users /\ r.pool \in Nat

\* The accounts of the flows are different accounts.
LEMMA AccountsDiffer ==
  /\ {Escrow, Pool, Treasury, Burn, Pending(Creator), Available(Creator)} \subseteq Accounts
  /\ Escrow # Pool /\ Escrow # Treasury /\ Escrow # Burn /\ Treasury # Burn /\ Pool # Treasury
  /\ Pool # Burn
  /\ Pending(Creator) \notin {Escrow, Pool, Treasury, Burn}
  /\ Available(Creator) \notin {Escrow, Pool, Treasury, Burn}
  /\ \A u \in Users :
       /\ Available(u) \in Accounts /\ Locked(u) \in Accounts
       /\ Available(u) \notin {Escrow, Pool, Treasury, Burn}
       /\ Locked(u) \notin {Escrow, Pool, Treasury, Burn, Pending(Creator), Available(Creator)}
       /\ \A v \in Users : Available(u) # Locked(v) /\ (Locked(u) = Locked(v) => u = v)
BY CommerceAssumption DEF SystemWallets, Escrow, Pool, Treasury, Burn, Pending, Available, Locked

\* A posting of one credit moves an amount from one account to another.
LEMMA OneMove ==
  ASSUME IsSeq(txns), NEW type, NEW ref, NEW key, NEW from, NEW to, NEW amount \in Int,
         AnyPost(type, ref, key, from, Credit(to, amount))
  PROVE  /\ Grows(type, amount)
         /\ txns'[Len(txns) + 1].ref = ref /\ txns'[Len(txns) + 1].key = key
         /\ \A t \in DOMAIN txns : key # NoKey => txns[t].key # key
         /\ amount > 0
         /\ bal' = [a \in Accounts |-> bal[a] - (IF a = from THEN amount ELSE 0)
                                              + (IF a = to THEN amount ELSE 0)]
<1> DEFINE credits == Credit(to, amount)
<1>1. /\ DOMAIN credits = {to} /\ credits[to] = amount
      /\ SumFunctionOnSet(credits, DOMAIN credits) = amount
  BY OneCredit
<1>2. AnyPost(type, ref, key, from, credits)
  OBVIOUS
<1> HIDE DEF credits
<1>3. PICK total : total = SumFunctionOnSet(credits, DOMAIN credits)
  OBVIOUS
<1>4. /\ Grows(type, total) /\ Moves(from, credits, total)
      /\ txns'[Len(txns) + 1].ref = ref /\ txns'[Len(txns) + 1].key = key
      /\ \A t \in DOMAIN txns : key # NoKey => txns[t].key # key
      /\ \A a \in DOMAIN credits : credits[a] > 0
  BY <1>1, <1>2, <1>3, PostMoves
<1>5. total = amount
  BY <1>1, <1>3
<1>6. QED
  BY <1>1, <1>4, <1>5 DEF Moves

\* What a settlement splits up is the price, all of it.
LEMMA SettlementTotal ==
  ASSUME NEW amount \in Int
  PROVE  LET credits == Shop!SettlementCredits(amount)
         IN  /\ DOMAIN credits = {Pending(Creator), Treasury, Burn}
             /\ SumFunctionOnSet(credits, DOMAIN credits) = amount
             /\ \A a \in DOMAIN credits : credits[a] \in Int
<1> DEFINE credits == Shop!SettlementCredits(amount)
           x == Remainder(amount, 1000, 500)
           y == Share(amount, 1000)
           z == Share(amount, 500)
<1>1. /\ DOMAIN credits = {Pending(Creator), Treasury, Burn}
      /\ credits[Pending(Creator)] = x /\ credits[Treasury] = y /\ credits[Burn] = z
  BY AccountsDiffer
     DEF Shop!SettlementCredits, Shop!Merged, Shop!Credit, Shop!DEFAULT_POLICY, Shop!Remainder,
         Shop!Share, Remainder, Share, Shop!Pending, Shop!Treasury, Shop!Burn, Pending, Treasury,
         Burn, Shop!Available, Available
<1>2. x \in Int /\ y \in Int /\ z \in Int /\ x + y + z = amount
  BY DEF Remainder, Share
<1>3. Pending(Creator) # Treasury /\ Pending(Creator) # Burn /\ Treasury # Burn
  BY AccountsDiffer
<1> HIDE DEF credits, x, y, z
<1>4. SumFunctionOnSet(credits, DOMAIN credits) = x + y + z
  BY <1>1, <1>2, <1>3, SumOfThree
<1>5. \A a \in DOMAIN credits : credits[a] \in Int
  BY <1>1, <1>2
<1>6. QED
  BY <1>1, <1>2, <1>4, <1>5 DEF credits

\* A prize and the rake are the pool, all of it.
LEMMA PrizeTotal ==
  ASSUME NEW r, r.pool \in Nat, r.winner \in Users
  PROVE  LET credits == Arena!PrizeCredits(r)
         IN  /\ DOMAIN credits \subseteq {Available(r.winner), Treasury, Burn}
             /\ SumFunctionOnSet(credits, DOMAIN credits) = r.pool
             /\ \A a \in DOMAIN credits : credits[a] \in Int
<1> DEFINE credits == Arena!PrizeCredits(r)
           x == Remainder(r.pool, Rake.treasury, Rake.burn)
           y == Share(r.pool, Rake.treasury)
           z == Share(r.pool, Rake.burn)
           A == Available(r.winner)
<1>1. A # Treasury /\ A # Burn /\ Treasury # Burn
  BY AccountsDiffer
<1>2. y \in Nat /\ z \in Nat
  BY CommerceAssumption, ShareBound
<1>3. x \in Int /\ x + y + z = r.pool
  BY <1>2 DEF Remainder
<1> DEFINE rake == [a \in {Treasury} \union {Burn} |-> IF a = Treasury THEN y ELSE z]
           rest == [a \in {b \in {Treasury} \union {Burn} : rake[b] > 0} |-> rake[a]]
<1>4. /\ DOMAIN credits = {A} \union {b \in {Treasury, Burn} : IF b = Treasury THEN y > 0 ELSE z > 0}
      /\ credits[A] = x
      /\ Treasury \in DOMAIN credits => credits[Treasury] = y
      /\ Burn \in DOMAIN credits => credits[Burn] = z
  <2>1. /\ Arena!Treasury = Treasury /\ Arena!Burn = Burn /\ Arena!Available(r.winner) = A
        /\ Arena!Share(r.pool, Rake.treasury) = y /\ Arena!Share(r.pool, Rake.burn) = z
        /\ Arena!Remainder(r.pool, Rake.treasury, Rake.burn) = x
    BY DEF Arena!Remainder, Arena!Share, Remainder, Share, Arena!Available, Arena!Treasury,
           Arena!Burn, Available, Treasury, Burn
  <2> HIDE DEF x, y, z, A
  <2>2. Arena!Merged(Arena!Credit(Treasury, y), Arena!Credit(Burn, z)) = rake
    BY <1>1 DEF Arena!Merged, Arena!Credit
  <2>3. DOMAIN rake = {Treasury} \union {Burn} /\ rake[Treasury] = y /\ rake[Burn] = z
    BY <1>1
  <2> HIDE DEF rake
  <2>4. credits = Arena!Merged(Arena!Credit(A, x), rest)
    BY <2>1, <2>2, <2>3 DEF Arena!PrizeCredits
  <2>5. /\ DOMAIN rest = {b \in {Treasury, Burn} : IF b = Treasury THEN y > 0 ELSE z > 0}
        /\ \A a \in DOMAIN rest : rest[a] = rake[a]
    BY <1>1, <2>3
  <2> HIDE DEF rest, credits
  <2>6. /\ DOMAIN credits = {A} \union DOMAIN rest
        /\ credits[A] = x /\ \A a \in DOMAIN rest : a # A => credits[a] = rest[a]
    BY <2>4 DEF Arena!Merged, Arena!Credit
  <2>7. Treasury \in DOMAIN credits => credits[Treasury] = y
    BY <1>1, <2>3, <2>5, <2>6
  <2>8. Burn \in DOMAIN credits => credits[Burn] = z
    BY <1>1, <2>3, <2>5, <2>6
  <2>9. QED
    BY <2>5, <2>6, <2>7, <2>8
<1> HIDE DEF credits, rake, rest, x, y, z, A
<1>5. /\ DOMAIN credits \subseteq {A, Treasury, Burn} /\ A \in DOMAIN credits
      /\ IF Treasury \in DOMAIN credits THEN credits[Treasury] = y ELSE y = 0
      /\ IF Burn \in DOMAIN credits THEN credits[Burn] = z ELSE z = 0
  BY <1>1, <1>2, <1>4
<1>6. SumFunctionOnSet(credits, DOMAIN credits) = x + y + z
  <2>1. UpToThree(credits, A, Treasury, Burn, x, y, z)
    BY <1>1, <1>2, <1>3, <1>4, <1>5 DEF UpToThree
  <2>2. QED
    BY <2>1, SumOfUpToThree
<1>7. \A a \in DOMAIN credits : credits[a] \in Int
  BY <1>2, <1>3, <1>4, <1>5
<1>8. QED
  BY <1>3, <1>5, <1>6, <1>7 DEF credits, A

------------------------------------------------------------------------------
(* What the flows move.                                                      *)

\* Nothing is posted, or a transaction that locks nothing in a row.
Quiet == /\ UNCHANGED <<escrows, stakes>> /\ bal' \in [Accounts -> Int]
         /\ \/ UNCHANGED txns
            \/ \E type, amount : type \notin Locks /\ Grows(type, amount)

EscrowKept == bal'[Escrow] = bal[Escrow]
LockedKept == \A u \in Users : bal'[Locked(u)] = bal[Locked(u)]

\* A purchase: the price goes into escrow, or the key was used before.
Buys ==
  \E buyer \in Users, amount \in Int : \E txn :
    /\ escrows' = Append(escrows, Shop!NewEscrow(buyer, amount, txn))
    /\ UNCHANGED stakes /\ LockedKept /\ bal' \in [Accounts -> Int]
    /\ \/ Grows("escrow_lock", amount) /\ txn = Len(txns) + 1 /\ bal'[Escrow] = bal[Escrow] + amount
       \/ UNCHANGED <<bal, txns>> /\ txn \in DOMAIN txns /\ txns[txn].key # NoKey

\* An escrow is paid out: its price leaves the escrow wallet.
PaysEscrow ==
  \E e \in DOMAIN escrows, status \in {"released", "refunded"} : \E type :
    /\ escrows[e].status \in Shop!Open
    /\ escrows' = [escrows EXCEPT ![e].status = status]
    /\ UNCHANGED stakes /\ LockedKept /\ bal' \in [Accounts -> Int]
    /\ type \notin Locks /\ Grows(type, escrows[e].amount)
    /\ bal'[Escrow] = bal[Escrow] - escrows[e].amount

DisputesEscrow ==
  \E e \in DOMAIN escrows :
    /\ escrows[e].status = "active"
    /\ escrows' = [escrows EXCEPT ![e].status = "disputed"]
    /\ UNCHANGED <<bal, txns, stakes>>

\* A stake: its amount is locked, or the key was used before.
Locks1 ==
  \E owner \in Users, amount \in Int : \E txn :
    /\ stakes' = Append(stakes, Vault!NewStake(owner, amount, txn))
    /\ UNCHANGED escrows /\ EscrowKept /\ bal' \in [Accounts -> Int]
    /\ \/ /\ Grows("staking_lock", amount) /\ txn = Len(txns) + 1
          /\ \A u \in Users : bal'[Locked(u)] = bal[Locked(u)] + (IF u = owner THEN amount ELSE 0)
       \/ UNCHANGED <<bal, txns>> /\ txn \in DOMAIN txns /\ txns[txn].key # NoKey

\* A stake is released: its amount is unlocked.
Unlocks1 ==
  \E i \in DOMAIN stakes :
    /\ stakes[i].status = "cooldown"
    /\ stakes' = [stakes EXCEPT ![i].status = "released"]
    /\ UNCHANGED escrows /\ EscrowKept /\ bal' \in [Accounts -> Int]
    /\ Grows("staking_unlock", stakes[i].amount)
    /\ \A u \in Users : bal'[Locked(u)] =
         bal[Locked(u)] - (IF u = stakes[i].owner THEN stakes[i].amount ELSE 0)

WaitsStake ==
  \E i \in DOMAIN stakes :
    /\ UNCHANGED <<bal, txns, escrows>>
    /\ \/ stakes[i].status = "active" /\ stakes' = [stakes EXCEPT ![i].status = "cooldown"]
       \/ stakes' = [stakes EXCEPT ![i].elapsed = TRUE]

\* Any other transaction leaves what is held and locked alone.
Others == Quiet /\ EscrowKept /\ LockedKept

\* Purchases, settlements, refunds, disputes and releases are such steps.
LEMMA ShopMoney ==
  ASSUME MoneyInv, Shop!Next, UNCHANGED stakes
  PROVE  Buys \/ PaysEscrow \/ DisputesEscrow \/ Others
<1>0. IsSeq(txns) /\ bal \in [Accounts -> Int] /\ \A a \in Accounts : bal[a] \in Int
  BY DEF MoneyInv
<1>1. ASSUME NEW buyer \in Users, NEW amount \in Prices, NEW key,
             Shop!Purchase(buyer, amount, key)
      PROVE  Buys
  <2>1. amount \in Int
    BY CommerceAssumption
  <2>2. CASE /\ Shop!Post("escrow_lock", 0, key, Available(buyer), Credit(Escrow, amount))
             /\ escrows' = Append(escrows, Shop!NewEscrow(buyer, amount, Len(txns) + 1))
    <3>1. AnyPost("escrow_lock", 0, key, Available(buyer), Credit(Escrow, amount))
      BY <2>2 DEF AnyPost
    <3>2. /\ Grows("escrow_lock", amount)
          /\ bal' = [a \in Accounts |-> bal[a] - (IF a = Available(buyer) THEN amount ELSE 0)
                                              + (IF a = Escrow THEN amount ELSE 0)]
      BY <1>0, <2>1, <3>1, OneMove
    <3>3. /\ bal'[Escrow] = bal[Escrow] + amount /\ LockedKept
      BY <1>0, <2>1, <3>2, AccountsDiffer DEF LockedKept
    <3>4. bal' \in [Accounts -> Int]
      BY <1>0, <2>1, <3>2
    <3>5. QED
      BY <2>1, <2>2, <3>2, <3>3, <3>4 DEF Buys
  <2>3. CASE /\ Shop!Committed(key)
             /\ escrows' = Append(escrows, Shop!NewEscrow(buyer, amount, Shop!Original(key)))
             /\ UNCHANGED <<bal, txns>>
    <3>1. Shop!Original(key) \in DOMAIN txns /\ txns[Shop!Original(key)].key # NoKey
      BY <2>3 DEF Shop!Committed, Shop!Original
    <3>2. LockedKept /\ bal' \in [Accounts -> Int]
      BY <1>0, <2>3 DEF LockedKept
    <3>3. QED
      BY <2>1, <2>3, <3>1, <3>2 DEF Buys
  <2>4. QED
    BY <1>1, <2>2, <2>3 DEF Shop!Purchase, Shop!Available, Shop!Escrow, Shop!Credit, Available, Escrow, Credit
<1>2. ASSUME NEW e \in DOMAIN escrows, Shop!Settle(e) PROVE PaysEscrow
  <2> DEFINE credits == Shop!SettlementCredits(escrows[e].amount)
  <2>1. /\ DOMAIN credits = {Pending(Creator), Treasury, Burn}
        /\ SumFunctionOnSet(credits, DOMAIN credits) = escrows[e].amount
        /\ \A a \in DOMAIN credits : credits[a] \in Int
        /\ escrows[e].amount \in Int
    BY SettlementTotal DEF MoneyInv
  <2>2. AnyPost("escrow_release", e, NoKey, Escrow, credits)
    BY <1>2 DEF AnyPost, Shop!Settle, Shop!Escrow, Escrow, Shop!Available, Available
  <2> HIDE DEF credits
  <2>3. Grows("escrow_release", escrows[e].amount) /\ Moves(Escrow, credits, escrows[e].amount)
    BY <1>0, <2>1, <2>2, PostMoves
  <2>4. /\ bal'[Escrow] = bal[Escrow] - escrows[e].amount /\ LockedKept
    BY <1>0, <2>1, <2>3, AccountsDiffer DEF LockedKept, Moves
  <2>5. bal' \in [Accounts -> Int]
    BY <1>0, <2>1, <2>3 DEF Moves
  <2>6. /\ escrows[e].status \in Shop!Open /\ UNCHANGED stakes
        /\ escrows' = [escrows EXCEPT ![e].status = "released"]
    BY <1>2 DEF Shop!Settle, Shop!SetStatus
  <2>7. "escrow_release" \notin Locks
    BY DEF Locks
  <2>8. QED
    BY <2>3, <2>4, <2>5, <2>6, <2>7 DEF PaysEscrow
<1>3. ASSUME NEW e \in DOMAIN escrows, Shop!Refund(e) PROVE PaysEscrow
  <2>1. escrows[e].amount \in Int /\ escrows[e].buyer \in Users
    BY DEF MoneyInv
  <2>2. AnyPost("escrow_refund", e, NoKey, Escrow, Credit(Available(escrows[e].buyer), escrows[e].amount))
    BY <1>3 DEF AnyPost, Shop!Refund, Shop!Escrow, Escrow, Shop!Available, Available, Shop!Credit, Credit
  <2>3. /\ Grows("escrow_refund", escrows[e].amount)
        /\ bal' = [a \in Accounts |-> bal[a] - (IF a = Escrow THEN escrows[e].amount ELSE 0)
             + (IF a = Available(escrows[e].buyer) THEN escrows[e].amount ELSE 0)]
    BY <1>0, <2>1, <2>2, OneMove
  <2>4. /\ bal'[Escrow] = bal[Escrow] - escrows[e].amount /\ LockedKept
    BY <1>0, <2>1, <2>3, AccountsDiffer DEF LockedKept
  <2>5. bal' \in [Accounts -> Int]
    BY <1>0, <2>1, <2>3
  <2>6. /\ escrows[e].status \in Shop!Open /\ UNCHANGED stakes
        /\ escrows' = [escrows EXCEPT ![e].status = "refunded"]
    BY <1>3 DEF Shop!Refund, Shop!SetStatus
  <2>7. "escrow_refund" \notin Locks
    BY DEF Locks
  <2>8. QED
    BY <2>3, <2>4, <2>5, <2>6, <2>7 DEF PaysEscrow
<1>4. ASSUME NEW e \in DOMAIN escrows, Shop!Dispute(e) PROVE DisputesEscrow
  BY <1>4 DEF Shop!Dispute, Shop!SetStatus, DisputesEscrow
<1>5. ASSUME NEW amount \in Releases, NEW key, Shop!ReleasePending(amount, key) PROVE Others
  <2>1. amount \in Int
    BY CommerceAssumption
  <2>2. AnyPost("creator_release", 0, key, Pending(Creator), Credit(Available(Creator), amount))
    BY <1>5 DEF AnyPost, Shop!ReleasePending, Shop!Pending, Pending, Shop!Available, Available,
               Shop!Credit, Credit
  <2>3. /\ Grows("creator_release", amount)
        /\ bal' = [a \in Accounts |-> bal[a] - (IF a = Pending(Creator) THEN amount ELSE 0)
                                              + (IF a = Available(Creator) THEN amount ELSE 0)]
    BY <1>0, <2>1, <2>2, OneMove
  <2>4. EscrowKept /\ LockedKept
    BY <1>0, <2>1, <2>3, AccountsDiffer DEF EscrowKept, LockedKept
  <2>5. bal' \in [Accounts -> Int]
    BY <1>0, <2>1, <2>3
  <2>6. QED
    BY <1>5, <2>3, <2>4, <2>5 DEF Others, Quiet, Shop!ReleasePending, Locks
<1>6. QED
  BY <1>1, <1>2, <1>3, <1>4, <1>5 DEF Shop!Next

\* Stakes, their cooldowns and their releases are such steps.
LEMMA VaultMoney ==
  ASSUME MoneyInv, Vault!Next, UNCHANGED escrows
  PROVE  Locks1 \/ Unlocks1 \/ WaitsStake
<1>0. IsSeq(txns) /\ bal \in [Accounts -> Int] /\ \A a \in Accounts : bal[a] \in Int
  BY DEF MoneyInv
<1>1. ASSUME NEW owner \in Users, NEW amount \in Stakes, NEW key,
             Vault!Stake(owner, amount, key)
      PROVE  Locks1
  <2>1. amount \in Int
    BY CommerceAssumption
  <2>2. CASE /\ Vault!Post("staking_lock", 0, key, Available(owner), Credit(Locked(owner), amount))
             /\ stakes' = Append(stakes, Vault!NewStake(owner, amount, Len(txns) + 1))
    <3>1. AnyPost("staking_lock", 0, key, Available(owner), Credit(Locked(owner), amount))
      BY <2>2 DEF AnyPost
    <3>2. /\ Grows("staking_lock", amount)
          /\ bal' = [a \in Accounts |-> bal[a] - (IF a = Available(owner) THEN amount ELSE 0)
                                              + (IF a = Locked(owner) THEN amount ELSE 0)]
      BY <1>0, <2>1, <3>1, OneMove
    <3>3. EscrowKept
      BY <1>0, <2>1, <3>2, AccountsDiffer DEF EscrowKept
    <3>4. \A u \in Users : bal'[Locked(u)] = bal[Locked(u)] + (IF u = owner THEN amount ELSE 0)
      BY <1>0, <2>1, <3>2, AccountsDiffer
    <3>5. bal' \in [Accounts -> Int]
      BY <1>0, <2>1, <3>2
    <3>6. QED
      BY <2>1, <2>2, <3>2, <3>3, <3>4, <3>5 DEF Locks1
  <2>3. CASE /\ Vault!Committed(key)
             /\ stakes' = Append(stakes, Vault!NewStake(owner, amount, Vault!Original(key)))
             /\ UNCHANGED <<bal, txns>>
    <3>1. Vault!Original(key) \in DOMAIN txns /\ txns[Vault!Original(key)].key # NoKey
      BY <2>3 DEF Vault!Committed, Vault!Original
    <3>2. EscrowKept /\ bal' \in [Accounts -> Int]
      BY <1>0, <2>3 DEF EscrowKept
    <3>3. QED
      BY <2>1, <2>3, <3>1, <3>2 DEF Locks1
  <2>4. QED
    BY <1>1, <2>2, <2>3
    DEF Vault!Stake, Vault!Available, Vault!Locked, Vault!Credit, Available, Locked, Credit
<1>2. ASSUME NEW i \in DOMAIN stakes, Vault!RequestUnstake(i) \/ Vault!Elapse(i)
      PROVE  WaitsStake
  BY <1>2 DEF Vault!RequestUnstake, Vault!Elapse, WaitsStake
<1>3. ASSUME NEW i \in DOMAIN stakes, Vault!CompleteUnstake(i) PROVE Unlocks1
  <2>1. PICK owner, amount : owner = stakes[i].owner /\ amount = stakes[i].amount
    OBVIOUS
  <2>2. owner \in Users /\ amount \in Int
    BY <2>1 DEF MoneyInv
  <2>3. AnyPost("staking_unlock", i, NoKey, Locked(owner), Credit(Available(owner), amount))
    BY <1>3, <2>1 DEF AnyPost, Vault!CompleteUnstake, Vault!Available, Available, Vault!Locked,
                     Locked, Vault!Credit, Credit
  <2>4. /\ Grows("staking_unlock", amount)
        /\ bal' = [a \in Accounts |-> bal[a] - (IF a = Locked(owner) THEN amount ELSE 0)
                                              + (IF a = Available(owner) THEN amount ELSE 0)]
    BY <1>0, <2>2, <2>3, OneMove
  <2>5. EscrowKept
    BY <1>0, <2>2, <2>4, AccountsDiffer DEF EscrowKept
  <2>6. \A u \in Users : bal'[Locked(u)] = bal[Locked(u)] - (IF u = owner THEN amount ELSE 0)
    BY <1>0, <2>2, <2>4, AccountsDiffer
  <2>7. bal' \in [Accounts -> Int]
    BY <1>0, <2>2, <2>4
  <2>8. /\ stakes[i].status = "cooldown"
        /\ stakes' = [stakes EXCEPT ![i].status = "released"]
    BY <1>3 DEF Vault!CompleteUnstake
  <2>9. /\ Grows("staking_unlock", stakes[i].amount)
        /\ \A u \in Users : bal'[Locked(u)] =
             bal[Locked(u)] - (IF u = stakes[i].owner THEN stakes[i].amount ELSE 0)
    BY ONLY <2>1, <2>4, <2>6
  <2>10. UNCHANGED escrows
    OBVIOUS
  <2>11. QED
    BY ONLY <1>3, <2>5, <2>7, <2>8, <2>9, <2>10, Zenon DEF Unlocks1
<1>4. QED
  BY <1>1, <1>2, <1>3 DEF Vault!Next

\* Tournaments hold nothing in escrow and lock nothing.
LEMMA ArenaMoney ==
  ASSUME MoneyInv, Arena!Next, UNCHANGED <<escrows, stakes>>
  PROVE  Others
<1>0. IsSeq(txns) /\ bal \in [Accounts -> Int] /\ \A a \in Accounts : bal[a] \in Int
  BY DEF MoneyInv
<1>1. ASSUME NEW t, NEW player \in Users, NEW fee \in EntryFees, Arena!Join(t, player, fee)
      PROVE  Others
  <2>1. fee \in Int
    BY CommerceAssumption
  <2>2. PICK key : key = Arena!JoinKey(t, player)
    OBVIOUS
  <2>3. AnyPost("tournament_entry", t, key, Available(player), Credit(Pool, fee))
    BY <1>1, <2>2 DEF AnyPost, Arena!Join, Arena!Available, Available, Arena!Pool, Pool,
                      Arena!Credit, Credit
  <2>4. /\ Grows("tournament_entry", fee)
        /\ bal' = [a \in Accounts |-> bal[a] - (IF a = Available(player) THEN fee ELSE 0)
                                              + (IF a = Pool THEN fee ELSE 0)]
    BY <1>0, <2>1, <2>3, OneMove
  <2>5. EscrowKept /\ LockedKept
    BY <1>0, <2>1, <2>4, AccountsDiffer DEF EscrowKept, LockedKept
  <2>6. bal' \in [Accounts -> Int]
    BY <1>0, <2>1, <2>4
  <2>7. QED
    BY <2>4, <2>5, <2>6 DEF Others, Quiet, Locks
<1>2. ASSUME NEW r \in settling, NEW key,
             Arena!Post("tournament_prize", r.tournament, key, Pool, Arena!PrizeCredits(r))
      PROVE  Others
  <2>1. PICK credits : credits = Arena!PrizeCredits(r)
    OBVIOUS
  <2>2. PICK pool, winner, tournament :
          pool = r.pool /\ winner = r.winner /\ tournament = r.tournament
    OBVIOUS
  <2>3. r.pool \in Nat /\ r.winner \in Users
    BY DEF MoneyInv
  <2>4. /\ DOMAIN credits \subseteq {Available(winner), Treasury, Burn}
        /\ SumFunctionOnSet(credits, DOMAIN credits) = pool
        /\ \A a \in DOMAIN credits : credits[a] \in Int
    BY <2>1, <2>2, <2>3, PrizeTotal
  <2>5. AnyPost("tournament_prize", tournament, key, Pool, credits)
    BY <1>2, <2>1, <2>2 DEF AnyPost
  <2>6. pool \in Int /\ winner \in Users
    BY <2>2, <2>3
  <2>7. Grows("tournament_prize", pool) /\ Moves(Pool, credits, pool)
    BY <1>0, <2>4, <2>5, <2>6, PostMoves
  <2>8. EscrowKept /\ LockedKept
    BY <1>0, <2>4, <2>6, <2>7, AccountsDiffer DEF EscrowKept, LockedKept, Moves
  <2>9. bal' \in [Accounts -> Int]
    BY <1>0, <2>4, <2>6, <2>7 DEF Moves
  <2>10. QED
    BY <2>7, <2>8, <2>9 DEF Others, Quiet, Locks
<1>3. ASSUME UNCHANGED <<bal, txns>> PROVE Others
  BY <1>0, <1>3 DEF Others, Quiet, EscrowKept, LockedKept
<1>4. ASSUME NEW r \in settling, Arena!PayPrizes(r) PROVE Others
  BY <1>2, <1>3, <1>4 DEF Arena!PayPrizes, Arena!Available, Available, Arena!Pool, Pool
<1>5. QED
  BY <1>1, <1>3, <1>4 DEF Arena!Next, Arena!ReadPool, Arena!Abandon

\* Every step of the flows is one of these.
LEMMA MoneySteps ==
  ASSUME MoneyInv, [Next]_vars
  PROVE  Buys \/ PaysEscrow \/ DisputesEscrow \/ Locks1 \/ Unlocks1 \/ WaitsStake \/ Others
<1>1. CASE UNCHANGED vars
  BY <1>1 DEF vars, Others, Quiet, EscrowKept, LockedKept, MoneyInv
<1>2. QED
  BY <1>1, ShopMoney, VaultMoney, ArenaMoney DEF Next

\* The tournaments' settlements keep their types.
LEMMA SettlingTyped ==
  ASSUME MoneyInv, [Next]_vars
  PROVE  \A r \in settling' : r.tournament \in Tourneys /\ r.winner \in Users /\ r.pool \in Nat
<1>1. ASSUME NEW t \in Tourneys, NEW winner \in Users, Arena!ReadPool(t, winner)
      PROVE  \A r \in settling' : r.tournament \in Tourneys /\ r.winner \in Users /\ r.pool \in Nat
  <2>1. Arena!Amounts(Arena!Entries(t)) \in Nat
    <3> DEFINE S == Arena!Entries(t)
               f == [i \in S |-> txns[i].amount]
    <3>1. IsFiniteSet(S) /\ \A i \in S : txns[i].amount \in Int
      BY SeqFinite, FS_Subset DEF MoneyInv, Arena!Entries
    <3> HIDE DEF S
    <3>2. DOMAIN f = S /\ \A i \in S : f[i] \in Int
      BY <3>1
    <3>3. Arena!Amounts(S) = SumFunctionOnSet(f, DOMAIN f)
      BY SumsAgree DEF Arena!Amounts
    <3> HIDE DEF f
    <3>4. Arena!Amounts(S) \in Int
      BY <3>1, <3>2, <3>3, SumTakesOut
    <3>5. Arena!Amounts(S) > 0
      BY <1>1 DEF Arena!ReadPool, S
    <3>6. QED
      BY <3>4, <3>5 DEF S
  <2>2. QED
    BY <1>1, <2>1 DEF Arena!ReadPool, MoneyInv
<1>2. CASE settling' \subseteq settling
  BY <1>2 DEF MoneyInv
<1>3. QED
  BY <1>1, <1>2 DEF Next, Arena!Next, Arena!Join, Arena!PayPrizes, Arena!Abandon, vars

\* Balances and rows keep in line.
LEMMA MoneyStep == MoneyInv /\ [Next]_vars => MoneyInv'
<1> SUFFICES ASSUME MoneyInv, [Next]_vars PROVE MoneyInv'
  OBVIOUS
<1>1. CASE Buys
  <2>1. PICK buyer, amount, txn :
          /\ buyer \in Users /\ amount \in Int
          /\ escrows' = Append(escrows, Shop!NewEscrow(buyer, amount, txn))
          /\ UNCHANGED stakes /\ LockedKept /\ bal' \in [Accounts -> Int]
          /\ \/ Grows("escrow_lock", amount) /\ txn = Len(txns) + 1
                /\ bal'[Escrow] = bal[Escrow] + amount
             \/ UNCHANGED <<bal, txns>> /\ txn \in DOMAIN txns
    BY <1>1 DEF Buys
  <2>2. PICK row : row = Shop!NewEscrow(buyer, amount, txn)
    OBVIOUS
  <2>3. /\ {"status", "txn", "amount", "buyer"} \subseteq DOMAIN row
        /\ row.txn = txn /\ row.amount = amount /\ row.buyer = buyer
    BY <2>2 DEF Shop!NewEscrow
  <2>4. /\ IsSeq(escrows)' /\ DOMAIN escrows' = DOMAIN escrows \union {Len(escrows) + 1}
        /\ \A e \in DOMAIN escrows : escrows'[e] = escrows[e]
        /\ escrows'[Len(escrows) + 1] = row
    BY <2>1, <2>2, AppendFacts DEF MoneyInv
  <2>5. QED
    BY <2>1, <2>3, <2>4, SettlingTyped DEF MoneyInv, Grows
<1>2. CASE PaysEscrow \/ DisputesEscrow
  <2>1. PICK e, status : e \in DOMAIN escrows /\ escrows' = [escrows EXCEPT ![e].status = status]
    BY <1>2 DEF PaysEscrow, DisputesEscrow
  <2>2. IsSeq(escrows)' /\ DOMAIN escrows' = DOMAIN escrows
    BY <2>1, ExceptFacts DEF MoneyInv
  <2>3. \A d \in DOMAIN escrows :
          /\ DOMAIN escrows'[d] = DOMAIN escrows[d] /\ escrows'[d].txn = escrows[d].txn
          /\ escrows'[d].amount = escrows[d].amount /\ escrows'[d].buyer = escrows[d].buyer
    BY <2>1
  <2>4. UNCHANGED stakes /\ bal' \in [Accounts -> Int]
        /\ (UNCHANGED txns \/ \E type, amount : type \notin Locks /\ Grows(type, amount))
    BY <1>2 DEF PaysEscrow, DisputesEscrow, MoneyInv
  <2>5. /\ IsSeq(txns)' /\ DOMAIN txns \subseteq DOMAIN txns'
        /\ \A t \in DOMAIN txns' :
             /\ txns'[t].amount \in Int
             /\ txns'[t].type \in Locks => t \in DOMAIN txns /\ txns'[t] = txns[t]
    BY <2>4 DEF MoneyInv, Grows
  <2>6. \A t \in DOMAIN txns' :
          /\ txns'[t].type = "escrow_lock" => \E d \in DOMAIN escrows' : escrows'[d].txn = t
          /\ txns'[t].type = "staking_lock" => \E i \in DOMAIN stakes' : stakes'[i].txn = t
    BY <2>2, <2>3, <2>4, <2>5 DEF MoneyInv, Locks
  <2>7. QED
    BY <2>2, <2>3, <2>4, <2>5, <2>6, SettlingTyped DEF MoneyInv
<1>3. CASE Locks1
  <2>1. PICK owner, amount, txn :
          /\ owner \in Users /\ amount \in Int
          /\ stakes' = Append(stakes, Vault!NewStake(owner, amount, txn))
          /\ UNCHANGED escrows /\ bal' \in [Accounts -> Int]
          /\ \/ Grows("staking_lock", amount) /\ txn = Len(txns) + 1
             \/ UNCHANGED <<bal, txns>> /\ txn \in DOMAIN txns
    BY <1>3 DEF Locks1
  <2>2. PICK row : row = Vault!NewStake(owner, amount, txn)
    OBVIOUS
  <2>3. /\ {"status", "txn", "amount", "owner", "elapsed"} \subseteq DOMAIN row
        /\ row.txn = txn /\ row.amount = amount /\ row.owner = owner
    BY <2>2 DEF Vault!NewStake
  <2>4. /\ IsSeq(stakes)' /\ DOMAIN stakes' = DOMAIN stakes \union {Len(stakes) + 1}
        /\ \A i \in DOMAIN stakes : stakes'[i] = stakes[i]
        /\ stakes'[Len(stakes) + 1] = row
    BY <2>1, <2>2, AppendFacts DEF MoneyInv
  <2>5. QED
    BY <2>1, <2>3, <2>4, SettlingTyped DEF MoneyInv, Grows
<1>4. CASE Unlocks1 \/ WaitsStake
  <2>1. PICK i \in DOMAIN stakes : \/ \E status : stakes' = [stakes EXCEPT ![i].status = status]
                                   \/ stakes' = [stakes EXCEPT ![i].elapsed = TRUE]
    BY <1>4 DEF Unlocks1, WaitsStake
  <2>2. IsSeq(stakes)' /\ DOMAIN stakes' = DOMAIN stakes
    BY <2>1, ExceptFacts DEF MoneyInv
  <2>3. \A j \in DOMAIN stakes :
          /\ DOMAIN stakes'[j] = DOMAIN stakes[j] /\ stakes'[j].txn = stakes[j].txn
          /\ stakes'[j].amount = stakes[j].amount /\ stakes'[j].owner = stakes[j].owner
    <3>1. CASE \E status : stakes' = [stakes EXCEPT ![i].status = status]
      BY <3>1
    <3>2. CASE stakes' = [stakes EXCEPT ![i].elapsed = TRUE]
      BY <3>2
    <3>3. QED
      BY <2>1, <3>1, <3>2
  <2>4. UNCHANGED escrows /\ bal' \in [Accounts -> Int]
        /\ (UNCHANGED txns \/ \E type, amount : type \notin Locks /\ Grows(type, amount))
    BY <1>4 DEF Unlocks1, WaitsStake, MoneyInv, Locks
  <2>5. /\ IsSeq(txns)' /\ DOMAIN txns \subseteq DOMAIN txns'
        /\ \A t \in DOMAIN txns' :
             /\ txns'[t].amount \in Int
             /\ txns'[t].type \in Locks => t \in DOMAIN txns /\ txns'[t] = txns[t]
    BY <2>4 DEF MoneyInv, Grows
  <2>6. \A t \in DOMAIN txns' :
          /\ txns'[t].type = "escrow_lock" => \E e \in DOMAIN escrows' : escrows'[e].txn = t
          /\ txns'[t].type = "staking_lock" => \E j \in DOMAIN stakes' : stakes'[j].txn = t
    BY <2>2, <2>3, <2>4, <2>5 DEF MoneyInv, Locks
  <2>7. QED
    BY <2>2, <2>3, <2>4, <2>5, <2>6, SettlingTyped DEF MoneyInv
<1>5. CASE Others
  BY <1>5, SettlingTyped DEF Others, Quiet, MoneyInv, Grows, Locks
<1>6. QED
  BY <1>1, <1>2, <1>3, <1>4, <1>5, MoneySteps

------------------------------------------------------------------------------
(* What is held and locked is accounted for.                                 *)

\* The prices of the open purchases, and of the rows that nothing funded.
Held == [e \in Shop!OpenEscrows |-> escrows[e].amount]
Unpaid == [e \in {e \in DOMAIN escrows : ~Shop!Funded(e)} |-> escrows[e].amount]

\* A user's stakes that are not released, and those that nothing funded.
StakesHeld(u) == [i \in {i \in Vault!StakesOf(u) : stakes[i].status # "released"} |-> stakes[i].amount]
StakesUnpaid(u) == [i \in {i \in Vault!StakesOf(u) : ~Vault!Funded(i)} |-> stakes[i].amount]

\* A row is of the amount that was paid for it, or comes of a used key.
EscrowRow(e) == IF Shop!Funded(e) THEN txns[escrows[e].txn].amount = escrows[e].amount
                                  ELSE txns[escrows[e].txn].key # NoKey
StakeRow(i) == IF Vault!Funded(i) THEN txns[stakes[i].txn].amount = stakes[i].amount
                                  ELSE txns[stakes[i].txn].key # NoKey

Sum(f) == SumFunctionOnSet(f, DOMAIN f)

\* The accounts are these sums.
LEMMA AccountedSums ==
  /\ Shop!Accounted <=> /\ bal[Escrow] = Sum(Held) - Sum(Unpaid)
                        /\ \A e \in DOMAIN escrows : EscrowRow(e)
  /\ Vault!Accounted <=> /\ \A u \in Users : bal[Locked(u)] = Sum(StakesHeld(u)) - Sum(StakesUnpaid(u))
                         /\ \A i \in DOMAIN stakes : StakeRow(i)
<1>1. /\ Shop!AmountsOf(Shop!OpenEscrows) = Sum(Held)
      /\ Shop!AmountsOf({e \in DOMAIN escrows : ~Shop!Funded(e)}) = Sum(Unpaid)
  <2>1. /\ Shop!AmountsOf(Shop!OpenEscrows) = Shop!SumFunction(Held)
        /\ Shop!AmountsOf({e \in DOMAIN escrows : ~Shop!Funded(e)}) = Shop!SumFunction(Unpaid)
    BY DEF Shop!AmountsOf, Held, Unpaid
  <2>2. QED
    BY <2>1, SumsAgree DEF Sum
<1>2. ASSUME NEW u
      PROVE  /\ Vault!AmountsOf({i \in Vault!StakesOf(u) : stakes[i].status # "released"}) = Sum(StakesHeld(u))
             /\ Vault!AmountsOf({i \in Vault!StakesOf(u) : ~Vault!Funded(i)}) = Sum(StakesUnpaid(u))
  <2>1. /\ Vault!AmountsOf({i \in Vault!StakesOf(u) : stakes[i].status # "released"})
             = Vault!SumFunction(StakesHeld(u))
        /\ Vault!AmountsOf({i \in Vault!StakesOf(u) : ~Vault!Funded(i)})
             = Vault!SumFunction(StakesUnpaid(u))
    BY DEF Vault!AmountsOf, StakesHeld, StakesUnpaid
  <2>2. QED
    BY <2>1, SumsAgree DEF Sum
<1>3. Shop!Accounted <=> /\ bal[Escrow] = Sum(Held) - Sum(Unpaid)
                         /\ \A e \in DOMAIN escrows : EscrowRow(e)
  BY <1>1, Zenon DEF Shop!Accounted, EscrowRow, Shop!Escrow, Escrow, Shop!Available, Available
<1>4. Vault!Accounted <=>
        /\ \A u \in Users : bal[Locked(u)] = Sum(StakesHeld(u)) - Sum(StakesUnpaid(u))
        /\ \A i \in DOMAIN stakes : StakeRow(i)
  BY <1>2, Zenon DEF Vault!Accounted, StakeRow, Vault!Locked, Locked
<1>5. QED
  BY <1>3, <1>4

\* They are sums of integers over finite sets.
LEMMA SumsTyped ==
  ASSUME MoneyInv
  PROVE  /\ \A f \in {Held, Unpaid} \union {StakesHeld(u) : u \in Users}
                     \union {StakesUnpaid(u) : u \in Users} :
              /\ IsFiniteSet(DOMAIN f) /\ \A x \in DOMAIN f : f[x] \in Int
              /\ Sum(f) \in Int
         /\ bal[Escrow] \in Int
<1>1. IsFiniteSet(DOMAIN escrows) /\ IsFiniteSet(DOMAIN stakes)
  BY SeqFinite DEF MoneyInv
<1>2. /\ DOMAIN Held \subseteq DOMAIN escrows /\ DOMAIN Unpaid \subseteq DOMAIN escrows
      /\ \A x \in DOMAIN Held : Held[x] \in Int
      /\ \A x \in DOMAIN Unpaid : Unpaid[x] \in Int
  BY DEF MoneyInv, Held, Unpaid, Shop!OpenEscrows
<1>3. \A u : /\ DOMAIN StakesHeld(u) \subseteq DOMAIN stakes
             /\ DOMAIN StakesUnpaid(u) \subseteq DOMAIN stakes
             /\ \A x \in DOMAIN StakesHeld(u) : StakesHeld(u)[x] \in Int
             /\ \A x \in DOMAIN StakesUnpaid(u) : StakesUnpaid(u)[x] \in Int
  BY DEF MoneyInv, StakesHeld, StakesUnpaid, Vault!StakesOf
<1>4. ASSUME NEW f \in {Held, Unpaid} \union {StakesHeld(u) : u \in Users}
                       \union {StakesUnpaid(u) : u \in Users}
      PROVE  /\ IsFiniteSet(DOMAIN f) /\ \A x \in DOMAIN f : f[x] \in Int
             /\ Sum(f) \in Int
  <2>1. IsFiniteSet(DOMAIN f) /\ \A x \in DOMAIN f : f[x] \in Int
    <3>1. CASE f \in {Held, Unpaid}
      BY <1>1, <1>2, <3>1, FS_Subset
    <3>2. CASE \E u \in Users : f = StakesHeld(u) \/ f = StakesUnpaid(u)
      BY <1>1, <1>3, <3>2, FS_Subset
    <3>3. QED
      BY <3>1, <3>2
  <2>2. QED
    BY <2>1, SumTakesOut DEF Sum
<1>5. bal[Escrow] \in Int
  BY AccountsDiffer DEF MoneyInv
<1>6. QED
  BY <1>4, <1>5

\* A transaction more leaves the amounts of the rows alone.
LEMMA RowsKept ==
  ASSUME MoneyInv, \A t \in DOMAIN txns : txns'[t] = txns[t]
  PROVE  /\ escrows' = escrows =>
              /\ UNCHANGED <<Held, Unpaid>>
              /\ \A e \in DOMAIN escrows : EscrowRow(e)' <=> EscrowRow(e)
         /\ stakes' = stakes =>
              /\ \A u \in Users : UNCHANGED <<StakesHeld(u), StakesUnpaid(u)>>
              /\ \A i \in DOMAIN stakes : StakeRow(i)' <=> StakeRow(i)
<1>1. ASSUME escrows' = escrows
      PROVE  /\ UNCHANGED <<Held, Unpaid>>
             /\ \A e \in DOMAIN escrows : EscrowRow(e)' <=> EscrowRow(e)
  <2>1. \A e \in DOMAIN escrows : (Shop!Funded(e))' <=> Shop!Funded(e)
    BY <1>1 DEF MoneyInv, Shop!Funded
  <2>2. \A e \in DOMAIN escrows : txns'[escrows'[e].txn] = txns[escrows[e].txn]
    BY <1>1 DEF MoneyInv
  <2>3. QED
    BY <1>1, <2>1, <2>2 DEF Held, Unpaid, Shop!OpenEscrows, EscrowRow
<1>2. ASSUME stakes' = stakes
      PROVE  /\ \A u \in Users : UNCHANGED <<StakesHeld(u), StakesUnpaid(u)>>
             /\ \A i \in DOMAIN stakes : StakeRow(i)' <=> StakeRow(i)
  <2>1. \A i \in DOMAIN stakes : (Vault!Funded(i))' <=> Vault!Funded(i)
    BY <1>2 DEF MoneyInv, Vault!Funded
  <2>2. \A i \in DOMAIN stakes : txns'[stakes'[i].txn] = txns[stakes[i].txn]
    BY <1>2 DEF MoneyInv
  <2>3. QED
    BY <1>2, <2>1, <2>2 DEF StakesHeld, StakesUnpaid, Vault!StakesOf, StakeRow
<1>3. QED
  BY <1>1, <1>2

\* The escrow wallet stays accounted for.
LEMMA EscrowAccounted ==
  ASSUME MoneyInv, Shop!Accounted, [Next]_vars
  PROVE  (Shop!Accounted)'
<1>1. (Shop!Accounted)' <=> /\ bal'[Escrow] = Sum(Held') - Sum(Unpaid')
                            /\ \A e \in DOMAIN escrows' : EscrowRow(e)'
  <2>1. (Shop!Accounted <=> /\ bal[Escrow] = Sum(Held) - Sum(Unpaid)
                            /\ \A e \in DOMAIN escrows : EscrowRow(e))'
    BY AccountedSums, PTL
  <2>2. QED
    BY <2>1
<1>2. /\ bal[Escrow] = Sum(Held) - Sum(Unpaid)
      /\ \A e \in DOMAIN escrows : EscrowRow(e)
      /\ bal[Escrow] \in Int /\ Sum(Held) \in Int /\ Sum(Unpaid) \in Int
      /\ IsFiniteSet(DOMAIN Held) /\ \A x \in DOMAIN Held : Held[x] \in Int
      /\ IsFiniteSet(DOMAIN Unpaid) /\ \A x \in DOMAIN Unpaid : Unpaid[x] \in Int
  BY AccountedSums, SumsTyped
<1>3. CASE Buys
  <2>1. PICK buyer, amount, txn :
          /\ buyer \in Users /\ amount \in Int
          /\ escrows' = Append(escrows, Shop!NewEscrow(buyer, amount, txn))
          /\ \/ /\ Grows("escrow_lock", amount) /\ txn = Len(txns) + 1
                /\ bal'[Escrow] = bal[Escrow] + amount
             \/ UNCHANGED <<bal, txns>> /\ txn \in DOMAIN txns /\ txns[txn].key # NoKey
    BY <1>3 DEF Buys
  <2>2. PICK n : n = Len(escrows) + 1
    OBVIOUS
  <2>3. /\ DOMAIN escrows' = DOMAIN escrows \union {n} /\ n \notin DOMAIN escrows
        /\ DOMAIN escrows = 1 .. n - 1 /\ n \in Nat
        /\ \A e \in DOMAIN escrows : escrows'[e] = escrows[e]
        /\ escrows'[n].txn = txn /\ escrows'[n].status = "active" /\ escrows'[n].amount = amount
    BY <2>1, <2>2, AppendFacts DEF MoneyInv, IsSeq, Shop!NewEscrow
  <2>4. \A t \in DOMAIN txns : txns'[t] = txns[t]
    BY <2>1 DEF Grows
  <2>5. \A e \in DOMAIN escrows : /\ (Shop!Funded(e))' <=> Shop!Funded(e)
                                  /\ EscrowRow(e)'
    <3>1. \A e \in DOMAIN escrows : /\ escrows[e].txn \in DOMAIN txns
                                    /\ txns'[escrows'[e].txn] = txns[escrows[e].txn]
                                    /\ escrows'[e] = escrows[e]
      BY <2>3, <2>4 DEF MoneyInv
    <3>2. \A e \in DOMAIN escrows : \A d \in 1 .. e - 1 : escrows'[d].txn = escrows[d].txn
      BY <2>3
    <3>3. \A e \in DOMAIN escrows : (Shop!Funded(e))' <=> Shop!Funded(e)
      BY <3>1, <3>2 DEF Shop!Funded
    <3>4. QED
      BY <1>2, <3>1, <3>3 DEF EscrowRow
  <2>6. Extends(Held, Held', n, amount)
    BY <2>3 DEF Held, Extends, Shop!OpenEscrows, Shop!Open
  <2>7. Sum(Held') = Sum(Held) + amount
    BY <1>2, <2>1, <2>6, SumExtends DEF Sum
  <2>8. CASE /\ Grows("escrow_lock", amount) /\ txn = Len(txns) + 1
             /\ bal'[Escrow] = bal[Escrow] + amount
    <3>1. (Shop!Funded(n))' /\ EscrowRow(n)'
      BY <2>3, <2>8 DEF MoneyInv, Shop!Funded, Grows, EscrowRow
    <3>2. Unpaid' = Unpaid
      BY <2>3, <2>5, <3>1 DEF Unpaid
    <3>3. QED
      BY <1>1, <1>2, <2>1, <2>3, <2>5, <2>7, <2>8, <3>1, <3>2
  <2>9. CASE UNCHANGED <<bal, txns>> /\ txn \in DOMAIN txns /\ txns[txn].key # NoKey
    <3>1. ~(Shop!Funded(n))' /\ EscrowRow(n)'
      <4>1. txns[txn].type = "escrow_lock" => \E e \in 1 .. n - 1 : escrows[e].txn = txn
        BY <2>3, <2>9 DEF MoneyInv
      <4>2. QED
        BY <2>3, <2>9, <4>1 DEF Shop!Funded, EscrowRow
    <3>2. Extends(Unpaid, Unpaid', n, amount)
      BY <2>3, <2>5, <3>1 DEF Unpaid, Extends
    <3>3. Sum(Unpaid') = Sum(Unpaid) + amount
      BY <1>2, <2>1, <3>2, SumExtends DEF Sum
    <3>4. QED
      BY <1>1, <1>2, <2>1, <2>3, <2>5, <2>7, <2>9, <3>1, <3>3
  <2>10. QED
    BY <2>1, <2>8, <2>9
<1>4. ASSUME NEW e \in DOMAIN escrows, NEW status, escrows[e].status \in Shop!Open,
             escrows' = [escrows EXCEPT ![e].status = status],
             \A t \in DOMAIN txns : txns'[t] = txns[t]
      PROVE  /\ Unpaid' = Unpaid /\ \A d \in DOMAIN escrows' : EscrowRow(d)'
             /\ status \in Shop!Open => Held' = Held
             /\ status \notin Shop!Open => Extends(Held', Held, e, escrows[e].amount)
  <2>1. /\ DOMAIN escrows' = DOMAIN escrows
        /\ \A d \in DOMAIN escrows : /\ escrows'[d].txn = escrows[d].txn
                                     /\ escrows'[d].amount = escrows[d].amount
        /\ \A d \in DOMAIN escrows \ {e} : escrows'[d].status = escrows[d].status
        /\ escrows'[e].status = status
    BY <1>4 DEF MoneyInv
  <2>2. \A d \in DOMAIN escrows : /\ (Shop!Funded(d))' <=> Shop!Funded(d)
                                  /\ txns'[escrows'[d].txn] = txns[escrows[d].txn]
    <3>1. \A d \in DOMAIN escrows : escrows[d].txn \in DOMAIN txns
      BY DEF MoneyInv
    <3>2. DOMAIN escrows = 1 .. Len(escrows)
      BY AppendFacts DEF MoneyInv
    <3>3. QED
      BY <1>4, <2>1, <3>1, <3>2 DEF Shop!Funded
  <2>3. Unpaid' = Unpaid /\ \A d \in DOMAIN escrows' : EscrowRow(d)'
    BY <1>2, <2>1, <2>2 DEF Unpaid, EscrowRow
  <2>4. status \in Shop!Open => Held' = Held
    BY <1>4, <2>1 DEF Held, Shop!OpenEscrows
  <2>5. status \notin Shop!Open => Extends(Held', Held, e, escrows[e].amount)
    BY <1>4, <2>1 DEF Held, Extends, Shop!OpenEscrows
  <2>6. QED
    BY <2>3, <2>4, <2>5
<1>5. CASE PaysEscrow
  <2>1. PICK e, status, type :
          /\ e \in DOMAIN escrows /\ status \in {"released", "refunded"}
          /\ escrows[e].status \in Shop!Open
          /\ escrows' = [escrows EXCEPT ![e].status = status]
          /\ Grows(type, escrows[e].amount)
          /\ bal'[Escrow] = bal[Escrow] - escrows[e].amount
    BY <1>5 DEF PaysEscrow
  <2>2. status \notin Shop!Open /\ escrows[e].amount \in Int /\ \A t \in DOMAIN txns : txns'[t] = txns[t]
    BY <2>1 DEF Shop!Open, MoneyInv, Grows
  <2>3. /\ Unpaid' = Unpaid /\ Extends(Held', Held, e, escrows[e].amount)
        /\ \A d \in DOMAIN escrows' : EscrowRow(d)'
    BY <1>4, <2>1, <2>2
  <2>4. Sum(Held) = Sum(Held') + escrows[e].amount /\ Sum(Held') \in Int
    <3>1. /\ DOMAIN Held' \subseteq DOMAIN Held
          /\ \A x \in DOMAIN Held' : Held'[x] = Held[x]
      BY <2>3 DEF Extends
    <3>2. IsFiniteSet(DOMAIN Held') /\ \A x \in DOMAIN Held' : Held'[x] \in Int
      BY <1>2, <3>1, FS_Subset
    <3>3. Sum(Held') \in Int
      BY <3>2, SumTakesOut DEF Sum
    <3>4. QED
      BY <2>2, <2>3, <3>2, <3>3, SumExtends DEF Sum
  <2>5. QED
    BY <1>1, <1>2, <2>1, <2>2, <2>3, <2>4
<1>6. CASE DisputesEscrow
  <2>1. PICK e \in DOMAIN escrows :
          /\ escrows[e].status = "active"
          /\ escrows' = [escrows EXCEPT ![e].status = "disputed"]
          /\ UNCHANGED <<bal, txns>>
    BY <1>6 DEF DisputesEscrow
  <2>2. escrows[e].status \in Shop!Open /\ "disputed" \in Shop!Open
    BY <2>1 DEF Shop!Open
  <2>3. Unpaid' = Unpaid /\ Held' = Held /\ \A d \in DOMAIN escrows' : EscrowRow(d)'
    BY <1>4, <2>1, <2>2
  <2>4. QED
    BY <1>1, <1>2, <2>1, <2>3
<1>7. CASE Locks1 \/ Unlocks1 \/ WaitsStake \/ Others
  <2>1. UNCHANGED escrows /\ EscrowKept /\ \A t \in DOMAIN txns : txns'[t] = txns[t]
    BY <1>7 DEF Locks1, Unlocks1, WaitsStake, Others, Quiet, EscrowKept, Grows
  <2>2. UNCHANGED <<Held, Unpaid>> /\ \A e \in DOMAIN escrows' : EscrowRow(e)'
    BY <1>2, <2>1, RowsKept
  <2>3. QED
    BY <1>1, <1>2, <2>1, <2>2 DEF EscrowKept
<1>8. QED
  BY <1>3, <1>5, <1>6, <1>7, MoneySteps

\* The locked balances stay accounted for, each owner's by itself.
LEMMA LockedAccounted ==
  ASSUME MoneyInv, Vault!Accounted, [Next]_vars
  PROVE  (Vault!Accounted)'
<1>1. (Vault!Accounted)' <=>
        /\ \A u \in Users : bal'[Locked(u)] = Sum(StakesHeld(u)') - Sum(StakesUnpaid(u)')
        /\ \A i \in DOMAIN stakes' : StakeRow(i)'
  <2>1. (Vault!Accounted <=>
           /\ \A u \in Users : bal[Locked(u)] = Sum(StakesHeld(u)) - Sum(StakesUnpaid(u))
           /\ \A i \in DOMAIN stakes : StakeRow(i))'
    BY AccountedSums, PTL
  <2>2. QED
    BY <2>1
<1>2. \A i \in DOMAIN stakes : StakeRow(i)
  BY AccountedSums
<1>3. ASSUME NEW u \in Users
      PROVE  /\ bal[Locked(u)] = Sum(StakesHeld(u)) - Sum(StakesUnpaid(u))
             /\ bal[Locked(u)] \in Int /\ Sum(StakesHeld(u)) \in Int /\ Sum(StakesUnpaid(u)) \in Int
             /\ IsFiniteSet(DOMAIN StakesHeld(u))
             /\ \A x \in DOMAIN StakesHeld(u) : StakesHeld(u)[x] \in Int
             /\ IsFiniteSet(DOMAIN StakesUnpaid(u))
             /\ \A x \in DOMAIN StakesUnpaid(u) : StakesUnpaid(u)[x] \in Int
  BY AccountedSums, SumsTyped, AccountsDiffer DEF MoneyInv
<1>4. CASE Locks1
  <2>1. PICK owner, amount, txn :
          /\ owner \in Users /\ amount \in Int
          /\ stakes' = Append(stakes, Vault!NewStake(owner, amount, txn))
          /\ \/ /\ Grows("staking_lock", amount) /\ txn = Len(txns) + 1
                /\ \A u \in Users :
                     bal'[Locked(u)] = bal[Locked(u)] + (IF u = owner THEN amount ELSE 0)
             \/ UNCHANGED <<bal, txns>> /\ txn \in DOMAIN txns /\ txns[txn].key # NoKey
    BY <1>4 DEF Locks1
  <2>2. PICK n : n = Len(stakes) + 1
    OBVIOUS
  <2>3. /\ DOMAIN stakes' = DOMAIN stakes \union {n} /\ n \notin DOMAIN stakes
        /\ DOMAIN stakes = 1 .. n - 1 /\ n \in Nat
        /\ \A i \in DOMAIN stakes : stakes'[i] = stakes[i]
        /\ stakes'[n].txn = txn /\ stakes'[n].status = "active"
        /\ stakes'[n].amount = amount /\ stakes'[n].owner = owner
    BY <2>1, <2>2, AppendFacts DEF MoneyInv, IsSeq, Vault!NewStake
  <2>4. \A t \in DOMAIN txns : txns'[t] = txns[t]
    BY <2>1 DEF Grows
  <2>5. \A i \in DOMAIN stakes : /\ (Vault!Funded(i))' <=> Vault!Funded(i)
                                 /\ StakeRow(i)'
    <3>1. \A i \in DOMAIN stakes : /\ stakes[i].txn \in DOMAIN txns
                                   /\ txns'[stakes'[i].txn] = txns[stakes[i].txn]
                                   /\ stakes'[i] = stakes[i]
      BY <2>3, <2>4 DEF MoneyInv
    <3>2. \A i \in DOMAIN stakes : \A j \in 1 .. i - 1 : stakes'[j].txn = stakes[j].txn
      BY <2>3
    <3>3. \A i \in DOMAIN stakes : (Vault!Funded(i))' <=> Vault!Funded(i)
      BY <3>1, <3>2 DEF Vault!Funded
    <3>4. QED
      BY <1>2, <3>1, <3>3 DEF StakeRow
  <2>6. Extends(StakesHeld(owner), StakesHeld(owner)', n, amount)
    BY <2>3 DEF StakesHeld, Extends, Vault!StakesOf
  <2>7. Sum(StakesHeld(owner)') = Sum(StakesHeld(owner)) + amount
    BY <1>3, <2>1, <2>6, SumExtends DEF Sum
  <2>8. \A u \in Users \ {owner} : UNCHANGED <<StakesHeld(u), StakesUnpaid(u)>>
    BY <2>3, <2>5 DEF StakesHeld, StakesUnpaid, Vault!StakesOf
  <2>9. CASE /\ Grows("staking_lock", amount) /\ txn = Len(txns) + 1
             /\ \A u \in Users :
                  bal'[Locked(u)] = bal[Locked(u)] + (IF u = owner THEN amount ELSE 0)
    <3>1. (Vault!Funded(n))' /\ StakeRow(n)'
      BY <2>3, <2>9 DEF MoneyInv, Vault!Funded, Grows, StakeRow
    <3>2. StakesUnpaid(owner)' = StakesUnpaid(owner)
      BY <2>3, <2>5, <3>1 DEF StakesUnpaid, Vault!StakesOf
    <3>3. ASSUME NEW u \in Users
          PROVE  bal'[Locked(u)] = Sum(StakesHeld(u)') - Sum(StakesUnpaid(u)')
      <4>1. CASE u = owner
        BY <1>3, <2>1, <2>7, <2>9, <3>2, <4>1
      <4>2. CASE u # owner
        BY <1>3, <2>8, <2>9, <4>2
      <4>3. QED
        BY <4>1, <4>2
    <3>4. QED
      BY <1>1, <2>3, <2>5, <3>1, <3>3
  <2>10. CASE UNCHANGED <<bal, txns>> /\ txn \in DOMAIN txns /\ txns[txn].key # NoKey
    <3>1. ~(Vault!Funded(n))' /\ StakeRow(n)'
      <4>1. txns[txn].type = "staking_lock" => \E i \in 1 .. n - 1 : stakes[i].txn = txn
        BY <2>3, <2>10 DEF MoneyInv
      <4>2. QED
        BY <2>3, <2>10, <4>1 DEF Vault!Funded, StakeRow
    <3>2. Extends(StakesUnpaid(owner), StakesUnpaid(owner)', n, amount)
      BY <2>3, <2>5, <3>1 DEF StakesUnpaid, Extends, Vault!StakesOf
    <3>3. Sum(StakesUnpaid(owner)') = Sum(StakesUnpaid(owner)) + amount
      BY <1>3, <2>1, <3>2, SumExtends DEF Sum
    <3>4. ASSUME NEW u \in Users
          PROVE  bal'[Locked(u)] = Sum(StakesHeld(u)') - Sum(StakesUnpaid(u)')
      <4>1. CASE u = owner
        BY <1>3, <2>1, <2>7, <2>10, <3>3, <4>1
      <4>2. CASE u # owner
        BY <1>3, <2>8, <2>10, <4>2
      <4>3. QED
        BY <4>1, <4>2
    <3>5. QED
      BY <1>1, <2>3, <2>5, <3>1, <3>4
  <2>11. QED
    BY <2>1, <2>9, <2>10
<1>5. ASSUME NEW i \in DOMAIN stakes, NEW owner \in Users, owner = stakes[i].owner,
             \/ \E status : stakes' = [stakes EXCEPT ![i].status = status]
             \/ stakes' = [stakes EXCEPT ![i].elapsed = TRUE],
             \A t \in DOMAIN txns : txns'[t] = txns[t]
      PROVE  /\ \A u \in Users : StakesUnpaid(u)' = StakesUnpaid(u)
             /\ \A j \in DOMAIN stakes' : StakeRow(j)'
             /\ \A u \in Users \ {owner} : StakesHeld(u)' = StakesHeld(u)
             /\ (stakes'[i].status = "released" <=> stakes[i].status = "released") =>
                  StakesHeld(owner)' = StakesHeld(owner)
             /\ stakes[i].status # "released" /\ stakes'[i].status = "released" =>
                  Extends(StakesHeld(owner)', StakesHeld(owner), i, stakes[i].amount)
  <2>1. /\ DOMAIN stakes' = DOMAIN stakes
        /\ \A j \in DOMAIN stakes : /\ stakes'[j].txn = stakes[j].txn
                                    /\ stakes'[j].amount = stakes[j].amount
                                    /\ stakes'[j].owner = stakes[j].owner
        /\ \A j \in DOMAIN stakes \ {i} : stakes'[j] = stakes[j]
    <3>1. CASE \E status : stakes' = [stakes EXCEPT ![i].status = status]
      BY <3>1
    <3>2. CASE stakes' = [stakes EXCEPT ![i].elapsed = TRUE]
      BY <3>2
    <3>3. QED
      BY <1>5, <3>1, <3>2
  <2>2. \A j \in DOMAIN stakes : /\ (Vault!Funded(j))' <=> Vault!Funded(j)
                                 /\ txns'[stakes'[j].txn] = txns[stakes[j].txn]
    <3>1. \A j \in DOMAIN stakes : stakes[j].txn \in DOMAIN txns
      BY DEF MoneyInv
    <3>2. DOMAIN stakes = 1 .. Len(stakes)
      BY AppendFacts DEF MoneyInv
    <3>3. QED
      BY <1>5, <2>1, <3>1, <3>2 DEF Vault!Funded
  <2>3. /\ \A u \in Users : StakesUnpaid(u)' = StakesUnpaid(u)
        /\ \A j \in DOMAIN stakes' : StakeRow(j)'
    BY <1>2, <2>1, <2>2 DEF StakesUnpaid, StakeRow, Vault!StakesOf
  <2>4. \A u \in Users \ {owner} : StakesHeld(u)' = StakesHeld(u)
    BY <1>5, <2>1 DEF StakesHeld, Vault!StakesOf
  <2>5. (stakes'[i].status = "released" <=> stakes[i].status = "released") =>
          StakesHeld(owner)' = StakesHeld(owner)
    BY <1>5, <2>1 DEF StakesHeld, Vault!StakesOf
  <2>6. stakes[i].status # "released" /\ stakes'[i].status = "released" =>
          Extends(StakesHeld(owner)', StakesHeld(owner), i, stakes[i].amount)
    BY <1>5, <2>1 DEF StakesHeld, Extends, Vault!StakesOf
  <2>7. QED
    BY <2>3, <2>4, <2>5, <2>6
<1>6. CASE Unlocks1
  <2>1. PICK i \in DOMAIN stakes :
          /\ stakes[i].status = "cooldown"
          /\ stakes' = [stakes EXCEPT ![i].status = "released"]
          /\ Grows("staking_unlock", stakes[i].amount)
          /\ \A u \in Users : bal'[Locked(u)] =
               bal[Locked(u)] - (IF u = stakes[i].owner THEN stakes[i].amount ELSE 0)
    BY <1>6 DEF Unlocks1
  <2>2. PICK owner, amount : owner = stakes[i].owner /\ amount = stakes[i].amount
    OBVIOUS
  <2>3. /\ owner \in Users /\ amount \in Int /\ stakes'[i].status = "released"
        /\ \A t \in DOMAIN txns : txns'[t] = txns[t]
    BY <2>1, <2>2 DEF MoneyInv, Grows
  <2>4. /\ \A u \in Users : StakesUnpaid(u)' = StakesUnpaid(u)
        /\ \A j \in DOMAIN stakes' : StakeRow(j)'
        /\ \A u \in Users \ {owner} : StakesHeld(u)' = StakesHeld(u)
        /\ Extends(StakesHeld(owner)', StakesHeld(owner), i, amount)
    <3>1. /\ \E status : stakes' = [stakes EXCEPT ![i].status = status]
          /\ stakes[i].status # "released"
      BY <2>1
    <3>2. QED
      BY <1>5, <2>2, <2>3, <3>1
  <2>5. Sum(StakesHeld(owner)) = Sum(StakesHeld(owner)') + amount /\ Sum(StakesHeld(owner)') \in Int
    <3> DEFINE f == StakesHeld(owner)
               g == StakesHeld(owner)'
    <3>1. Extends(g, f, i, amount) /\ IsFiniteSet(DOMAIN f) /\ \A x \in DOMAIN f : f[x] \in Int
      BY <1>3, <2>3, <2>4
    <3> HIDE DEF f, g
    <3>2. /\ DOMAIN g \subseteq DOMAIN f
          /\ \A x \in DOMAIN g : g[x] = f[x]
      BY <3>1 DEF Extends
    <3>3. IsFiniteSet(DOMAIN g) /\ \A x \in DOMAIN g : g[x] \in Int
      BY <3>1, <3>2, FS_Subset
    <3>4. Sum(g) \in Int
      BY <3>3, SumTakesOut DEF Sum
    <3>5. Sum(f) = Sum(g) + amount
      BY <2>3, <3>1, <3>3, SumExtends DEF Sum
    <3>6. QED
      BY <3>4, <3>5 DEF f, g
  <2>6. ASSUME NEW u \in Users
        PROVE  bal'[Locked(u)] = Sum(StakesHeld(u)') - Sum(StakesUnpaid(u)')
    <3>1. CASE u = owner
      BY <1>3, <2>1, <2>2, <2>3, <2>4, <2>5, <3>1
    <3>2. CASE u # owner
      BY <1>3, <2>1, <2>2, <2>4, <3>2
    <3>3. QED
      BY <3>1, <3>2
  <2>7. QED
    BY <1>1, <2>4, <2>6
<1>7. CASE WaitsStake
  <2>1. UNCHANGED <<bal, txns>>
    BY <1>7 DEF WaitsStake
  <2>2. PICK i \in DOMAIN stakes :
          \/ stakes[i].status = "active" /\ stakes' = [stakes EXCEPT ![i].status = "cooldown"]
          \/ stakes' = [stakes EXCEPT ![i].elapsed = TRUE]
    BY <1>7 DEF WaitsStake
  <2>3. stakes'[i].status = "released" <=> stakes[i].status = "released"
    BY <2>2 DEF MoneyInv
  <2>4. stakes[i].owner \in Users
    BY DEF MoneyInv
  <2>5. /\ \A u \in Users : StakesUnpaid(u)' = StakesUnpaid(u) /\ StakesHeld(u)' = StakesHeld(u)
        /\ \A j \in DOMAIN stakes' : StakeRow(j)'
    <3>1. /\ \/ \E status : stakes' = [stakes EXCEPT ![i].status = status]
             \/ stakes' = [stakes EXCEPT ![i].elapsed = TRUE]
          /\ \A t \in DOMAIN txns : txns'[t] = txns[t]
      BY <2>1, <2>2
    <3>2. PICK owner : owner = stakes[i].owner
      OBVIOUS
    <3>3. /\ \A u \in Users : StakesUnpaid(u)' = StakesUnpaid(u)
          /\ \A j \in DOMAIN stakes' : StakeRow(j)'
          /\ \A u \in Users \ {owner} : StakesHeld(u)' = StakesHeld(u)
          /\ StakesHeld(owner)' = StakesHeld(owner)
      BY <1>5, <2>3, <2>4, <3>1, <3>2
    <3>4. QED
      BY <3>3
  <2>6. QED
    BY <1>1, <1>3, <2>1, <2>5
<1>8. CASE Buys \/ PaysEscrow \/ DisputesEscrow \/ Others
  <2>1. UNCHANGED stakes /\ LockedKept /\ \A t \in DOMAIN txns : txns'[t] = txns[t]
    BY <1>8 DEF Buys, PaysEscrow, DisputesEscrow, Others, Quiet, LockedKept, Grows
  <2>2. /\ \A u \in Users : UNCHANGED <<StakesHeld(u), StakesUnpaid(u)>>
        /\ \A i \in DOMAIN stakes' : StakeRow(i)'
    BY <1>2, <2>1, RowsKept
  <2>3. QED
    BY <1>1, <1>3, <2>1, <2>2 DEF LockedKept
<1>9. QED
  BY <1>4, <1>6, <1>7, <1>8, MoneySteps

\* At first nothing is held or locked.
LEMMA MoneyInit == Init => MoneyInv /\ FundsAccounted
<1> SUFFICES ASSUME Init PROVE MoneyInv /\ FundsAccounted
  OBVIOUS
<1>1. MoneyInv
  BY CommerceAssumption DEF Init, MoneyInv, IsSeq
<1>2. /\ DOMAIN Held = {} /\ DOMAIN Unpaid = {} /\ DOMAIN escrows = {} /\ DOMAIN stakes = {}
      /\ \A u : DOMAIN StakesHeld(u) = {} /\ DOMAIN StakesUnpaid(u) = {}
  BY DEF Init, Held, Unpaid, StakesHeld, StakesUnpaid, Shop!OpenEscrows, Vault!StakesOf
<1>3. Sum(Held) = 0 /\ Sum(Unpaid) = 0 /\ \A u : Sum(StakesHeld(u)) = 0 /\ Sum(StakesUnpaid(u)) = 0
  BY <1>2, SumEmpty DEF Sum
<1>4. bal[Escrow] = 0 /\ \A u \in Users : bal[Locked(u)] = 0
  BY AccountsDiffer DEF Init
<1>5. QED
  BY <1>1, <1>2, <1>3, <1>4, AccountedSums DEF FundsAccounted

\* The escrow wallet and the locked balances hold what the open purchases and the
\* stakes say, short by nothing but the rows that used keys inserted, whatever the
\* users, amounts and keys.
THEOREM FundsStayAccounted == Spec => []FundsAccounted
<1> DEFINE Inv == MoneyInv /\ FundsAccounted
<1>1. Init => Inv
  BY MoneyInit
<1>2. Inv /\ [Next]_vars => Inv'
  BY MoneyStep, EscrowAccounted, LockedAccounted DEF FundsAccounted
<1>3. QED
  BY <1>1, <1>2, PTL DEF Spec

------------------------------------------------------------------------------
(* Tournaments pay out what they took in, and no more.                       *)

TourneyTypes == {"tournament_entry", "tournament_prize"}

\* The fees and the prizes of a tournament.
FeesOf(t) == [i \in Arena!Entries(t) |-> txns[i].amount]
PrizesOf(t) == [i \in Arena!Prizes(t) |-> txns[i].amount]

\* How a step touches them, and the settlements under way.
NoTourney == /\ settling' = settling
             /\ \/ UNCHANGED txns
                \/ \E type, ref : type \notin TourneyTypes /\ Gains(type, ref)

Enters ==
  \E t \in Tourneys, amount \in Nat :
    /\ settling' = settling
    /\ Grows("tournament_entry", amount) /\ txns'[Len(txns) + 1].ref = t

Reads ==
  \E t \in Tourneys : \E r :
    /\ UNCHANGED txns /\ settling' = settling \union {r}
    /\ r.tournament = t /\ r.pool = Sum(FeesOf(t))

Drops == UNCHANGED txns /\ settling' \subseteq settling

Pays ==
  \E r \in settling :
    /\ settling' \subseteq settling
    /\ Grows("tournament_prize", r.pool)
    /\ txns'[Len(txns) + 1].ref = r.tournament
    /\ txns'[Len(txns) + 1].key = Arena!SettleKey(r.tournament)
    /\ \A t \in DOMAIN txns : txns[t].key # Arena!SettleKey(r.tournament)

\* A prize carries the key of its tournament, so that there is one at most, and
\* a settlement under way read a pool that its tournament has taken in.
TourneyInv ==
  /\ \A i \in DOMAIN txns : txns[i].type = "tournament_entry" => txns[i].amount >= 0
  /\ \A i \in DOMAIN txns :
       txns[i].type = "tournament_prize" => txns[i].key = Arena!SettleKey(txns[i].ref)
  /\ \A r \in settling : r.pool <= Sum(FeesOf(r.tournament))
  /\ \A t \in Tourneys : Sum(PrizesOf(t)) <= Sum(FeesOf(t))

\* The sums of the tournaments are these.
LEMMA ArenaSums ==
  /\ \A t : Arena!Amounts(Arena!Entries(t)) = Sum(FeesOf(t))
  /\ \A t : Arena!Amounts(Arena!Prizes(t)) = Sum(PrizesOf(t))
BY SumsAgree DEF Arena!Amounts, FeesOf, PrizesOf, Sum

LEMMA ArenaSumsTyped ==
  ASSUME MoneyInv, NEW t
  PROVE  /\ IsFiniteSet(DOMAIN FeesOf(t)) /\ \A i \in DOMAIN FeesOf(t) : FeesOf(t)[i] \in Int
         /\ Sum(FeesOf(t)) \in Int
         /\ IsFiniteSet(DOMAIN PrizesOf(t)) /\ \A i \in DOMAIN PrizesOf(t) : PrizesOf(t)[i] \in Int
         /\ Sum(PrizesOf(t)) \in Int
<1>1. PICK f, g : f = FeesOf(t) /\ g = PrizesOf(t)
  OBVIOUS
<1>2. /\ DOMAIN f \subseteq DOMAIN txns /\ DOMAIN g \subseteq DOMAIN txns
      /\ \A i \in DOMAIN f : f[i] \in Int
      /\ \A i \in DOMAIN g : g[i] \in Int
  BY <1>1 DEF FeesOf, PrizesOf, Arena!Entries, Arena!Prizes, MoneyInv
<1>3. IsFiniteSet(DOMAIN f) /\ IsFiniteSet(DOMAIN g)
  BY <1>2, SeqFinite, FS_Subset DEF MoneyInv
<1>4. SumFunctionOnSet(f, DOMAIN f) \in Int /\ SumFunctionOnSet(g, DOMAIN g) \in Int
  BY <1>2, <1>3, SumTakesOut
<1>5. QED
  BY <1>1, <1>2, <1>3, <1>4 DEF Sum

\* Every step is one of these for the tournaments.
LEMMA TourneySteps ==
  ASSUME MoneyInv, [Next]_vars
  PROVE  NoTourney \/ Enters \/ Reads \/ Drops \/ Pays
<1>0. IsSeq(txns)
  BY DEF MoneyInv
<1>1. CASE Shop!Next /\ UNCHANGED settling
  <2>1. ASSUME NEW buyer, NEW amount, NEW key, Shop!Purchase(buyer, amount, key)
        PROVE  NoTourney
    BY <1>0, <1>1, <2>1, PostGains DEF Shop!Purchase, NoTourney, TourneyTypes
  <2>2. ASSUME NEW e, Shop!Settle(e) \/ Shop!Refund(e) \/ Shop!Dispute(e)
        PROVE  NoTourney
    BY <1>0, <1>1, <2>2, PostGains DEF Shop!Settle, Shop!Refund, Shop!Dispute, NoTourney, TourneyTypes
  <2>3. ASSUME NEW amount, NEW key, Shop!ReleasePending(amount, key)
        PROVE  NoTourney
    BY <1>0, <1>1, <2>3, PostGains DEF Shop!ReleasePending, NoTourney, TourneyTypes
  <2>4. QED
    BY <1>1, <2>1, <2>2, <2>3 DEF Shop!Next
<1>2. CASE Vault!Next /\ UNCHANGED settling
  <2>1. ASSUME NEW owner, NEW amount, NEW key, Vault!Stake(owner, amount, key)
        PROVE  NoTourney
    BY <1>0, <1>2, <2>1, PostGains DEF Vault!Stake, NoTourney, TourneyTypes
  <2>2. ASSUME NEW i, Vault!RequestUnstake(i) \/ Vault!Elapse(i) \/ Vault!CompleteUnstake(i)
        PROVE  NoTourney
    BY <1>0, <1>2, <2>2, PostGains
    DEF Vault!RequestUnstake, Vault!Elapse, Vault!CompleteUnstake, NoTourney, TourneyTypes
  <2>3. QED
    BY <1>2, <2>1, <2>2 DEF Vault!Next
<1>3. CASE Arena!Next
  <2>1. ASSUME NEW t \in Tourneys, NEW player, NEW fee \in EntryFees, Arena!Join(t, player, fee)
        PROVE  Enters
    <3>1. fee \in Int
      BY CommerceAssumption
    <3>2. PICK key : key = Arena!JoinKey(t, player)
      OBVIOUS
    <3>3. AnyPost("tournament_entry", t, key, Available(player), Credit(Pool, fee))
      BY <2>1, <3>2 DEF AnyPost, Arena!Join, Arena!Available, Available, Arena!Pool, Pool,
                        Arena!Credit, Credit
    <3>4. Grows("tournament_entry", fee) /\ txns'[Len(txns) + 1].ref = t /\ fee > 0
      BY <1>0, <3>1, <3>3, OneMove
    <3>5. fee \in Nat
      BY <3>1, <3>4
    <3>6. QED
      BY <2>1, <3>4, <3>5 DEF Enters, Arena!Join
  <2>2. ASSUME NEW t \in Tourneys, NEW winner, Arena!ReadPool(t, winner)
        PROVE  Reads
    <3> DEFINE r == [tournament |-> t, winner |-> winner, pool |-> Arena!Amounts(Arena!Entries(t))]
    <3>1. UNCHANGED txns /\ settling' = settling \union {r}
      BY <2>2 DEF Arena!ReadPool
    <3>2. r.tournament = t /\ r.pool = Sum(FeesOf(t))
      BY ArenaSums
    <3> HIDE DEF r
    <3>3. QED
      BY <3>1, <3>2 DEF Reads
  <2>3. ASSUME NEW r \in settling, Arena!Abandon(r)
        PROVE  Drops
    BY <2>3 DEF Arena!Abandon, Drops
  <2>4. ASSUME NEW r \in settling, Arena!PayPrizes(r)
        PROVE  Drops \/ Pays
    <3>1. settling' \subseteq settling
      BY <2>4 DEF Arena!PayPrizes
    <3>2. CASE UNCHANGED txns
      BY <3>1, <3>2 DEF Drops
    <3>3. CASE Arena!Post("tournament_prize", r.tournament, Arena!SettleKey(r.tournament), Pool,
                          Arena!PrizeCredits(r))
      <4>1. PICK credits, tournament, key, pool, winner :
              /\ credits = Arena!PrizeCredits(r) /\ tournament = r.tournament
              /\ key = Arena!SettleKey(r.tournament) /\ pool = r.pool /\ winner = r.winner
        OBVIOUS
      <4>2. r.pool \in Nat /\ r.winner \in Users /\ tournament \in Tourneys /\ key # NoKey
        BY <4>1, CommerceAssumption DEF MoneyInv
      <4>3. SumFunctionOnSet(credits, DOMAIN credits) = pool /\ pool \in Int
        BY <4>1, <4>2, PrizeTotal
      <4>4. AnyPost("tournament_prize", tournament, key, Pool, credits)
        BY <3>3, <4>1 DEF AnyPost
      <4>5. /\ Grows("tournament_prize", pool)
            /\ txns'[Len(txns) + 1].ref = tournament /\ txns'[Len(txns) + 1].key = key
            /\ \A t \in DOMAIN txns : txns[t].key # key
        BY <1>0, <4>2, <4>3, <4>4, PostMoves
      <4>6. QED
        BY <3>1, <4>1, <4>5 DEF Pays
    <3>4. QED
      BY <2>4, <3>2, <3>3 DEF Arena!PayPrizes, Arena!Pool, Pool, Arena!Available, Available
  <2>5. QED
    BY <1>3, <2>1, <2>2, <2>3, <2>4 DEF Arena!Next
<1>4. CASE UNCHANGED vars
  BY <1>4 DEF vars, NoTourney
<1>5. QED
  BY <1>1, <1>2, <1>3, <1>4 DEF Next

\* Every step keeps the payouts below the fees.
LEMMA TourneyStep ==
  ASSUME MoneyInv, TourneyInv, [Next]_vars
  PROVE  TourneyInv'
<1>1. ASSUME UNCHANGED txns PROVE \A t : FeesOf(t)' = FeesOf(t) /\ PrizesOf(t)' = PrizesOf(t)
  BY <1>1 DEF FeesOf, PrizesOf, Arena!Entries, Arena!Prizes
<1>2. CASE NoTourney
  <2>1. \A t : FeesOf(t)' = FeesOf(t) /\ PrizesOf(t)' = PrizesOf(t)
    BY <1>1, <1>2 DEF NoTourney, Gains, TourneyTypes, FeesOf, PrizesOf, Arena!Entries, Arena!Prizes
  <2>2. \A i \in DOMAIN txns' : txns'[i].type \in TourneyTypes =>
          i \in DOMAIN txns /\ txns'[i] = txns[i]
    BY <1>2 DEF NoTourney, Gains
  <2>3. \A t : Sum(FeesOf(t))' = Sum(FeesOf(t)) /\ Sum(PrizesOf(t))' = Sum(PrizesOf(t))
    BY <2>1 DEF Sum
  <2>4. QED
    BY <1>2, <2>2, <2>3 DEF TourneyInv, NoTourney, TourneyTypes
<1>3. CASE Reads \/ Drops
  <2>1. UNCHANGED txns
    BY <1>3 DEF Reads, Drops
  <2>2. \A t : Sum(FeesOf(t))' = Sum(FeesOf(t)) /\ Sum(PrizesOf(t))' = Sum(PrizesOf(t))
    BY <1>1, <2>1 DEF Sum
  <2>3. \A r \in settling' : r.pool <= Sum(FeesOf(r.tournament))
    <3>1. \A t : Sum(FeesOf(t)) \in Int
      BY ArenaSumsTyped
    <3>2. \A n \in Int : n <= n
      OBVIOUS
    <3>3. QED
      BY <1>3, <3>1, <3>2 DEF Reads, Drops, TourneyInv
  <2>4. QED
    BY <2>1, <2>2, <2>3 DEF TourneyInv
<1>4. CASE Enters
  <2>1. PICK t, amount, n :
          /\ t \in Tourneys /\ amount \in Nat
          /\ settling' = settling /\ n = Len(txns) + 1
          /\ Grows("tournament_entry", amount) /\ txns'[n].ref = t
    BY <1>4 DEF Enters
  <2>2. /\ DOMAIN txns' = DOMAIN txns \union {n} /\ n \notin DOMAIN txns
        /\ \A i \in DOMAIN txns : txns'[i] = txns[i]
        /\ txns'[n].type = "tournament_entry" /\ txns'[n].amount = amount
    BY <2>1 DEF Grows
  <2>3. \A u : PrizesOf(u)' = PrizesOf(u)
    BY <2>2 DEF PrizesOf, Arena!Prizes
  <2>4. \A u : u # t => FeesOf(u)' = FeesOf(u)
    BY <2>1, <2>2 DEF FeesOf, Arena!Entries
  <2>5. Extends(FeesOf(t), FeesOf(t)', n, amount)
    BY <2>1, <2>2 DEF FeesOf, Arena!Entries, Extends
  <2>6. Sum(FeesOf(t)') = Sum(FeesOf(t)) + amount
    BY <2>1, <2>5, ArenaSumsTyped, SumExtends DEF Sum
  <2>7. \A u : Sum(FeesOf(u)) \in Int /\ Sum(PrizesOf(u)) \in Int
    BY ArenaSumsTyped
  <2>8. \A u : /\ Sum(FeesOf(u)') \in Int /\ Sum(FeesOf(u)) <= Sum(FeesOf(u)')
               /\ Sum(PrizesOf(u)') = Sum(PrizesOf(u))
    <3>1. \A k \in Int, m \in Nat : k + m \in Int /\ k <= k + m /\ k <= k
      OBVIOUS
    <3>2. QED
      BY <2>1, <2>3, <2>4, <2>6, <2>7, <3>1, Zenon
  <2>9. \A x, y, z \in Int : x <= y /\ y <= z => x <= z
    OBVIOUS
  <2>10. \A r \in settling' : r.pool <= Sum(FeesOf(r.tournament)')
    <3>1. \A r \in settling' : r.pool \in Int /\ r.pool <= Sum(FeesOf(r.tournament))
      BY <2>1 DEF TourneyInv, MoneyInv
    <3>2. QED
      BY <2>7, <2>8, <2>9, <3>1
  <2>11. \A u \in Tourneys : Sum(PrizesOf(u)') <= Sum(FeesOf(u)')
    BY <2>7, <2>8, <2>9 DEF TourneyInv
  <2>12. /\ \A i \in DOMAIN txns' : txns'[i].type = "tournament_entry" => txns'[i].amount >= 0
         /\ \A i \in DOMAIN txns' : txns'[i].type = "tournament_prize" =>
              txns'[i].key = Arena!SettleKey(txns'[i].ref)
    BY <2>1, <2>2 DEF TourneyInv
  <2>13. QED
    BY <2>10, <2>11, <2>12 DEF TourneyInv, Sum
<1>5. CASE Pays
  <2>1. PICK r, t, pool, n :
          /\ r \in settling
          /\ settling' \subseteq settling /\ n = Len(txns) + 1
          /\ t = r.tournament /\ pool = r.pool
          /\ Grows("tournament_prize", pool) /\ txns'[n].ref = t
          /\ txns'[n].key = Arena!SettleKey(t)
          /\ \A i \in DOMAIN txns : txns[i].key # Arena!SettleKey(t)
    BY <1>5 DEF Pays
  <2>2. /\ DOMAIN txns' = DOMAIN txns \union {n} /\ n \notin DOMAIN txns
        /\ \A i \in DOMAIN txns : txns'[i] = txns[i]
        /\ txns'[n].type = "tournament_prize" /\ txns'[n].amount = pool
    BY <2>1 DEF Grows
  <2>3. \A u : FeesOf(u)' = FeesOf(u)
    BY <2>2 DEF FeesOf, Arena!Entries
  <2>4. \A u : u # t => PrizesOf(u)' = PrizesOf(u)
    BY <2>1, <2>2 DEF PrizesOf, Arena!Prizes
  <2>5. Arena!Prizes(t) = {}
    BY <2>1 DEF TourneyInv, Arena!Prizes
  <2>6. Extends(PrizesOf(t), PrizesOf(t)', n, pool)
    BY <2>1, <2>2 DEF PrizesOf, Arena!Prizes, Extends
  <2>7. pool \in Int /\ pool <= Sum(FeesOf(t)) /\ Sum(FeesOf(t)) \in Int
    BY <2>1, ArenaSumsTyped DEF TourneyInv, MoneyInv
  <2>8. Sum(PrizesOf(t)) = 0
    <3>1. DOMAIN PrizesOf(t) = {}
      BY <2>5 DEF PrizesOf
    <3>2. QED
      BY <3>1, SumEmpty DEF Sum
  <2>9. Sum(PrizesOf(t)') = Sum(PrizesOf(t)) + pool
    BY <2>6, <2>7, ArenaSumsTyped, SumExtends DEF Sum
  <2>10. Sum(PrizesOf(t)') <= Sum(FeesOf(t))
    BY <2>7, <2>8, <2>9
  <2>11. /\ \A u \in Tourneys : Sum(PrizesOf(u)') <= Sum(FeesOf(u)')
         /\ \A s \in settling' : s.pool <= Sum(FeesOf(s.tournament)')
    BY <2>1, <2>3, <2>4, <2>10 DEF TourneyInv
  <2>12. /\ \A i \in DOMAIN txns' : txns'[i].type = "tournament_entry" => txns'[i].amount >= 0
         /\ \A i \in DOMAIN txns' : txns'[i].type = "tournament_prize" =>
              txns'[i].key = Arena!SettleKey(txns'[i].ref)
    BY <2>1, <2>2 DEF TourneyInv
  <2>13. QED
    BY <2>11, <2>12 DEF TourneyInv, Sum
<1>6. QED
  BY <1>2, <1>3, <1>4, <1>5, TourneySteps

\* No tournament pays out more than its own entry fees, whatever the fees, the
\* rake, the settlements under way and what the others have in the same wallet.
THEOREM TournamentsPayTheirOwn == Spec => []TournamentNeverPaysMore
<1> DEFINE Inv == MoneyInv /\ TourneyInv
<1>1. Init => Inv
  <2>1. Init => TourneyInv
    <3> SUFFICES ASSUME Init PROVE TourneyInv
      OBVIOUS
    <3>1. \A t : DOMAIN FeesOf(t) = {} /\ DOMAIN PrizesOf(t) = {}
      BY DEF Init, FeesOf, PrizesOf, Arena!Entries, Arena!Prizes
    <3>2. \A t : Sum(FeesOf(t)) = 0 /\ Sum(PrizesOf(t)) = 0
      BY <3>1, SumEmpty DEF Sum
    <3>3. QED
      BY <3>2 DEF Init, TourneyInv
  <2>2. QED
    BY <2>1, MoneyInit
<1>2. Inv /\ [Next]_vars => Inv'
  BY MoneyStep, TourneyStep
<1>3. Inv => TournamentNeverPaysMore
  BY ArenaSums DEF TourneyInv, TournamentNeverPaysMore, Arena!NeverPaysMore
<1>4. QED
  BY <1>1, <1>2, <1>3, PTL DEF Spec
==============================================================================
