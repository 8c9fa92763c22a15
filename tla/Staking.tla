------------------------------ MODULE Staking ------------------------------
(***************************************************************************)
(* Staking (src/qntm-ledger/src/staking.js): tokens move from available to *)
(* locked in one wallet, and back after a cooldown.  Each operation is one *)
(* transaction or one conditional UPDATE.                                  *)
(***************************************************************************)
EXTENDS Postings

CONSTANTS
  Stakers,   \* users with a personal wallet
  Stakes,    \* the amounts staked
  Keys,      \* idempotency keys that clients send
  MaxTxns,   \* bound on the transactions of the ledger
  MaxStakes  \* bound on the rows of stakes

VARIABLE stakes  \* table stakes; txn is the transaction the call returned

NewStake(owner, amount, txn) ==
  [owner |-> owner, amount |-> amount, status |-> "active", elapsed |-> FALSE,
   txn |-> txn]

Stake(owner, amount, key) ==
  /\ Len(stakes) < MaxStakes
  /\ \/ /\ Len(txns) < MaxTxns
        /\ Post("staking_lock", 0, key, Available(owner), Credit(Locked(owner), amount))
        /\ stakes' = Append(stakes, NewStake(owner, amount, Len(txns) + 1))
     \/ /\ Committed(key)
        /\ stakes' = Append(stakes, NewStake(owner, amount, Original(key)))
        /\ UNCHANGED <<bal, txns>>

\* Faulty: the cooldown starts whatever the status.
RequestUnstakeAny(i) ==
  /\ stakes' = [stakes EXCEPT ![i].status = "cooldown"]
  /\ UNCHANGED <<bal, txns>>

RequestUnstake(i) ==
  /\ stakes[i].status = "active"
  /\ stakes' = [stakes EXCEPT ![i].status = "cooldown"]
  /\ UNCHANGED <<bal, txns>>

\* cooldown_until passes.
Elapse(i) ==
  /\ stakes[i].status = "cooldown" /\ ~stakes[i].elapsed
  /\ stakes' = [stakes EXCEPT ![i].elapsed = TRUE]
  /\ UNCHANGED <<bal, txns>>

\* Faulty: a stake that is released already is released again.
CompleteUnstakeAgain(i) ==
  /\ Len(txns) < MaxTxns
  /\ stakes[i].status \in {"cooldown", "released"} /\ stakes[i].elapsed
  /\ Post("staking_unlock", i, NoKey, Locked(stakes[i].owner),
          Credit(Available(stakes[i].owner), stakes[i].amount))
  /\ stakes' = [stakes EXCEPT ![i].status = "released"]

CompleteUnstake(i) ==
  /\ Len(txns) < MaxTxns
  /\ stakes[i].status = "cooldown" /\ stakes[i].elapsed
  /\ Post("staking_unlock", i, NoKey, Locked(stakes[i].owner),
          Credit(Available(stakes[i].owner), stakes[i].amount))
  /\ stakes' = [stakes EXCEPT ![i].status = "released"]

Next ==
  \/ \E owner \in Stakers, amount \in Stakes, key \in Keys \union {NoKey} :
       Stake(owner, amount, key)
  \/ \E i \in DOMAIN stakes : RequestUnstake(i) \/ Elapse(i) \/ CompleteUnstake(i)

------------------------------------------------------------------------------
\* A row is funded by the staking_lock that it first was given.
Funded(i) == /\ txns[stakes[i].txn].type = "staking_lock"
             /\ \A j \in 1 .. i - 1 : stakes[j].txn # stakes[i].txn

AmountsOf(S) == SumFunction([i \in S |-> stakes[i].amount])
StakesOf(u) == {i \in DOMAIN stakes : stakes[i].owner = u}

\* What a user has locked are his stakes that are not released, less those of his
\* rows that a used key inserted and nothing funded; a row without funds comes of a
\* used key only, and a funded row is of the amount that its call locked.
Accounted ==
  /\ \A u \in Stakers :
       bal[Locked(u)] = AmountsOf({i \in StakesOf(u) : stakes[i].status # "released"})
                        - AmountsOf({i \in StakesOf(u) : ~Funded(i)})
  /\ \A i \in DOMAIN stakes :
       LET txn == txns[stakes[i].txn]
       IN  IF Funded(i) THEN txn.amount = stakes[i].amount ELSE txn.key # NoKey

\* A stake is released by one staking_unlock, and exactly then its status says so.
Unlocks(t, i) == txns[t].type = "staking_unlock" /\ txns[t].ref = i

ReleasedOnce ==
  \A i \in DOMAIN stakes :
    /\ stakes[i].status = "released" <=> (\E t \in DOMAIN txns : Unlocks(t, i))
    /\ \A t, u \in DOMAIN txns : Unlocks(t, i) /\ Unlocks(u, i) => t = u
==============================================================================
