------------------------------ MODULE Postings ------------------------------
(***************************************************************************)
(* The ledger as the domain flows of qntm-ledger use it: a flow hands      *)
(* postTransaction a balanced list of movements inside its own database    *)
(* transaction, and the call takes effect when that transaction commits,   *)
(* or not at all (AtomicLedger, which Ledger implements).  Every flow here *)
(* debits one account and credits others.  A call that would overdraw, or  *)
(* move an amount that is not positive, rolls its whole transaction back:  *)
(* such an attempt changes nothing.                                        *)
(***************************************************************************)
EXTENDS Integers, Sequences, FiniteSets, Functions, TLC

CONSTANTS
  Accounts,  \* pairs <<wallet, balance kind>>
  NoKey      \* the call carries no idempotency key

VARIABLES
  bal,   \* the balance of each account, in base units
  txns   \* the committed transactions: type, reference, key, principal

Available(w) == <<w, "available">>
Pending(w) == <<w, "pending">>
Locked(w) == <<w, "locked">>

Escrow == Available("escrow")
Pool == Available("tournament_pool")
Treasury == Available("treasury")
Burn == Available("burn")
Genesis == Available("genesis")  \* the one wallet that goes below zero

\* What one account gets, and what the accounts of two lists get.
Credit(to, amount) == [a \in {to} |-> amount]
Merged(f, g) == [a \in (DOMAIN f) \union (DOMAIN g) |-> IF a \in DOMAIN f THEN f[a] ELSE g[a]]

Total(credits) == SumFunction(credits)

Committed(key) == key # NoKey /\ \E t \in DOMAIN txns : txns[t].key = key
Original(key) == CHOOSE t \in DOMAIN txns : txns[t].key = key

Posted(from, credits) ==
  [a \in Accounts |-> bal[a] - (IF a = from THEN Total(credits) ELSE 0)
                             + (IF a \in DOMAIN credits THEN credits[a] ELSE 0)]

\* A posting that is not a replay: debits one account, credits others.
Post(type, ref, key, from, credits) ==
  /\ ~Committed(key)
  /\ \A a \in DOMAIN credits : credits[a] > 0
  /\ bal[from] >= Total(credits)
  /\ bal' = Posted(from, credits)
  /\ txns' = Append(txns, [type |-> type, ref |-> ref, key |-> key,
                           amount |-> Total(credits)])

\* Several postings of one database transaction, all from one account: ps is a
\* sequence of payments.  If one of them overdraws, all are rolled back.
PostEach(from, ps) ==
  LET due(S) == SumFunctionOnSet([i \in DOMAIN ps |-> ps[i].amount], S)
  IN /\ \A i \in DOMAIN ps : ~Committed(ps[i].key) /\ ps[i].amount > 0
     /\ bal[from] >= due(DOMAIN ps)
     /\ bal' = [a \in Accounts |-> bal[a] - (IF a = from THEN due(DOMAIN ps) ELSE 0)
                                           + due({i \in DOMAIN ps : ps[i].to = a})]
     /\ txns' = txns \o [i \in DOMAIN ps |-> [type |-> ps[i].type, ref |-> ps[i].ref,
                                              key |-> ps[i].key, amount |-> ps[i].amount]]

\* The share of each part of a basis-point policy, and what is left over for
\* the part that absorbs the remainder (decimal.splitByBps).
Share(units, bps) == (units * bps) \div 10000
Remainder(units, bps1, bps2) == units - Share(units, bps1) - Share(units, bps2)
==============================================================================
