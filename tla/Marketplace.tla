---------------------------- MODULE Marketplace ----------------------------
(***************************************************************************)
(* Escrow-protected purchases (marketplace.js, escrow.js, creators.js of   *)
(* src/qntm-ledger/src).  Each operation is one database transaction that  *)
(* locks the escrow row before it looks at its status, so it is one action *)
(* here; settle reads the row before, but only columns that never change.  *)
(***************************************************************************)
EXTENDS Postings

CONSTANTS
  Buyers,     \* users with a personal wallet
  Creator,    \* the owner of the creator wallet
  Prices,     \* the amounts of purchases
  Releases,   \* the amounts moved from pending to available
  Keys,       \* idempotency keys that clients send
  MaxTxns,    \* bound on the transactions of the ledger
  MaxEscrows  \* bound on the escrow rows

VARIABLE escrows  \* table escrows; txn is the transaction the purchase returned

DEFAULT_POLICY == [treasury |-> 1000, burn |-> 500]
Open == {"active", "disputed"}
OpenEscrows == {e \in DOMAIN escrows : escrows[e].status \in Open}

NewEscrow(buyer, amount, txn) ==
  [buyer |-> buyer, amount |-> amount, status |-> "active", txn |-> txn]

SetStatus(e, status) == escrows' = [escrows EXCEPT ![e].status = status]

\* createAndFund posts escrow_lock, or finds the key committed, and inserts a row.
Purchase(buyer, amount, key) ==
  /\ Len(escrows) < MaxEscrows
  /\ \/ /\ Len(txns) < MaxTxns
        /\ Post("escrow_lock", 0, key, Available(buyer), Credit(Escrow, amount))
        /\ escrows' = Append(escrows, NewEscrow(buyer, amount, Len(txns) + 1))
     \/ /\ Committed(key)
        /\ escrows' = Append(escrows, NewEscrow(buyer, amount, Original(key)))
        /\ UNCHANGED <<bal, txns>>

SettlementCredits(amount) ==
  Merged(Credit(Pending(Creator),
                Remainder(amount, DEFAULT_POLICY.treasury, DEFAULT_POLICY.burn)),
         Merged(Credit(Treasury, Share(amount, DEFAULT_POLICY.treasury)),
                Credit(Burn, Share(amount, DEFAULT_POLICY.burn))))

\* Faulty: the status is not looked at again under the row lock.
SettleUnchecked(e) ==
  /\ Len(txns) < MaxTxns
  /\ Post("escrow_release", e, NoKey, Escrow, SettlementCredits(escrows[e].amount))
  /\ SetStatus(e, "released")

\* marketplace.settle, escrow.release.
Settle(e) ==
  /\ Len(txns) < MaxTxns
  /\ escrows[e].status \in Open
  /\ Post("escrow_release", e, NoKey, Escrow, SettlementCredits(escrows[e].amount))
  /\ SetStatus(e, "released")

Refund(e) ==
  /\ Len(txns) < MaxTxns
  /\ escrows[e].status \in Open
  /\ Post("escrow_refund", e, NoKey, Escrow,
          Credit(Available(escrows[e].buyer), escrows[e].amount))
  /\ SetStatus(e, "refunded")

\* Faulty: an escrow that is closed can be disputed.
DisputeAny(e) == SetStatus(e, "disputed") /\ UNCHANGED <<bal, txns>>

Dispute(e) ==
  /\ escrows[e].status = "active"
  /\ SetStatus(e, "disputed")
  /\ UNCHANGED <<bal, txns>>

\* creators.releasePending
ReleasePending(amount, key) ==
  /\ Len(txns) < MaxTxns
  /\ Post("creator_release", 0, key, Pending(Creator), Credit(Available(Creator), amount))
  /\ UNCHANGED escrows

Next ==
  \/ \E buyer \in Buyers, amount \in Prices, key \in Keys \union {NoKey} :
       Purchase(buyer, amount, key)
  \/ \E e \in DOMAIN escrows : Settle(e) \/ Refund(e) \/ Dispute(e)
  \/ \E amount \in Releases, key \in Keys \union {NoKey} : ReleasePending(amount, key)

------------------------------------------------------------------------------
\* A row is funded by the escrow_lock that it alone, or it first, was given.  A
\* purchase that is replayed inserts a row that is not funded.
Funded(e) == /\ txns[escrows[e].txn].type = "escrow_lock"
             /\ \A d \in 1 .. e - 1 : escrows[d].txn # escrows[e].txn

AmountsOf(S) == SumFunction([e \in S |-> escrows[e].amount])

\* The escrow wallet holds the amounts of the open rows less those of all rows,
\* open or closed, that nothing funded: no row pays twice, or a part.  A funded
\* row's price is what its purchase paid in, and a row is without funds only if
\* its buyer's key had been used: without keys the wallet covers every open row.
Accounted ==
  /\ bal[Escrow] = AmountsOf(OpenEscrows) - AmountsOf({e \in DOMAIN escrows : ~Funded(e)})
  /\ \A e \in DOMAIN escrows :
       LET txn == txns[escrows[e].txn]
       IN  IF Funded(e) THEN txn.amount = escrows[e].amount ELSE txn.key # NoKey

\* Does not hold once a key was used again: that the wallet covers the open rows.
\* A row that nothing funded is settled or refunded from what others paid in.
OpenIsBacked == bal[Escrow] >= AmountsOf(OpenEscrows)

Paid(e) == escrows[e].status \notin Open

\* An escrow is paid out, by release or refund, exactly when its status says
\* so, and by one transaction only.
Payout(t, e) == /\ txns[t].type \in {"escrow_release", "escrow_refund"}
                /\ txns[t].ref = e

PaidOnce ==
  \A e \in DOMAIN escrows :
    /\ Paid(e) <=> (\E t \in DOMAIN txns : Payout(t, e))
    /\ \A t, u \in DOMAIN txns : Payout(t, e) /\ Payout(u, e) => t = u

\* The README of qntm-ledger: with an idempotency_key, retries are no-ops.  No
\* two escrows came of one transaction.
RetriesAreNoOps ==
  \A e, d \in DOMAIN escrows : e # d => escrows[e].txn # escrows[d].txn
==============================================================================
