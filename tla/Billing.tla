------------------------------ MODULE Billing ------------------------------
(***************************************************************************)
(* Top-ups and subscriptions of qntm-ledger on one ledger: a top-up pays   *)
(* an overdue subscription, and the fees of subscriptions fund the         *)
(* treasury that top-ups are paid from.                                    *)
(***************************************************************************)
EXTENDS Postings

CONSTANTS
  Users, Creator, Workers, Fee, MAX_ATTEMPTS, TopUps, Mints,
  MaxTxns, MaxSubs, MaxNow, MaxAttempts, MaxOrders

VARIABLES subs, listed, now, orders, creating, invoices

vars == <<bal, txns, subs, listed, now, orders, creating, invoices>>

Sub == INSTANCE Subscriptions WITH Subscribers <- Users
Order == INSTANCE PaymentOrders WITH Customers <- Users

ASSUME BillingAssumption == TopUps \subseteq Int /\ MAX_ATTEMPTS \in Nat

Init ==
  /\ bal = [a \in Accounts |-> 0]
  /\ txns = <<>>
  /\ subs = <<>>
  /\ listed = [w \in Workers |-> {}]
  /\ now = 0
  /\ orders = <<>>
  /\ creating = {}
  /\ invoices = {}

\* treasury.mint: genesis may be overdrawn.
MintToTreasury(amount) ==
  /\ Len(txns) < MaxTxns
  /\ bal' = [bal EXCEPT ![Genesis] = @ - amount, ![Treasury] = @ + amount]
  /\ txns' = Append(txns, [type |-> "mint", ref |-> 0, key |-> NoKey, amount |-> amount])

Next ==
  \/ Sub!Next /\ UNCHANGED <<orders, creating, invoices>>
  \/ Order!Next /\ UNCHANGED <<subs, listed, now>>
  \/ /\ \E amount \in Mints : MintToTreasury(amount)
     /\ UNCHANGED <<subs, listed, now, orders, creating, invoices>>

Spec == Init /\ [][Next]_vars

------------------------------------------------------------------------------
\* Subscriptions are paid through what was paid for, and dunning counts right (see
\* Subscriptions).
SubscriptionPaidThrough == Sub!PaidThrough /\ Sub!OverdueCounts

\* A retried renewal never charges twice (see Subscriptions).
RenewalNeverDoubleCharges == Sub!NeverDoubleCharges

\* A credited order is and stays completed, and a completed one has been credited
\* (see PaymentOrders).
OrdersCreditOnce == Order!CreditedIsFinal /\ Order!CompletedIsCredited
==============================================================================
