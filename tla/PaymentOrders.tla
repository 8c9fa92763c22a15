--------------------------- MODULE PaymentOrders ---------------------------
(***************************************************************************)
(* Top-ups through NOWPayments (src/qntm-ledger/src/payments/orders.js).   *)
(* The request that creates an order writes it in two transactions, with   *)
(* the call of the gateway between them; webhooks and administrators lock  *)
(* the order row.  The gateway is external: the customer pays through the  *)
(* link the request returns; from then on the gateway may send any         *)
(* notification, in any order and any number of times.                     *)
(***************************************************************************)
EXTENDS Postings

CONSTANTS
  Customers,   \* users with a personal wallet
  TopUps,      \* the amounts ordered
  MaxTxns, MaxOrders  \* bounds on transactions and on orders

VARIABLES
  orders,    \* table payment_orders
  creating,  \* orders whose request waits for the gateway
  invoices   \* orders whose customer has the link to the gateway

Statuses == {"pending", "awaiting_webhook", "paid_pending_credit", "completed", "failed"}

SetOrder(o, status) == orders' = [orders EXCEPT ![o].status = status]
Ledger == <<bal, txns>>

CreateOrder(user, amount) ==
  /\ Len(orders) < MaxOrders
  /\ orders' = Append(orders, [user |-> user, amount |-> amount, status |-> "pending"])
  /\ creating' = creating \union {Len(orders) + 1}
  /\ UNCHANGED <<Ledger, invoices>>

\* The gateway's answer arrives: an UPDATE without a condition on the status.
StoreInvoice(o) ==
  /\ o \in creating
  /\ SetOrder(o, "awaiting_webhook")
  /\ creating' = creating \ {o}
  /\ invoices' = invoices \union {o}
  /\ UNCHANGED Ledger

\* The gateway refuses or does not answer in time.
InvoiceError(o) ==
  /\ o \in creating
  /\ SetOrder(o, "failed")
  /\ creating' = creating \ {o}
  /\ UNCHANGED <<Ledger, invoices>>

\* The process dies while it waits.
LoseRequest(o) ==
  /\ creating' = creating \ {o}
  /\ UNCHANGED <<Ledger, orders, invoices>>

OrderKey(o) == <<"purchase", o>>

\* _creditPurchase: the treasury pays, once per order.  (The callers look at the
\* status under a row lock first: the replay is a second line of defence.)
CreditPurchase(o) ==
  \/ /\ Len(txns) < MaxTxns
     /\ Post("purchase", o, OrderKey(o), Treasury, Credit(Available(orders[o].user), orders[o].amount))
  \/ Committed(OrderKey(o)) /\ UNCHANGED Ledger

\* Faulty: an underfunded treasury leaves the order completed.
UnderfundedCompletes(o) ==
  /\ ~Committed(OrderKey(o)) /\ bal[Treasury] < orders[o].amount
  /\ SetOrder(o, "completed")
  /\ UNCHANGED Ledger

\* handleWebhook, back at the savepoint.
Underfunded(o) ==
  /\ ~Committed(OrderKey(o)) /\ bal[Treasury] < orders[o].amount
  /\ SetOrder(o, "paid_pending_credit")
  /\ UNCHANGED Ledger

\* handleWebhook on an order that is not completed.  (A completed one, and a
\* payment that is still under way, change nothing.)
WebhookDead(o) == SetOrder(o, "failed") /\ UNCHANGED Ledger

WebhookPaid(o, priceMatches) ==
  IF priceMatches
    THEN (CreditPurchase(o) /\ SetOrder(o, "completed")) \/ Underfunded(o)
    ELSE SetOrder(o, "failed") /\ UNCHANGED Ledger

Webhook(o) ==
  /\ o \in invoices
  /\ orders[o].status # "completed"
  /\ WebhookDead(o) \/ \E priceMatches \in BOOLEAN : WebhookPaid(o, priceMatches)
  /\ UNCHANGED <<creating, invoices>>

ManualReCredit(o) ==
  /\ orders[o].status \in {"paid_pending_credit", "awaiting_webhook"}
  /\ CreditPurchase(o)
  /\ SetOrder(o, "completed")
  /\ UNCHANGED <<creating, invoices>>

\* Faulty: the override does not look at the status.
MarkFailedAny(o) ==
  /\ SetOrder(o, "failed")
  /\ UNCHANGED <<Ledger, creating, invoices>>

MarkFailed(o) ==
  /\ orders[o].status # "completed"
  /\ SetOrder(o, "failed")
  /\ UNCHANGED <<Ledger, creating, invoices>>

Next ==
  \/ \E user \in Customers, amount \in TopUps : CreateOrder(user, amount)
  \/ \E o \in creating : StoreInvoice(o) \/ InvoiceError(o) \/ LoseRequest(o)
  \/ \E o \in DOMAIN orders : Webhook(o) \/ ManualReCredit(o) \/ MarkFailed(o)

------------------------------------------------------------------------------
CreditsOf(o) == {t \in DOMAIN txns : txns[t].type = "purchase" /\ txns[t].ref = o}

\* Once an order is credited - by a webhook, a repeated one or an administrator -
\* it is credited no second time, and reads completed whatever arrives later.
CreditedIsFinal ==
  \A o \in DOMAIN orders : CreditsOf(o) # {} =>
    Cardinality(CreditsOf(o)) = 1 /\ orders[o].status = "completed"

\* A completed order has been credited, with its own amount.
CompletedIsCredited ==
  \A o \in DOMAIN orders : orders[o].status = "completed" =>
    \E t \in CreditsOf(o) : txns[t].amount = orders[o].amount
==============================================================================
