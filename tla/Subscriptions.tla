--------------------------- MODULE Subscriptions ---------------------------
(***************************************************************************)
(* Recurring subscriptions (src/qntm-ledger/src/subscriptions.js).  A      *)
(* worker - the API, or a run of the renewal job - lists subscriptions and *)
(* charges them one transaction at a time; what it listed may be stale by  *)
(* then.  Time counts billing intervals.                                   *)
(***************************************************************************)
EXTENDS Postings

CONSTANTS
  Workers,       \* processes that create and charge subscriptions
  Subscribers,   \* users with a personal wallet
  Creator,       \* the owner of the creator wallet
  Fee,           \* what an interval costs
  MAX_ATTEMPTS,  \* QNTM_SUB_MAX_ATTEMPTS
  MaxTxns, MaxSubs, MaxNow, \* bounds on transactions, subscriptions and time
  MaxAttempts    \* bound on the failures of a subscription that may be taken up again

VARIABLES
  subs,    \* table subscriptions; start is the first current_period_end
  listed,  \* the subscriptions each worker is about to charge
  now      \* the time, in billing intervals

POLICY == [treasury |-> 1600, burn |-> 400]
Stopped == {"cancelled", "expired", "paused"}

Credits ==
  Merged(Credit(Available(Creator), Remainder(Fee, POLICY.treasury, POLICY.burn)),
         Merged(Credit(Treasury, Share(Fee, POLICY.treasury)),
                Credit(Burn, Share(Fee, POLICY.burn))))

\* A trial is not charged; any other subscription takes its first charge at once.
Create(w, user, trial) ==
  /\ listed[w] = {}
  /\ Len(subs) < MaxSubs
  /\ subs' = Append(subs, [user |-> user, status |-> IF trial THEN "trialing" ELSE "active",
                           attempts |-> 0, periodEnd |-> now + 1, start |-> now + 1,
                           cancelAtPeriodEnd |-> FALSE])
  /\ listed' = [listed EXCEPT ![w] = IF trial THEN {} ELSE {Len(subs) + 1}]
  /\ UNCHANGED <<bal, txns, now>>

Due == {s \in DOMAIN subs : /\ subs[s].status \in {"active", "past_due"}
                            /\ subs[s].periodEnd <= now}

\* dueForRenewal
Tick(w) ==
  /\ listed[w] = {} /\ Due # {}
  /\ listed' = [listed EXCEPT ![w] = Due]
  /\ UNCHANGED <<bal, txns, subs, now>>

\* Faulty: one key for all periods of a subscription.
PeriodKeyConstant(s) == <<"sub", s>>

PeriodKey(s) == <<"sub", s, subs[s].periodEnd>>

Leave(w, s) == listed' = [listed EXCEPT ![w] = @ \ {s}] /\ UNCHANGED now

\* charge: the money moves and the period advances.  (The replay of a key is
\* in the code, but periods only advance: no key is ever presented twice.)
Renew(w, s) ==
  /\ s \in listed[w]
  /\ subs[s].status \notin Stopped
  /\ \/ /\ Len(txns) < MaxTxns
        /\ Post("subscription_payment", s, PeriodKey(s), Available(subs[s].user), Credits)
     \/ Committed(PeriodKey(s)) /\ UNCHANGED <<bal, txns>>
  /\ subs' = [subs EXCEPT ![s].status = "active", ![s].attempts = 0,
                          ![s].periodEnd = @ + 1]
  /\ Leave(w, s)

\* Faulty: the limit is compared with equality.
DunnedExactly(attempts) == IF attempts = MAX_ATTEMPTS THEN "cancelled" ELSE "past_due"

Dunned(attempts) == IF attempts >= MAX_ATTEMPTS THEN "cancelled" ELSE "past_due"

\* charge: back to the savepoint, and the failure is counted.
Dun(w, s) ==
  /\ s \in listed[w]
  /\ subs[s].status \notin Stopped
  /\ ~Committed(PeriodKey(s))
  /\ bal[Available(subs[s].user)] < Fee
  /\ subs' = [subs EXCEPT ![s].status = Dunned(subs[s].attempts + 1),
                          ![s].attempts = @ + 1]
  /\ Leave(w, s)
  /\ UNCHANGED <<bal, txns>>

\* charge refuses, or the worker dies before it gets to the subscription.
Skip(w, s) ==
  /\ s \in listed[w]
  /\ Leave(w, s)
  /\ UNCHANGED <<bal, txns, subs>>

\* cancel writes the status whatever it was: at the end of the period, it also
\* takes a cancelled subscription up again.
Cancel(s, atPeriodEnd) ==
  /\ subs[s].attempts < MaxAttempts
  /\ subs' = [subs EXCEPT ![s].status = IF atPeriodEnd THEN "active" ELSE "cancelled",
                          ![s].cancelAtPeriodEnd = atPeriodEnd]
  /\ UNCHANGED <<bal, txns, listed, now>>

Wait == now < MaxNow /\ now' = now + 1 /\ UNCHANGED <<bal, txns, subs, listed>>

Next ==
  \/ \E w \in Workers :
       \/ \E user \in Subscribers, trial \in BOOLEAN : Create(w, user, trial)
       \/ Tick(w)
       \/ \E s \in listed[w] : Renew(w, s) \/ Dun(w, s) \/ Skip(w, s)
  \/ \E s \in DOMAIN subs, atPeriodEnd \in BOOLEAN : Cancel(s, atPeriodEnd)
  \/ Wait

------------------------------------------------------------------------------
Payments(s) == {t \in DOMAIN txns : txns[t].type = "subscription_payment" /\ txns[t].ref = s}

\* A subscription is paid through exactly as many intervals as the ledger holds
\* payments for: no charge that fails or is retried extends it for nothing, and
\* no payment is lost on it.
PaidThrough ==
  \A s \in DOMAIN subs : subs[s].periodEnd = subs[s].start + Cardinality(Payments(s))

\* An overdue subscription has failed, but not as often as cancels it, however
\* many workers charge it, and also after it was taken up again.
OverdueCounts ==
  \A s \in DOMAIN subs : subs[s].status = "past_due" => subs[s].attempts \in 1 .. MAX_ATTEMPTS - 1

\* The comment on charge: a retried cron tick never double-charges.  Whoever is
\* charged has not paid for the time that is running, except at the start.
NeverDoubleCharges ==
  [][\A s \in DOMAIN subs : Payments(s)' # Payments(s) =>
       subs[s].periodEnd <= now \/ Payments(s) = {}]_<<bal, txns, subs, listed, now>>
==============================================================================
