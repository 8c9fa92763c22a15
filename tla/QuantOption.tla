---------------------------- MODULE QuantOption ----------------------------
(***************************************************************************)
(* Quant Option (src/services/quantoption.js with simulated prices, and    *)
(* quantoption-signals.js): quick positions on a price path fixed by a     *)
(* seed, and positions on a signal whose verdict a webhook reports.  Both  *)
(* stake into one pool wallet and are paid from it.                        *)
(*                                                                         *)
(* Opening a position is a transaction of several statements at READ       *)
(* COMMITTED: it checks what others have committed so far and places its   *)
(* position later.  A call on a signal holds the row of the signal from    *)
(* its first statement.  Settlements look at the status under the lock of  *)
(* the position and take effect at once.                                   *)
(***************************************************************************)
EXTENDS Postings, SequencesExt

CONSTANTS
  Users,     \* players
  Sessions,  \* requests that may be under way at the same time
  Signals,   \* God Mode signals
  NoSignal,  \* what a quick position is bound to
  Stake,     \* what a position stakes
  Floor,     \* QUANTOPTION_POOL_FLOOR
  Funds,     \* what each user starts with
  Buffer,    \* what the pool starts with
  Reserve,   \* what the treasury starts with
  Grants,    \* the amounts an administrator funds the pool with
  MaxPositions  \* bound on the number of positions

ASSUME StakeAssumption == Stake \in Nat \ {0}
ASSUME SignalAssumption == NoSignal \notin Signals

VARIABLES
  positions,  \* both tables of positions
  signals,    \* the status of each signal
  spent,      \* the signals whose target or stop the live price has reached
  opening     \* the request each session executes

vars == <<bal, txns, positions, signals, spent, opening>>
Ledger == <<bal, txns>>

QuantPool == Available("quantoption")
Idle == [stage |-> "idle"]

------------------------------------------------------------------------------
\* The engine's money: the payout is 8500 basis points on top of the stake.
Profit(stake) == stake - Share(stake, 1500)

RequiredPool(staked) == staked + Profit(staked)

SettleAmount(outcome) ==
  CASE outcome = "win" -> Stake + Profit(Stake)
    [] outcome \in {"draw", "void"} -> Stake
    [] outcome = "lose" -> 0

\* The value of a position at the stop, at the entry and at the target.
CashOutCredits == {0, Stake, Stake + Profit(Stake)}

StatusOf(outcome) ==
  CASE outcome = "win" -> "won"
    [] outcome = "lose" -> "lost"
    [] OTHER -> outcome

OpenPositions == {p \in DOMAIN positions : positions[p].status = "open"}
Staked == Stake * Cardinality(OpenPositions)

\* The pool can pay all open positions and one more, were they all to win.
ExposureOk == bal[QuantPool] + Stake >= RequiredPool(Staked + Stake)

\* Faulty: the signal is read without FOR UPDATE.
RowUnlocked(s) == FALSE

RowLocked(s) == \E w \in Sessions : opening[w] # Idle /\ opening[w].signal = s

------------------------------------------------------------------------------
Init ==
  /\ bal = [a \in Accounts |-> CASE a = QuantPool -> Buffer
                                 [] a = Treasury -> Reserve
                                 [] OTHER -> Funds]
  /\ txns = <<>>
  /\ positions = <<>>
  /\ signals = [s \in Signals |-> "unknown"]
  /\ spent = {}
  /\ opening = [w \in Sessions |-> Idle]

Goto(w, call) == opening' = [opening EXCEPT ![w] = call]

\* openPosition, before its transaction: one open position per user.
StartQuick(w, user) ==
  /\ opening[w] = Idle
  /\ \A p \in OpenPositions : positions[p].user = user => positions[p].signal # NoSignal
  /\ Goto(w, [stage |-> "checking", user |-> user, signal |-> NoSignal])
  /\ UNCHANGED <<Ledger, positions, signals, spent>>

\* openSignalPosition: SELECT ... FOR UPDATE of a live signal.
LockSignal(w, user, s) ==
  /\ opening[w] = Idle
  /\ ~RowLocked(s)
  /\ signals[s] = "live"
  /\ Goto(w, [stage |-> "checking", user |-> user, signal |-> s])
  /\ UNCHANGED <<Ledger, positions, signals, spent>>

\* The live price has reached the target or the stop of the signal.  The call
\* has invalidateSignal write the row on a connection of its own, which waits for
\* the row lock; the lock is the call's, which waits for that connection.  No step
\* of the call follows.
FindInvalid(w) ==
  /\ opening[w].stage = "checking" /\ opening[w].signal \in spent
  /\ Goto(w, [opening[w] EXCEPT !.stage = "invalidating"])
  /\ UNCHANGED <<Ledger, positions, signals, spent>>

\* One open position per user and signal, and the exposure guard.
CheckExposure(w) ==
  /\ opening[w].stage = "checking" /\ opening[w].signal \notin spent
  /\ opening[w].signal # NoSignal =>
       \A p \in OpenPositions : positions[p].user = opening[w].user
                                  => positions[p].signal # opening[w].signal
  /\ ExposureOk
  /\ Goto(w, [opening[w] EXCEPT !.stage = "placing"])
  /\ UNCHANGED <<Ledger, positions, signals, spent>>

\* The position is inserted and the stake moves.  Its user may have set a time
\* limit; the seed of a quick position fixes what becomes of it.
Place(w, limit, fate) ==
  LET p == Len(positions) + 1  call == opening[w] IN
  /\ call.stage = "placing"
  /\ p <= MaxPositions
  /\ fate \in IF call.signal # NoSignal THEN {"verdict"}
              ELSE {"win", "lose"} \union (IF limit = "running" THEN {"void"} ELSE {})
  /\ Post("stake", p, <<"stake", p>>, Available(call.user), Credit(QuantPool, Stake))
  /\ positions' = Append(positions,
       [user |-> call.user, signal |-> call.signal, limit |-> limit, fate |-> fate, status |-> "open", payout |-> 0])
  /\ Goto(w, Idle)
  /\ UNCHANGED <<signals, spent>>

\* The call is refused, runs out of money or loses its connection.
Abandon(w) ==
  /\ opening[w].stage \in {"checking", "placing"}
  /\ Goto(w, Idle)
  /\ UNCHANGED <<Ledger, positions, signals, spent>>

\* The process restarts; the database rolls all its transactions back.
Restart ==
  /\ opening' = [w \in Sessions |-> Idle]
  /\ UNCHANGED <<Ledger, positions, signals, spent>>

------------------------------------------------------------------------------
Elapse(p) ==
  /\ positions[p].limit = "running"
  /\ positions' = [positions EXCEPT ![p].limit = "over"]
  /\ UNCHANGED <<Ledger, signals, spent, opening>>

PayKey(outcome, p) == <<IF outcome = "win" THEN "payout" ELSE "refund", p>>

\* One position gets its credit and its final status.
Pay(p, credit, status, key) ==
  /\ IF credit = 0 THEN UNCHANGED Ledger
     ELSE Post("payout", p, key, QuantPool, Credit(Available(positions[p].user), credit))
  /\ positions' = [positions EXCEPT ![p].status = status, ![p].payout = credit]

\* resolve, called by a poll or by the keeper: the path has touched a barrier,
\* or the time limit has passed without.
Resolve(p) ==
  /\ p \in OpenPositions /\ positions[p].signal = NoSignal
  /\ positions[p].fate = "void" => positions[p].limit = "over"
  /\ LET outcome == positions[p].fate
     IN Pay(p, SettleAmount(outcome), StatusOf(outcome), PayKey(outcome, p))
  /\ UNCHANGED <<signals, spent, opening>>

\* sweepMatured: only what has expired.
Sweep(p) == positions[p].limit = "over" /\ Resolve(p)

\* The live price fixes the credit, and the credit the status.
CashOutAt(p, credit, key) ==
  Pay(p, credit, IF credit > Stake THEN "won" ELSE IF credit = Stake THEN "draw" ELSE "lost", key)

\* Faulty: the status is not looked at under the lock.
CashOutAny(p) ==
  /\ \E credit \in CashOutCredits : CashOutAt(p, credit, <<"cashout", p>>)
  /\ UNCHANGED <<signals, spent, opening>>

CashOut(p) ==
  /\ p \in OpenPositions /\ positions[p].signal = NoSignal
  /\ \E credit \in CashOutCredits : CashOutAt(p, credit, <<"cashout", p>>)
  /\ UNCHANGED <<signals, spent, opening>>

\* Also when the signal is closed; the row of the signal is read without a lock.
CashOutSignal(p) ==
  /\ p \in OpenPositions /\ positions[p].signal # NoSignal
  /\ \E credit \in CashOutCredits : CashOutAt(p, credit, <<"sigcashout", p>>)
  /\ UNCHANGED <<signals, spent, opening>>

------------------------------------------------------------------------------
\* upsertSignalEntry: an entry event makes the signal live, whatever it was.
EntryEvent(s) ==
  /\ ~RowLocked(s)
  /\ signals' = [signals EXCEPT ![s] = "live"]
  /\ UNCHANGED <<Ledger, positions, spent, opening>>

\* settleSignal, called with the verdict of a terminal event: every open
\* position of the signal is settled in one transaction, or none.
SettleSignal(s, outcome) ==
  LET bound == SetToSeq({p \in OpenPositions : positions[p].signal = s})
      credit == SettleAmount(outcome)
  IN /\ signals[s] # "unknown" /\ ~RowLocked(s)
     /\ signals' = [signals EXCEPT ![s] = IF @ \in {"won", "lost"} THEN @ ELSE StatusOf(outcome)]
     /\ IF credit = 0 THEN UNCHANGED Ledger
        ELSE PostEach(QuantPool, [i \in DOMAIN bound |->
               [type |-> "payout", ref |-> bound[i], key |-> PayKey(outcome, bound[i]),
                to |-> Available(positions[bound[i]].user), amount |-> credit]])
     /\ positions' = [p \in DOMAIN positions |->
          IF \E i \in DOMAIN bound : bound[i] = p
          THEN [positions[p] EXCEPT !.status = StatusOf(outcome), !.payout = credit]
          ELSE positions[p]]
     /\ UNCHANGED <<spent, opening>>

\* refundExpired, called by the keeper or by a read of the position.  (A read first
\* repeats the verdict of a signal that has one; no open position is on such a
\* signal, see OpenAwaitsVerdict.)
RefundExpired(p) ==
  /\ p \in OpenPositions /\ positions[p].signal # NoSignal
  /\ positions[p].limit = "over"
  /\ Pay(p, SettleAmount("draw"), "draw", PayKey("draw", p))
  /\ UNCHANGED <<signals, spent, opening>>

PriceMoves(s) ==
  /\ spent' = IF s \in spent THEN spent \ {s} ELSE spent \union {s}
  /\ UNCHANGED <<Ledger, positions, signals, opening>>

\* A live signal that the price has invalidated.
Dead(s) == signals[s] = "live" /\ s \in spent

\* sweepExpired, and listLiveSignals: invalidateSignal closes what is dead, once
\* it has the lock of the row ...
SweepDead(s) ==
  /\ Dead(s) /\ ~RowLocked(s)
  /\ signals' = [signals EXCEPT ![s] = "closed"]
  /\ UNCHANGED <<Ledger, positions, spent, opening>>

\* ... and only then refunds what has expired.
SweepExpired(p) == (\A s \in Signals : ~Dead(s)) /\ RefundExpired(p)

------------------------------------------------------------------------------
FundPool(amount) ==
  /\ Post("fund", "quantoption_pool", NoKey, Treasury, Credit(QuantPool, amount))
  /\ UNCHANGED <<positions, signals, spent, opening>>

\* Faulty: the treasury has to hold the whole floor.
TopUpWholeFloor ==
  /\ bal[QuantPool] < Floor /\ bal[Treasury] >= Floor
  /\ Post("topup", "quantoption_pool", NoKey, Treasury, Credit(QuantPool, Floor - bal[QuantPool]))
  /\ UNCHANGED <<positions, signals, spent, opening>>

\* topUpPool: what the pool lacks of its floor, if the treasury has it.
TopUp ==
  /\ bal[QuantPool] < Floor
  /\ Post("topup", "quantoption_pool", NoKey, Treasury, Credit(QuantPool, Floor - bal[QuantPool]))
  /\ UNCHANGED <<positions, signals, spent, opening>>

Fates == {"win", "lose", "void", "verdict"}

Continue(w) ==
  \/ FindInvalid(w)
  \/ CheckExposure(w)
  \/ \E limit \in {"none", "running"}, fate \in Fates : Place(w, limit, fate)
  \/ Abandon(w)

Next ==
  \/ \E w \in Sessions, user \in Users :
       \/ StartQuick(w, user)
       \/ \E s \in Signals : LockSignal(w, user, s)
  \/ \E w \in Sessions : Continue(w)
  \/ Restart
  \/ \E p \in DOMAIN positions :
       Elapse(p) \/ Resolve(p) \/ CashOut(p) \/ CashOutSignal(p) \/ RefundExpired(p)
  \/ \E s \in Signals :
       \/ EntryEvent(s) \/ PriceMoves(s) \/ SweepDead(s)
       \/ \E outcome \in {"win", "lose"} : SettleSignal(s, outcome)
  \/ \E amount \in Grants : FundPool(amount)
  \/ TopUp

Spec == Init /\ [][Next]_vars

\* Calls go on until they end, and the keepers run for ever (server.js).  A row
\* lock is handed to the UPDATE that waits for it: hence the strong fairness of
\* what waits for one.
Fairness ==
  /\ \A w \in Sessions : WF_vars(Continue(w))
  /\ \A p \in 1..MaxPositions :
       /\ WF_vars(p \in DOMAIN positions /\ Sweep(p))
       /\ SF_vars(p \in DOMAIN positions /\ SweepExpired(p))
  /\ \A s \in Signals : SF_vars(SweepDead(s))
  /\ WF_vars(TopUp)

FairSpec == Spec /\ Fairness

------------------------------------------------------------------------------
Payouts(p) == {t \in DOMAIN txns : txns[t].type = "payout" /\ txns[t].ref = p}

\* A resolution, a cash-out, a verdict, a refund and their keepers may all
\* reach a position, under idempotency keys of their own: together they pay it
\* once at most, and what they pay is what its row says.
PositionPaidOnce ==
  \A p \in DOMAIN positions :
    /\ Cardinality(Payouts(p)) <= 1
    /\ (\E t \in Payouts(p) : txns[t].amount = positions[p].payout) <=> positions[p].payout > 0

\* An open position on a signal has a verdict to wait for: no call can place it
\* behind the back of the event that settles the signal, nor place a second
\* one of its user.
OpenAwaitsVerdict ==
  \A p \in OpenPositions : positions[p].signal # NoSignal =>
    /\ signals[positions[p].signal] \in {"live", "closed"}
    /\ \A q \in OpenPositions \ {p} :
         positions[q].signal = positions[p].signal => positions[q].user # positions[p].user

\* A quick position whose time limit has passed is settled by the keeper, also
\* when the pool has to be topped up first.
MaturedSettles ==
  \A p \in 1..MaxPositions :
    (p \in OpenPositions /\ positions[p].signal = NoSignal /\ positions[p].limit = "over")
      ~> p \notin OpenPositions

\* Violated by the code: "every open position can be paid even if they ALL win at
\* once" (quantoption.js, the exposure guard).
Solvent == bal[QuantPool] >= RequiredPool(Staked)

\* Violated by the code: "Any positions bound to" a signal that the price closes "are
\* handled by ... the passes below", which give back the stake of none without a limit.
ClosedIsHandled ==
  \A p \in OpenPositions :
    positions[p].signal # NoSignal /\ positions[p].limit = "none" => signals[positions[p].signal] # "closed"

\* Violated by the code: the keeper refunds any signal position whose time limit
\* has passed (server.js), whatever other calls are doing.
ExpiredRefunded ==
  \A p \in 1..MaxPositions :
    (p \in OpenPositions /\ positions[p].signal # NoSignal /\ positions[p].limit = "over")
      ~> p \notin OpenPositions
==============================================================================
