----------------------------- MODULE EasyTrade -----------------------------
(***************************************************************************)
(* Easy Trade (src/services/easytrade.js, easytrade-autopilot.js): users   *)
(* bet on the outcome of a round of a signal house.  Rounds are opened and *)
(* settled by events that come from a webhook, late, twice or never, or    *)
(* from the autopilot.                                                     *)
(*                                                                         *)
(* A call is a sequence of statements at READ COMMITTED.  What it reads    *)
(* and what it does with it are steps of their own; the statements from    *)
(* the last read to the commit are one step.  FOR UPDATE on rounds is kept *)
(* in the call that holds it.                                              *)
(***************************************************************************)
EXTENDS Postings, SequencesExt

CONSTANTS
  Users,      \* players
  Calls,      \* requests, webhook deliveries and ticks that may be under way
  Houses,     \* signal houses
  Managed,    \* the houses the autopilot drives
  Exts,       \* signal ids of the indicator
  NoExt,      \* an event without a signal id
  Stake,      \* what a bet stakes
  EasyFloor,  \* EASYTRADE_POOL_FLOOR
  MaxRounds,  \* bound on the number of rounds
  MaxTickets  \* bound on the number of tickets

ASSUME EasyStakeAssumption == Stake \in Nat \ {0}
ASSUME ExtAssumption == NoExt \notin Exts

VARIABLES
  rounds,   \* easytrade_rounds
  tickets,  \* easytrade_tickets
  calls,    \* what each call is doing
  active    \* the signal the autopilot follows for each house

easyVars == <<rounds, tickets, calls, active>>

EasyPool == Available("easytrade")
Idle == [stage |-> "idle"]
NoRound == 0
Outcomes == {"TP", "SL"}

EasyInit ==
  /\ rounds = <<>>
  /\ tickets = <<>>
  /\ calls = [w \in Calls |-> Idle]
  /\ active = [h \in Houses |-> NoExt]

Goto(w, call) == calls' = [calls EXCEPT ![w] = call]

PendingTickets == {t \in DOMAIN tickets : tickets[t].status = "pending"}
Entered(h) == {r \in DOMAIN rounds : rounds[r].house = h /\ rounds[r].status = "entered"}
Newest(S) == IF S = {} THEN NoRound ELSE Max(S)

\* The rows some transaction has locked FOR UPDATE.
LockedRounds == UNION {calls[w].locks : w \in {v \in Calls : calls[v].stage = "opening"}}

\* The exposure guard: the pool, which holds the open stakes, covers twice each
\* of them and the new one.
EasyExposureOk ==
  bal[EasyPool] >= 2 * Stake * Cardinality(PendingTickets) + Stake

------------------------------------------------------------------------------
\* placeBet, before its transaction: one open ticket per user.
AskBet(w, u, h) ==
  /\ calls[w] = Idle
  /\ \A t \in PendingTickets : tickets[t].user # u
  /\ Goto(w, [stage |-> "guard", user |-> u, house |-> h])
  /\ UNCHANGED <<bal, txns, rounds, tickets, active>>

\* The exposure guard, and then the round the bet plays on, read without a lock.
GuardBet(w) ==
  /\ calls[w].stage = "guard"
  /\ EasyExposureOk
  /\ Goto(w, [stage |-> "place", user |-> calls[w].user, house |-> calls[w].house,
              round |-> Newest(Entered(calls[w].house))])
  /\ UNCHANGED <<bal, txns, rounds, tickets, active>>

\* The foreign key waits for whoever has the round locked.
PlaceBet(w, pick) ==
  LET t == Len(tickets) + 1  call == calls[w] IN
  /\ call.stage = "place"
  /\ t <= MaxTickets
  /\ call.round \notin LockedRounds
  /\ Post("et_stake", t, <<"et:stake", t>>, Available(call.user), Credit(EasyPool, Stake))
  /\ tickets' = Append(tickets,
       [user |-> call.user, house |-> call.house, round |-> call.round, pick |-> pick,
        status |-> "pending"])
  /\ Goto(w, Idle)
  /\ UNCHANGED <<rounds, active>>

\* A call is refused, fails or loses its connection: its transaction rolls back.
AbandonCall(w) ==
  /\ calls[w] # Idle
  /\ Goto(w, Idle)
  /\ UNCHANGED <<bal, txns, rounds, tickets, active>>

------------------------------------------------------------------------------
Refund(t) == [type |-> "et_refund", ref |-> t, key |-> <<"et:refund", t>>,
              to |-> Available(tickets[t].user), amount |-> Stake]
Win(t) == [type |-> "et_payout", ref |-> t, key |-> <<"et:payout", t>>,
           to |-> Available(tickets[t].user), amount |-> 2 * Stake]

\* Pays all the tickets of S from the pool, or none.
PayTickets(payment(_), S) ==
  LET s == SetToSeq(S) IN PostEach(EasyPool, [i \in DOMAIN s |-> payment(s[i])])

Unbound(t) == tickets[t].status = "pending" /\ tickets[t].round = NoRound
Waiting(h) == {t \in DOMAIN tickets : Unbound(t) /\ tickets[t].house = h}

\* Faulty: the row is read, but not whether it is still pending.
CancelTwice(t) ==
  /\ tickets[t].round = NoRound
  /\ Post("et_refund", t, NoKey, EasyPool, Credit(Available(tickets[t].user), Stake))
  /\ tickets' = [tickets EXCEPT ![t].status = "refunded"]
  /\ UNCHANGED <<rounds, calls, active>>

\* cancelTicket: locks the ticket, looks again, and refunds it.
CancelTicket(t) ==
  /\ Unbound(t)
  /\ PayTickets(Refund, {t})
  /\ tickets' = [tickets EXCEPT ![t].status = "refunded"]
  /\ UNCHANGED <<rounds, calls, active>>

\* Faulty: the sweeper looks for tickets that play on a round.
SweepBound(t) == tickets[t].round # NoRound /\ CancelTicket(t)

\* sweepStale does the same to a ticket that has waited for two hours.
SweepStale(t) == CancelTicket(t)

------------------------------------------------------------------------------
\* The entry of a signal: openRound looks for a duplicate and locks the open
\* rounds of the house; known are the tickets that wait for a round by then.
StartEntry(w, h, ext, from) ==
  /\ calls[w] = Idle
  /\ ext # NoExt => \A r \in DOMAIN rounds : <<rounds[r].house, rounds[r].ext>> # <<h, ext>>
  /\ Entered(h) \intersect LockedRounds = {}
  /\ Goto(w, [stage |-> "opening", house |-> h, ext |-> ext, from |-> from,
              locks |-> Entered(h), known |-> Waiting(h)])
  /\ UNCHANGED <<bal, txns, rounds, tickets, active>>

\* The rounds it supersedes are void, their tickets refunded, and the tickets
\* that wait are bound to the new round.  created_at and entered_at are the times
\* at which the transactions began: of the tickets committed since this one
\* began, some may be older.
OpenRound(w) ==
  LET call == calls[w]
      r == Len(rounds) + 1
      stranded == {t \in PendingTickets : tickets[t].round \in call.locks}
  IN /\ call.stage = "opening"
     /\ r <= MaxRounds
     /\ call.ext # NoExt =>
          \A q \in DOMAIN rounds : <<rounds[q].house, rounds[q].ext>> # <<call.house, call.ext>>
     /\ PayTickets(Refund, stranded)
     /\ rounds' = Append([q \in DOMAIN rounds |->
                            IF q \in call.locks THEN [rounds[q] EXCEPT !.status = "void"] ELSE rounds[q]],
                         [house |-> call.house, ext |-> call.ext, status |-> "entered",
                          outcome |-> "none"])
     /\ \E bound \in SUBSET Waiting(call.house) :
          /\ Waiting(call.house) \intersect call.known \subseteq bound
          /\ tickets' = [t \in DOMAIN tickets |->
               CASE t \in stranded -> [tickets[t] EXCEPT !.status = "refunded"]
                 [] t \in bound -> [tickets[t] EXCEPT !.round = r]
                 [] OTHER -> tickets[t]]
     /\ active' = IF call.from = "autopilot" THEN [active EXCEPT ![call.house] = call.ext] ELSE active
     /\ Goto(w, Idle)

------------------------------------------------------------------------------
\* findRound: by the signal id, whatever the status, else the newest open one.
FindRound(h, ext) ==
  LET own == {r \in DOMAIN rounds : rounds[r].house = h /\ rounds[r].ext = ext}
  IN IF ext # NoExt /\ own # {} THEN Max(own) ELSE Newest(Entered(h))

\* ingestEvent for a terminal event: finds its round.  The verdict is the result
\* the indicator declares, or else derived from the targets it has reported.
StartEvent(w, h, ext, outcome, from) ==
  LET r == FindRound(h, ext) IN
  /\ calls[w] = Idle
  /\ r # NoRound
  /\ Goto(w, [stage |-> "verdict", round |-> r, from |-> from, outcome |-> outcome])
  /\ UNCHANGED <<bal, txns, rounds, tickets, active>>

\* manageActive forgets the signal of its house once the settlement has answered.
Forget(call) ==
  active' = IF call.from = "autopilot" THEN [active EXCEPT ![rounds[call.round].house] = NoExt] ELSE active

\* Faulty: a settled round is settled again.
SettleAgain(w) ==
  LET call == calls[w]
      mine == {t \in DOMAIN tickets : tickets[t].round = call.round /\ tickets[t].status # "refunded"}
      winners == {t \in mine : tickets[t].pick = call.outcome /\ tickets[t].status = "pending"}
  IN /\ call.stage = "verdict"
     /\ call.round \notin LockedRounds
     /\ PayTickets(Win, winners)
     /\ rounds' = [rounds EXCEPT ![call.round].status = "settled", ![call.round].outcome = call.outcome]
     /\ tickets' = [t \in DOMAIN tickets |->
          CASE t \in winners -> [tickets[t] EXCEPT !.status = "won"]
            [] t \in mine \ winners -> [tickets[t] EXCEPT !.status = "lost"]
            [] OTHER -> tickets[t]]
     /\ Forget(call)
     /\ Goto(w, Idle)

\* settleRound: unless it is settled, the round is settled with all its pending
\* tickets, or none when the pool cannot pay.
SettleRound(w) ==
  LET call == calls[w]
      mine == {t \in PendingTickets : tickets[t].round = call.round}
      winners == {t \in mine : tickets[t].pick = call.outcome}
  IN /\ call.stage = "verdict"
     /\ call.round \notin LockedRounds
     /\ IF rounds[call.round].status = "settled" THEN UNCHANGED <<bal, txns, rounds, tickets>>
        ELSE /\ PayTickets(Win, winners)
             /\ rounds' = [rounds EXCEPT ![call.round].status = "settled",
                                         ![call.round].outcome = call.outcome]
             /\ tickets' = [t \in DOMAIN tickets |->
                  CASE t \in winners -> [tickets[t] EXCEPT !.status = "won"]
                    [] t \in mine \ winners -> [tickets[t] EXCEPT !.status = "lost"]
                    [] OTHER -> tickets[t]]
     /\ Forget(call)
     /\ Goto(w, Idle)

------------------------------------------------------------------------------
\* A tick of the autopilot: opens a round with a signal id never used before, or
\* ends the one it follows as the price or its age demand.  Ticks may overlap.
TickOpen(w, h, ext) ==
  /\ h \in Managed /\ active[h] = NoExt
  /\ ext # NoExt
  /\ StartEntry(w, h, ext, "autopilot")

TickEnd(w, h) ==
  /\ active[h] # NoExt
  /\ \E outcome \in Outcomes : StartEvent(w, h, active[h], outcome, "autopilot")

\* The price of the symbol cannot be had: the round is left to be superseded.
TickDrop(h) ==
  /\ active[h] # NoExt
  /\ active' = [active EXCEPT ![h] = NoExt]
  /\ UNCHANGED <<bal, txns, rounds, tickets, calls>>

\* The process restarts; rehydrate follows the newest open round of each house.
EasyRestart ==
  /\ calls' = [w \in Calls |-> Idle]
  /\ active' = [h \in Houses |-> IF h \notin Managed \/ Entered(h) = {} THEN NoExt
                                ELSE rounds[Newest(Entered(h))].ext]
  /\ UNCHANGED <<bal, txns, rounds, tickets>>

\* fundPool: an administrator moves money from the treasury to the pool.
EasyFund(amount) ==
  /\ Post("fund", "easytrade_pool", NoKey, Treasury, Credit(EasyPool, amount))
  /\ UNCHANGED easyVars

\* Faulty: the treasury has to hold the whole floor.
EasyTopUpWhole ==
  /\ bal[EasyPool] < EasyFloor /\ bal[Treasury] >= EasyFloor
  /\ EasyFund(EasyFloor - bal[EasyPool])

\* topUpPool: what the pool lacks of its floor, if the treasury has it.
EasyTopUp == bal[EasyPool] < EasyFloor /\ EasyFund(EasyFloor - bal[EasyPool])

------------------------------------------------------------------------------
EasyContinue(w) ==
  \/ GuardBet(w)
  \/ \E pick \in Outcomes : PlaceBet(w, pick)
  \/ OpenRound(w)
  \/ SettleRound(w)
  \/ AbandonCall(w)

EasyNext ==
  \/ \E w \in Calls, h \in Houses :
       \/ \E u \in Users : AskBet(w, u, h)
       \/ \E ext \in Exts \union {NoExt} :
            \/ StartEntry(w, h, ext, "webhook")
            \/ \E outcome \in Outcomes : StartEvent(w, h, ext, outcome, "webhook")
            \/ TickOpen(w, h, ext)
       \/ TickEnd(w, h)
  \/ \E w \in Calls : EasyContinue(w)
  \/ \E h \in Houses : TickDrop(h)
  \/ \E t \in DOMAIN tickets : CancelTicket(t) \/ SweepStale(t)
  \/ EasyRestart
  \/ EasyTopUp
  \/ EasyFund(Stake)

------------------------------------------------------------------------------
TicketPayments(t) ==
  {x \in DOMAIN txns : txns[x].type \in {"et_payout", "et_refund"} /\ txns[x].ref = t}

\* A verdict, a superseding entry, a cancellation and the sweeper may all reach
\* a ticket: it is paid back or paid out once, as its row says, and a ticket that
\* is open or lost has been paid nothing.
TicketPaidOnce ==
  \A t \in DOMAIN tickets :
    LET paid == {txns[x].amount : x \in TicketPayments(t)} IN
    /\ Cardinality(TicketPayments(t)) <= 1
    /\ paid = CASE tickets[t].status = "won" -> {2 * Stake}
                [] tickets[t].status = "refunded" -> {Stake}
                [] OTHER -> {}

\* All who bet on one round are judged by one verdict, the one its row keeps,
\* however many terminal events arrive for it and in whatever order.
VerdictsAgree ==
  \A t \in DOMAIN tickets : tickets[t].status \in {"won", "lost"} =>
    /\ rounds[tickets[t].round].status = "settled"
    /\ tickets[t].status = "won" <=> tickets[t].pick = rounds[tickets[t].round].outcome

\* No step takes a settled round, or a ticket that has been answered, back.
Answered ==
  [][/\ \A r \in DOMAIN rounds : rounds[r].status = "settled" =>
          rounds'[r].status = "settled" /\ rounds'[r].outcome = rounds[r].outcome
     /\ \A t \in DOMAIN tickets : tickets[t].status # "pending" =>
          tickets'[t].status = tickets[t].status /\ tickets'[t].round = tickets[t].round]_easyVars

\* A ticket that waits for a signal is bound to a round or refunded in the end.
UnboundTicketsEnd ==
  \A t \in 1..MaxTickets :
    (t \in DOMAIN tickets /\ Unbound(t))
      ~> (t \in DOMAIN tickets /\ ~Unbound(t))

\* Violated by the code: an entry supersedes the open round "so a ticket is never
\* stranded waiting on a round that will never settle" (easytrade.js, openRound).
NoStrandedTicket ==
  \A t \in PendingTickets : tickets[t].round # NoRound =>
    rounds[tickets[t].round].status # "settled"
==============================================================================
