----------------------------- MODULE EasyGames -----------------------------
(***************************************************************************)
(* Easy Trade and Baby Pick on the one pool they share.                    *)
(***************************************************************************)
EXTENDS EasyTrade, BabyPick

CONSTANTS
  EasyFunds,   \* what each user starts with
  EasyBuffer,  \* what the pool starts with
  EasyReserve  \* what the treasury starts with

\* The wallets of users are not those of the platform.
ASSUME GamesAssumption ==
  /\ Wager \in Nat \ {0} /\ EasyFloor \in Nat
  /\ EasyFunds \in Nat /\ EasyBuffer \in Nat /\ EasyReserve \in Nat
  /\ {EasyPool, Treasury} \subseteq Accounts
  /\ \A u \in Users \union Players : Available(u) \in Accounts \ {EasyPool, Treasury}

gameVars == <<bal, txns, easyVars, pickVars>>

GamesInit ==
  /\ bal = [a \in Accounts |-> CASE a = EasyPool -> EasyBuffer
                                 [] a = Treasury -> EasyReserve
                                 [] OTHER -> EasyFunds]
  /\ txns = <<>>
  /\ EasyInit
  /\ PickInit

GamesNext ==
  \/ EasyNext /\ UNCHANGED pickVars
  \/ PickNext /\ UNCHANGED easyVars

GamesSpec == GamesInit /\ [][GamesNext]_gameVars

\* Calls go on until they end, and the keepers run for ever (server.js).
GamesFairness ==
  /\ \A w \in Calls : WF_gameVars(EasyContinue(w) /\ UNCHANGED pickVars)
  /\ \A w \in Plays : WF_gameVars(PickContinue(w) /\ UNCHANGED easyVars)
  /\ \A t \in 1..MaxTickets :
       WF_gameVars(t \in DOMAIN tickets /\ SweepStale(t) /\ UNCHANGED pickVars)
  /\ \A i \in 1..MaxPicks :
       WF_gameVars(i \in DOMAIN picks /\ SettleQuick(i) /\ UNCHANGED easyVars)
  /\ WF_gameVars(EasyTopUp /\ UNCHANGED pickVars)

GamesFairSpec == GamesSpec /\ GamesFairness

------------------------------------------------------------------------------
TicketsIn(status) == Cardinality({t \in DOMAIN tickets : tickets[t].status = status})
PicksIn(status) == Cardinality({i \in DOMAIN picks : picks[i].status = status})

Staked == Stake * TicketsIn("pending") + Wager * PicksIn("pending")
Earned == Stake * (TicketsIn("lost") - TicketsIn("won"))
        + Wager * (PicksIn("lost") - PicksIn("won"))

\* The pool holds what it was given, the open and the lost stakes of both games,
\* less the winners' profits: no call of one game moves money of the other.
PoolAccounted ==
  bal[EasyPool] + bal[Treasury] = EasyBuffer + EasyReserve + Staked + Earned

\* Every ticket and every round is paid once (see EasyTrade and BabyPick).
PaidOnce == TicketPaidOnce /\ PickPaidOnce

\* Waiting tickets and due rounds end (see EasyTrade and BabyPick).
StakesEnd == UnboundTicketsEnd /\ DuePicksSettle

\* Violated by the code: with its exposure guard "any winnable round can always be
\* paid" (babypick.js, on the pool it shares).
SharedSolvent == bal[EasyPool] >= 2 * Staked
==============================================================================
