------------------------------ MODULE BabyPick ------------------------------
(***************************************************************************)
(* Baby Pick's Quick Signal (src/services/babypick.js): a bet on a seed    *)
(* that is committed to when the bet is placed and decides it a minute     *)
(* later.  It stakes into the pool of Easy Trade and is paid from it; its  *)
(* exposure guard knows its own rounds only.                               *)
(***************************************************************************)
EXTENDS Postings

CONSTANTS
  Players,  \* players
  Plays,    \* placeQuick requests that may be under way
  Wager,    \* what a round stakes
  MaxPicks  \* bound on the number of rounds

VARIABLES
  picks,  \* babypick_rounds
  plays   \* what each request is doing

pickVars == <<picks, plays>>

PickPool == Available("easytrade")
NoPlay == [stage |-> "idle"]

PickInit ==
  /\ picks = <<>>
  /\ plays = [w \in Plays |-> NoPlay]

LivePicks == {i \in DOMAIN picks : picks[i].status = "pending"}
PickExposureOk == bal[PickPool] >= 2 * Wager * Cardinality(LivePicks) + Wager

GotoPlay(w, play) == plays' = [plays EXCEPT ![w] = play]

\* placeQuick, before its transaction: one live round per user, the seed.
AskPick(w, u) ==
  /\ plays[w] = NoPlay
  /\ \A i \in LivePicks : picks[i].user # u
  /\ GotoPlay(w, [stage |-> "guard", user |-> u])
  /\ UNCHANGED <<bal, txns, picks>>

GuardPick(w) ==
  /\ plays[w].stage = "guard"
  /\ PickExposureOk
  /\ GotoPlay(w, [plays[w] EXCEPT !.stage = "place"])
  /\ UNCHANGED <<bal, txns, picks>>

\* The roll of the seed is fixed now and looked at when the round is due.
PlacePick(w, fate) ==
  LET i == Len(picks) + 1 IN
  /\ plays[w].stage = "place"
  /\ i <= MaxPicks
  /\ Post("bp_stake", i, <<"bp:stake", i>>, Available(plays[w].user), Credit(PickPool, Wager))
  /\ picks' = Append(picks, [user |-> plays[w].user, fate |-> fate, status |-> "pending"])
  /\ GotoPlay(w, NoPlay)

AbandonPick(w) ==
  /\ plays[w] # NoPlay
  /\ GotoPlay(w, NoPlay)
  /\ UNCHANGED <<bal, txns, picks>>

\* Faulty: the status is not looked at under the lock of the round, and the
\* payout carries no idempotency key.
SettleQuickTwice(i) ==
  /\ IF picks[i].fate = "lost" THEN UNCHANGED <<bal, txns>>
     ELSE Post("bp_payout", i, NoKey, PickPool, Credit(Available(picks[i].user), 2 * Wager))
  /\ picks' = [picks EXCEPT ![i].status = picks[i].fate]
  /\ UNCHANGED plays

\* settleQuickRound, called by a poll, by the header, the history and the keeper
\* once the minute is over.
SettleQuick(i) ==
  /\ i \in LivePicks
  /\ IF picks[i].fate = "lost" THEN UNCHANGED <<bal, txns>>
     ELSE Post("bp_payout", i, <<"bp:payout", i>>, PickPool, Credit(Available(picks[i].user), 2 * Wager))
  /\ picks' = [picks EXCEPT ![i].status = picks[i].fate]
  /\ UNCHANGED plays

PickContinue(w) ==
  \/ GuardPick(w)
  \/ \E fate \in {"won", "lost"} : PlacePick(w, fate)
  \/ AbandonPick(w)

PickNext ==
  \/ \E w \in Plays : (\E u \in Players : AskPick(w, u)) \/ PickContinue(w)
  \/ \E i \in DOMAIN picks : SettleQuick(i)

------------------------------------------------------------------------------
PickPayments(i) == {x \in DOMAIN txns : txns[x].type = "bp_payout" /\ txns[x].ref = i}

\* Polls and the keeper settle a due round between them: a round that the seed
\* decides for the player is paid once, and nothing is paid before it is settled.
PickPaidOnce ==
  \A i \in DOMAIN picks :
    Cardinality(PickPayments(i)) = IF picks[i].status = "won" THEN 1 ELSE 0

\* A round is settled in the end, also when the pool has to be topped up first.
DuePicksSettle ==
  \A i \in 1..MaxPicks :
    i \in LivePicks ~> i \notin LivePicks
==============================================================================
