---------------------------- MODULE Tournaments ----------------------------
(***************************************************************************)
(* Paid tournaments (src/qntm-ledger/src/tournaments.js).  Entry fees of   *)
(* all tournaments share one wallet; settle adds up the entries of its own *)
(* tournament, which locks nothing, and then posts the prizes, so the two  *)
(* statements are two actions.                                             *)
(***************************************************************************)
EXTENDS Postings

CONSTANTS
  Players,      \* users with a personal wallet
  Tourneys,     \* tournament ids
  EntryFees,    \* what joining costs
  Rake,         \* [treasury, burn]: basis points
  MaxTxns,      \* bound on the transactions of the ledger
  MaxSettling   \* bound on settlements under way

VARIABLE settling  \* settlements that have read the pool they will pay out


Entries(t) == {i \in DOMAIN txns : txns[i].type = "tournament_entry" /\ txns[i].ref = t}
Prizes(t) == {i \in DOMAIN txns : txns[i].type = "tournament_prize" /\ txns[i].ref = t}
Amounts(S) == SumFunction([i \in S |-> txns[i].amount])

JoinKey(t, player) == <<"tjoin", t, player>>
SettleKey(t) == <<"tsettle", t>>

Join(t, player, fee) ==
  /\ Len(txns) < MaxTxns
  /\ Post("tournament_entry", t, JoinKey(t, player), Available(player), Credit(Pool, fee))
  /\ UNCHANGED settling

\* settle: collectedPool, and the prizes that the request names match it.
ReadPool(t, winner) ==
  /\ Cardinality(settling) < MaxSettling
  /\ Amounts(Entries(t)) > 0
  /\ settling' = settling \union
       {[tournament |-> t, winner |-> winner, pool |-> Amounts(Entries(t))]}
  /\ UNCHANGED <<bal, txns>>

\* The winner's prize and the rake, of which only positive parts are posted.
PrizeCredits(r) ==
  LET rake == Merged(Credit(Treasury, Share(r.pool, Rake.treasury)),
                     Credit(Burn, Share(r.pool, Rake.burn)))
  IN  Merged(Credit(Available(r.winner), Remainder(r.pool, Rake.treasury, Rake.burn)),
             [a \in {b \in DOMAIN rake : rake[b] > 0} |-> rake[a]])

\* Faulty: settle posts without its key.
PayPrizesUnkeyed(r) ==
  /\ Len(txns) < MaxTxns
  /\ Post("tournament_prize", r.tournament, NoKey, Pool, PrizeCredits(r))
  /\ settling' = settling \ {r}

\* settle: the posting; a replay pays nothing.
PayPrizes(r) ==
  /\ \/ /\ Len(txns) < MaxTxns
        /\ Post("tournament_prize", r.tournament, SettleKey(r.tournament), Pool,
                PrizeCredits(r))
     \/ Committed(SettleKey(r.tournament)) /\ UNCHANGED <<bal, txns>>
  /\ settling' = settling \ {r}

\* The settlement fails before its COMMIT.
Abandon(r) == settling' = settling \ {r} /\ UNCHANGED <<bal, txns>>

Next ==
  \/ \E t \in Tourneys, player \in Players, fee \in EntryFees : Join(t, player, fee)
  \/ \E t \in Tourneys, winner \in Players : ReadPool(t, winner)
  \/ \E r \in settling : PayPrizes(r) \/ Abandon(r)

------------------------------------------------------------------------------
\* A tournament never pays out money it did not take in, although its pool
\* wallet also holds the fees of others.
NeverPaysMore == \A t \in Tourneys : Amounts(Prizes(t)) <= Amounts(Entries(t))

\* The header of settle: prizes and rake equal the collected pool exactly.
PaysTheWholePool ==
  \A t \in Tourneys : Prizes(t) # {} => Amounts(Prizes(t)) = Amounts(Entries(t))
==============================================================================
