------------------------------ MODULE Economy ------------------------------
(***************************************************************************)
(* The parts of the platform's economy that are not a game or a flow of    *)
(* the marketplace: leagues and rewards, the administrators' emission, and *)
(* the row locks of the transactions.  They are explored side by side: a   *)
(* behaviour chooses its part at the start and stays with it, so that the  *)
(* number of states is the sum, not the product, of the parts' states.     *)
(***************************************************************************)
EXTENDS Leagues, Emission, RowLocks

CONSTANTS
  EconomyFunds,  \* what each user starts with, before the leagues
  PoolFunds      \* what the reward pool starts with, before the rewards

VARIABLE part

economyVars == <<bal, txns, leagueVars, emissionVars, lockVars, part>>

EconomyInit ==
  /\ part \in {"leagues", "emission", "locks"}
  /\ bal = [a \in Accounts |->
       IF part # "leagues" THEN 0
       ELSE CASE a = Genesis -> -PoolFunds
              [] a = RewardPool -> PoolFunds
              [] a \in {Available(u) : u \in Members} -> EconomyFunds
              [] OTHER -> 0]
  /\ txns = <<>>
  /\ LeaguesInit
  /\ EmissionInit
  /\ LocksInit

Leagueing == part = "leagues" /\ UNCHANGED <<emissionVars, lockVars, part>>
Emitting == part = "emission" /\ UNCHANGED <<leagueVars, lockVars, part>>
Locking == part = "locks" /\ UNCHANGED <<bal, txns, leagueVars, emissionVars, part>>

EconomyNext ==
  \/ LeaguesNext /\ Leagueing
  \/ EmissionNext /\ Emitting
  \/ LocksNext /\ Locking

\* The sweeper runs every minute and time passes (server.js); the database grants
\* a row lock in turn, and picks a victim.
EconomyFairness ==
  /\ \A i \in 1..MaxRituals :
       /\ WF_economyVars(i \in DOMAIN rituals /\ Mature(i) /\ Leagueing)
       /\ WF_economyVars(i \in DOMAIN rituals /\ SweepRitual(i) /\ Leagueing)
  /\ \A t \in Transactions :
       /\ SF_economyVars(Acquire(t) /\ Locking)
       /\ WF_economyVars((Commit(t) \/ AbortVictim(t)) /\ Locking)

EconomySpec == EconomyInit /\ [][EconomyNext]_economyVars /\ EconomyFairness

------------------------------------------------------------------------------
\* What a user has earned was paid, unless two calls for one reward overlapped, and the
\* league follows from it (see Leagues).
StandingEarned == EarnedWasPaid /\ CurrentIsReached

\* Corrections and gifts move money once (see Emission).
EmittedOnce == CorrectedOnceByTwo /\ DroppedOnce

\* Rituals and transactions end (see Leagues and RowLocks).
Progress == RitualsEnd /\ TransactionsEnd
============================================================================
