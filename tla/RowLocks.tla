------------------------------ MODULE RowLocks ------------------------------
(***************************************************************************)
(* The row locks that the platform's database transactions take, in the    *)
(* order in which they take them, and hold until they end.  A posting      *)
(* locks its wallets in one statement in the order of their ids            *)
(* (lockWallets); getOrCreateWallet upserts the wallet of a user, and so   *)
(* locks it when the flow runs it inside its transaction, before the       *)
(* posting.  The database aborts a transaction that closes a cycle.        *)
(***************************************************************************)
EXTENDS Integers, Sequences, FiniteSets, Functions

CONSTANTS
  Payer,         \* wallet ids, as numbers: two users,
  Payee,
  TreasuryRow,   \* and the platform's wallets
  RewardRow,
  GameRow,       \* the pool of a game
  RoundRow,      \* a row of the game: a round, a position, a ritual
  Transactions,  \* database transactions that may be open
  Opened         \* the flows that run: a set of names

Wallets == {Payer, Payee, TreasuryRow, RewardRow, GameRow}

\* Wallets are ordered by their ids; the game's row is of another table.
ASSUME RowsAssumption == Wallets \subseteq Int /\ RoundRow \notin Wallets

VARIABLES
  flow,  \* what each transaction runs
  want,  \* the locks it still has to take
  held   \* the locks it holds

lockVars == <<flow, want, held>>

Update(row) == [row |-> row, mode |-> "update"]
KeyShare(row) == [row |-> row, mode |-> "share"]

\* Faulty: locks the wallets in the order of the movements.
LockAsMoved(rows) == [i \in DOMAIN rows |-> Update(rows[i])]

Rising(s) == \A i, j \in DOMAIN s : i < j => s[i] < s[j]

InOrder(ids) == CHOOSE s \in [1..Cardinality(ids) -> ids] : Rising(s)

LockWallets(rows) == LET sorted == InOrder(Range(rows)) IN [i \in DOMAIN sorted |-> Update(sorted[i])]

GetOrCreateWallet(u) == <<Update(u)>>

\* A payment to or from a user whose wallet is looked up in the transaction.
Pays(from, to, user) == GetOrCreateWallet(user) \o LockWallets(<<from, to>>)

------------------------------------------------------------------------------
\* The flows.  Transfers, tips and the like look up the wallets before.
Transfer(from, to) == LockWallets(<<from, to>>)
Spend == LockWallets(<<Payer, TreasuryRow>>)
FundGame == LockWallets(<<TreasuryRow, GameRow>>)
Adjust == <<Update(RoundRow)>> \o LockWallets(<<Payer, TreasuryRow>>)
GrantTo == Pays(RewardRow, Payer, Payer)
PlaceBet == GetOrCreateWallet(Payer) \o <<KeyShare(RoundRow)>> \o LockWallets(<<Payer, GameRow>>)
CancelBet == <<Update(RoundRow)>> \o Pays(GameRow, Payer, Payer)
SettleBets == <<Update(RoundRow)>> \o Pays(GameRow, Payee, Payee) \o Pays(GameRow, Payer, Payer)
Ritual == <<Update(RoundRow)>> \o Pays(Payer, Payer, Payer)
MarketplacePay(buyer, creator) ==
  GetOrCreateWallet(buyer) \o GetOrCreateWallet(creator)
    \o LockWallets(<<buyer, creator, TreasuryRow, RewardRow>>)

Flows == [transfer |-> Transfer(Payer, Payee), reply |-> Transfer(Payee, Payer),
          spend |-> Spend, fund |-> FundGame, adjust |-> Adjust, grant |-> GrantTo,
          bet |-> PlaceBet, cancel |-> CancelBet, settle |-> SettleBets, ritual |-> Ritual,
          buy |-> MarketplacePay(Payer, Payee), sell |-> MarketplacePay(Payee, Payer)]

ASSUME FlowsAssumption == Opened \subseteq DOMAIN Flows

\* Those that upsert no wallet in their transaction.
PostingFlows == {"transfer", "reply", "spend", "fund", "adjust"}

------------------------------------------------------------------------------
LocksInit ==
  /\ flow = [t \in Transactions |-> "none"]
  /\ want = [t \in Transactions |-> <<>>]
  /\ held = [t \in Transactions |-> {}]

Conflict(l, m) == l.row = m.row /\ "update" \in {l.mode, m.mode}
Blockers(t) ==
  IF want[t] = <<>> THEN {}
  ELSE {s \in Transactions \ {t} : \E l \in held[s] : Conflict(l, Head(want[t]))}

\* Sets of transactions each of which waits for one of the set, the least are cycles.
Stuck(S) == \A t \in S : Blockers(t) \intersect S # {}
Cycles ==
  LET stuck == {S \in (SUBSET Transactions) \ {{}} : Stuck(S)} IN
  {S \in stuck : \A T \in stuck : T \subseteq S => T = S}

Begin(t, f) ==
  /\ flow[t] = "none"
  /\ flow' = [flow EXCEPT ![t] = f]
  /\ want' = [want EXCEPT ![t] = Flows[f]]
  /\ UNCHANGED held

Acquire(t) ==
  /\ want[t] # <<>> /\ Blockers(t) = {}
  /\ held' = [held EXCEPT ![t] = @ \union {Head(want[t])}]
  /\ want' = [want EXCEPT ![t] = Tail(@)]
  /\ UNCHANGED flow

End(t) ==
  /\ flow' = [flow EXCEPT ![t] = "none"]
  /\ want' = [want EXCEPT ![t] = <<>>]
  /\ held' = [held EXCEPT ![t] = {}]

Commit(t) == flow[t] # "none" /\ want[t] = <<>> /\ End(t)

\* Faulty: a victim keeps the locks it holds.
AbortVictimHolding(t) ==
  /\ t \in UNION Cycles
  /\ flow' = [flow EXCEPT ![t] = "none"]
  /\ want' = [want EXCEPT ![t] = <<>>]
  /\ UNCHANGED held

\* The database picks a victim of the cycle and rolls it back.
AbortVictim(t) == t \in UNION Cycles /\ End(t)

LocksNext ==
  \E t \in Transactions :
    \/ \E f \in Opened : Begin(t, f)
    \/ Acquire(t)
    \/ Commit(t)
    \/ AbortVictim(t)

------------------------------------------------------------------------------
\* The transactions that only post never wait for each other in a circle: in every
\* cycle there is one that upserted a wallet before its posting.
PostingsNeverCycle == \A S \in Cycles : \E t \in S : flow[t] \notin PostingFlows

\* Every transaction ends, committed or as a victim.
TransactionsEnd == \A t \in Transactions : flow[t] # "none" ~> flow[t] = "none"

\* Violated by the code: lockWallets locks "ordered by id to prevent deadlocks".
NoDeadlock == Cycles = {}
=============================================================================
