------------------------------ MODULE Commerce ------------------------------
(***************************************************************************)
(* The marketplace, staking and tournaments of qntm-ledger on one ledger:  *)
(* they compete for the tokens of one wallet, and a client's idempotency   *)
(* key is unique over all of them (uq_txn_idempotency).                    *)
(***************************************************************************)
EXTENDS Postings

CONSTANTS
  Users, Creator, Funds, Prices, Releases, Stakes, Tourneys, EntryFees, Rake, Keys,
  MaxTxns, MaxEscrows, MaxStakes, MaxSettling,
  MaxRows  \* bound on the rows of escrows and stakes together

VARIABLES escrows, stakes, settling

vars == <<bal, txns, escrows, stakes, settling>>

Shop == INSTANCE Marketplace WITH Buyers <- Users
Vault == INSTANCE Staking WITH Stakers <- Users
Arena == INSTANCE Tournaments WITH Players <- Users

\* Wallets of the ledger itself (SYSTEM_WALLETS): no user's, nor the creator's.
SystemWallets == {"escrow", "tournament_pool", "treasury", "burn"}

ASSUME CommerceAssumption ==
  /\ IsFiniteSet(Users) /\ (Users \union {Creator}) \intersect SystemWallets = {}
  /\ {Available(u) : u \in Users} \union {Locked(u) : u \in Users} \subseteq Accounts
  /\ {Pending(Creator), Available(Creator), Escrow, Pool, Treasury, Burn} \subseteq Accounts
  /\ Funds \in Int
  /\ Prices \union Releases \union Stakes \union EntryFees \subseteq Int
  /\ Rake.treasury \in Nat /\ Rake.burn \in Nat
  /\ \A t \in Tourneys : Arena!SettleKey(t) # NoKey

Init ==
  /\ bal = [a \in Accounts |-> IF \E u \in Users : a = Available(u) THEN Funds ELSE 0]
  /\ txns = <<>>
  /\ escrows = <<>>
  /\ stakes = <<>>
  /\ settling = {}

Next ==
  /\ \/ Shop!Next /\ UNCHANGED <<stakes, settling>>
     \/ Vault!Next /\ UNCHANGED <<escrows, settling>>
     \/ Arena!Next /\ UNCHANGED <<escrows, stakes>>
  /\ Len(escrows') + Len(stakes') <= MaxRows

Spec == Init /\ [][Next]_vars

------------------------------------------------------------------------------
\* The escrow wallet holds the prices of the open purchases, less those of the rows
\* that a used key inserted without paying (see Marketplace), and the locked balances
\* are what the stakes say (see Staking).
FundsAccounted == Shop!Accounted /\ Vault!Accounted

\* Every escrow pays out once (see Marketplace).
EscrowPaidOnce == Shop!PaidOnce

\* Every stake is released once (see Staking).
StakeReleasedOnce == Vault!ReleasedOnce

\* No tournament is paid from the fees of another (see Tournaments).
TournamentNeverPaysMore == Arena!NeverPaysMore

\* A retried purchase buys nothing more (see Marketplace).
PurchaseRetriesAreNoOps == Shop!RetriesAreNoOps

\* Does not hold: that the escrow wallet covers every open purchase (see Marketplace).
EscrowIsBacked == Shop!OpenIsBacked

\* A settled tournament has paid out all its fees (see Tournaments).
TournamentPaysTheWholePool == Arena!PaysTheWholePool
==============================================================================
