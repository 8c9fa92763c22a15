\* Two users with 30 base units each, one idempotency key, four transactions.
CONSTANTS
  u1 = u1
  u2 = u2
  c = c
  t1 = t1
  t2 = t2
  k1 = k1
  NoKey = NoKey
  Users = {u1, u2}
  Creator = c
  Funds = 30
  Prices = {20}
  Releases = {17}
  Stakes = {10}
  Tourneys = {t1, t2}
  EntryFees = {10}
  Rake <- MCRake
  Keys = {k1}
  MaxTxns = 4
  MaxEscrows = 2
  MaxStakes = 2
  MaxRows = 3
  MaxSettling = 1
  Accounts <- MCAccounts
SPECIFICATION Spec
SYMMETRY MCSymmetry
INVARIANTS
  FundsAccounted
  EscrowPaidOnce
  StakeReleasedOnce
  TournamentNeverPaysMore
CHECK_DEADLOCK FALSE
