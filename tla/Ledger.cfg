\* Two sessions and one idempotency key; calls start while at most two transactions are
\* committed, so that up to four can be.
CONSTANTS
  s1 = s1
  s2 = s2
  k1 = k1
  NoKey = NoKey
  Sessions = {s1, s2}
  NWallets = 3
  Keys = {k1}
  Postings <- MCPostings
  MintAmounts <- MCMintAmounts
  Freezes <- MCFreezes
  MaxSupply = 2
  MaxTxns = 3
SPECIFICATION Spec
SYMMETRY SessionSymmetry
INVARIANTS
  TypeOK
  NonNegative
  Conserved
  Replayable
  UniqueKeys
  ReversedOnce
  LockOrder
PROPERTIES
  AppendOnly
  FrozenStays
