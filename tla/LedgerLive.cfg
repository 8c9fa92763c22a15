\* Every call ends, under the fairness of Node and of the row locks of PostgreSQL, and
\* the concurrent ledger implements AtomicLedger.
CONSTANTS
  s1 = s1
  s2 = s2
  k1 = k1
  NoKey = NoKey
  Sessions = {s1, s2}
  NWallets = 3
  Keys = {k1}
  Postings <- MCPostings
  MintAmounts <- MCMintAmounts
  Freezes <- MCFreezes
  MaxSupply = 1
  MaxTxns = 2
SPECIFICATION FairSpec
PROPERTIES
  CallsEnd
  ImplementsAtomic
