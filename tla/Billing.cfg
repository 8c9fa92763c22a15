\* One user, two workers, one subscription at a time, two top-ups.
CONSTANTS
  u1 = u1
  c = c
  w1 = w1
  w2 = w2
  NoKey = NoKey
  Users = {u1}
  Creator = c
  Workers = {w1, w2}
  Fee = 25
  MAX_ATTEMPTS = 2
  TopUps = {25, 50}
  Mints = {50}
  MaxTxns = 5
  MaxSubs = 1
  MaxNow = 2
  MaxAttempts = 3
  MaxOrders = 2
  Accounts <- MCAccounts
SPECIFICATION Spec
SYMMETRY MCSymmetry
INVARIANTS
  SubscriptionPaidThrough
  OrdersCreditOnce
CHECK_DEADLOCK FALSE
