\* One call that finds its signal spent.
CONSTANTS
  u1 = u1
  u2 = u2
  w1 = w1
  w2 = w2
  g1 = g1
  NoKey = NoKey
  NoSignal = NoSignal
  Users = {u1, u2}
  Sessions = {w1, w2}
  Signals = {g1}
  Stake = 20
  Floor = 37
  Funds = 20
  Buffer = 17
  Reserve = 60
  Grants = {}
  MaxPositions = 1
  Accounts <- MCAccounts
SPECIFICATION FairSpec
PROPERTY ExpiredRefunded
