\* No symmetry: liveness.  The treasury covers two winners.
CONSTANTS
  u1 = u1
  u2 = u2
  w1 = w1
  w2 = w2
  g1 = g1
  NoKey = NoKey
  NoSignal = NoSignal
  Users = {u1}
  Sessions = {w1, w2}
  Signals = {}
  Stake = 20
  Floor = 37
  Funds = 40
  Buffer = 17
  Reserve = 20
  Grants = {20}
  MaxPositions = 2
  Accounts <- MCAccounts
SPECIFICATION FairSpec
PROPERTY MaturedSettles
