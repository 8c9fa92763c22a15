\* One user in both games, one call at a time, the autopilot.  No symmetry: liveness.
CONSTANTS
  u1 = u1
  u2 = u2
  w1 = w1
  w2 = w2
  p1 = p1
  h1 = h1
  e1 = e1
  e2 = e2
  NoKey = NoKey
  NoExt = NoExt
  Users = {u1}
  Players = {u1}
  Calls = {w1}
  Plays = {p1}
  Houses = {h1}
  Managed = {h1}
  Exts = {e1}
  Stake = 10
  Wager = 10
  EasyFloor = 20
  EasyFunds = 20
  EasyBuffer = 10
  EasyReserve = 10
  MaxRounds = 1
  MaxTickets = 1
  MaxPicks = 1
  Accounts <- MCAccounts
SPECIFICATION GamesFairSpec
INVARIANT PoolAccounted
PROPERTY StakesEnd
CHECK_DEADLOCK FALSE
