\* Two users, two rounds and two calls at a time; the webhook drives the house.
CONSTANTS
  u1 = u1
  u2 = u2
  w1 = w1
  w2 = w2
  p1 = p1
  h1 = h1
  e1 = e1
  e2 = e2
  NoKey = NoKey
  NoExt = NoExt
  Users = {u1, u2}
  Players = {u1}
  Calls = {w1, w2}
  Plays = {}
  Houses = {h1}
  Managed = {}
  Exts = {e1}
  Stake = 10
  Wager = 10
  EasyFloor = 20
  EasyFunds = 10
  EasyBuffer = 10
  EasyReserve = 10
  MaxRounds = 2
  MaxTickets = 2
  MaxPicks = 1
  Accounts <- MCAccounts
SPECIFICATION GamesSpec
VIEW MCView
SYMMETRY MCSymmetry
INVARIANTS
  PaidOnce
  VerdictsAgree
PROPERTY Answered
CHECK_DEADLOCK FALSE
