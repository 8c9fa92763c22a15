\* Leagues: two users, one an administrator, three leagues; emission: two requests to
\* mint, two runs of the airdrop, two officers; locks: three transactions at a time.
CONSTANTS
  u1 = u1
  u2 = u2
  o1 = o1
  o2 = o2
  w1 = w1
  w2 = w2
  d1 = d1
  d2 = d2
  NoKey = NoKey
  Members = {u1, u2}
  Admins = {u2}
  Thresholds <- MCThresholds
  Unlocks <- MCUnlocks
  Rewards <- MCRewards
  Asks = {w1, w2}
  MaxRituals = 2
  Holders = {u1}
  Officers = {o1, o2}
  Minters = {w1}
  DropRuns = {d1, d2}
  MintSizes = {20}
  Supply = 40
  Allocations <- MCAllocations
  Gift = 10
  MaxAdjustments = 1
  MaxMoves = 1
  Payer = 5
  Payee = 6
  TreasuryRow = 1
  RewardRow = 2
  GameRow = 7
  RoundRow = 0
  Transactions = {1, 2, 3}
  Opened = {"transfer", "reply", "spend", "fund", "adjust", "grant", "bet", "cancel", "settle", "ritual", "buy", "sell"}
  EconomyFunds = 10
  PoolFunds = 30
  Accounts <- MCAccounts
SPECIFICATION EconomySpec
INVARIANTS
  RitualReleasedOnce
  StandingEarned
  EmittedOnce
  PostingsNeverCycle
PROPERTY Progress
CHECK_DEADLOCK FALSE
