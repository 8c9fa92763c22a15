\* Two members and one message; two devices; one reader and two moderators; three sockets and one session; three signals; an alert and a text; one post; one product; one address; one payment with two notices; of the pages: four history entries, one ticket, two positions and two signals, two calls in flight.
CONSTANTS
  Users = {u1, u2}
  Creator = u1
  Elevated = {}
  ChatKind = "group"
  Visibility = "public"
  LastMsg = 1
  Devices = {d1, d2}
  Assistants = {1, 2}
  FREE_DAILY_LIMIT = 1
  Day = 2
  MaxOwn = 2
  Readers = {q1}
  Moderators = {x1, x2}
  MaxFlags = 2
  HostSockets = {h1}
  ViewerSockets = {v1, v2}
  Starts = {c1}
  LastSession = 1
  MaxCreating = 2
  LastSignal = 3
  Hooks = {1}
  Exts = {11}
  MAX_SIGNALS = 2
  Requests = {r1, r2}
  Bodies = {b1, t1}
  Texts = {t1}
  Channels = {ch1}
  FloodCap = 1
  LastMinute = 1
  ReaderTabs = {tab1, tab2}
  Authors = {a1}
  Windows = {w1, w2, w3}
  FirstBuyer = {w1, w2}
  ProductPrices = {0, 2}
  Files = {f1}
  Visitors = {s1, s2}
  Passwords = {pw1, pw2}
  LastCode = 2
  MaxAttempts = 1
  MaxGuesses = 2
  Notices = {n1, n2}
  LastDay = 2
  WizardDays = 2
  MaxGiven = 2
  Calls = {k1, k2}
  LastCandle = 2
  SPOT_TTL = 1
  STRIP_TTL = 2
  MaxCandles = 2
  TimeLimit = 1
  Charts = {g1, g2}
  MaxAt = 4
  MaxRewinds = 1
  LastTicket = 1
  MaxPolls = 2
  MaxCalls = 2
  LastPosition = 2
  MaxTradeCalls = 2
  LastOpen = 2
  FxSignals = {2}
  MaxSignalCalls = 2
SPECIFICATION Spec
VIEW View
INVARIANTS
  ConversationsKept
  SignalsKept
  RecordsAgree
  ScreensTrue
PROPERTY NothingTakenBack
CHECK_DEADLOCK FALSE
