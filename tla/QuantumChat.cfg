\* One message of two queries and two frames; one one-time prekey, three messages a side; two clients of the limiter.
CONSTANTS
  Mails = {m1}
  Waiting = {}
  LastChunk = 2
  LastFrame = 2
  MaxAttempts = 2
  Pollers = {p1}
  MaxRestarts = 1
  OneTimeKeys = {1}
  MaxSkip = 2
  MaxSent = 3
  MaxRepeats = 1
  Clients = {1, 2}
  Burst = 2
  IdleFor = 3
  Window = 4
SPECIFICATION ChatSpec
INVARIANTS
  SentOnce
  LateStillOpens
  KeysForgotten
  RateBounded
PROPERTY NothingStays
CHECK_DEADLOCK FALSE
