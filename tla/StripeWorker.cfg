\* Two request threads and two Stripe threads; a queue of one, two attempts, two calls
\* per checkout, and every timer a tick.
CONSTANTS
  c1 = c1
  c2 = c2
  w1 = w1
  w2 = w2
  Callers = {c1, c2}
  Plans <- Checkouts
  Workers = {w1, w2}
  QueueCap = 1
  CallTimeout = 1
  MaxRetries = 1
  BaseBackoff = 1
  MaxRetryAfter = 1
  Threshold = 1
  Cooldown = 1
  MaxJobs = 3
  MaxDeaths = 1
SPECIFICATION FairSpec
CHECK_DEADLOCK FALSE
INVARIANT OneSessionPerJob
INVARIANT OpenCircuitIsQuiet
PROPERTY ExpiredIsDropped
PROPERTY EveryCallEnds
