\* Two threads; stores of two keys and one address, so that both evict.
CONSTANTS
  t1 = t1
  t2 = t2
  e1 = e1
  e2 = e2
  i1 = i1
  i2 = i2
  NoId = NoId
  Threads = {t1, t2}
  Emails = {e1, e2}
  Ips = {i1, i2}
  Threshold = 2
  LockTime = 3
  AttemptWindow = 3
  LockEntries = 2
  RateLimit = 2
  RateWindow = 2
  RateEntries = 1
  MaxTime = 3
  MaxRequests = 4
  MaxMishaps = 1
SPECIFICATION Spec
SYMMETRY Symmetry
CHECK_DEADLOCK FALSE
INVARIANT AccountsWhole
INVARIANT GuessesBounded
INVARIANT RateHolds
PROPERTY LockSurvives
