\* Two handlers at once; nothing fails.
CONSTANTS
  w1 = w1
  w2 = w2
  u1 = u1
  s1 = s1
  s2 = s2
  s3 = s3
  Workers = {w1, w2}
  Users = {u1}
  Subs = {s1, s2}
  OwnPlans = {s1, s2}
  CustomerEmail <- Resubscriber
  Unregistered = Unregistered
  NoEmail = NoEmail
  None = None
  NoEvent = NoEvent
  MaxRev <- TwoRevisions
  PaidKinds = {"invoice"}
  MaxMishaps = 0
SPECIFICATION Spec
CHECK_DEADLOCK FALSE
INVARIANT QuietIsUpToDate
