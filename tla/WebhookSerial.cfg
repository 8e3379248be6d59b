\* One delivery at a time, two subscriptions of one buyer.
CONSTANTS
  w1 = w1
  w2 = w2
  u1 = u1
  s1 = s1
  s2 = s2
  s3 = s3
  Workers = {w1}
  Users = {u1}
  Subs = {s1, s2}
  OwnPlans = {s1, s2}
  CustomerEmail <- Resubscriber
  Unregistered = Unregistered
  NoEmail = NoEmail
  None = None
  NoEvent = NoEvent
  MaxRev <- TwoRevisions
  PaidKinds = {"invoice"}
  MaxMishaps = 1
SPECIFICATION FairSpec
CHECK_DEADLOCK FALSE
INVARIANT QuietIsUpToDate
INVARIANT PayingIsServed
PROPERTY MirrorSpec
PROPERTY EventuallyUpToDate
