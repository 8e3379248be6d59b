\* Two handlers at once, over a buyer's plan, a customer without email and a
\* plan of another application on the same Stripe account.
CONSTANTS
  w1 = w1
  w2 = w2
  u1 = u1
  s1 = s1
  s2 = s2
  s3 = s3
  Workers = {w1, w2}
  Users = {u1}
  Subs = {s1, s2, s3}
  OwnPlans = {s1, s2}
  CustomerEmail <- MixedAccount
  Unregistered = Unregistered
  NoEmail = NoEmail
  None = None
  NoEvent = NoEvent
  PaidKinds = {"checkout"}
  MaxRev <- MixedRevisions
  MaxMishaps = 1
SPECIFICATION Spec
SYMMETRY SameWorkers
CHECK_DEADLOCK FALSE
INVARIANT AckedWasHandled
INVARIANT StoredWasBought
