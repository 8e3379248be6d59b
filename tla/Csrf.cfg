\* One browser on its account, one on two accounts, two on one account.
CONSTANTS
  b1 = b1
  b2 = b2
  alice = alice
  bob = bob
  r1 = r1
  r2 = r2
  NoToken = NoToken
  NoUser = NoUser
  Browsers = {b1, b2}
  Users = {alice, bob}
  Scenarios <- OneTwoShared
  Slots = {r1, r2}
  Tokens <- TwoOfAliceOneOfBob
SPECIFICATION FairSpec
CHECK_DEADLOCK FALSE
INVARIANT OnlyOwnTokenPasses
INVARIANT LoneRefusalIsRetriable
PROPERTY StuckBrowserRecovers
