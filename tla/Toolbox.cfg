\* 438 years of dates from before an era to after it; two builds that serve at once;
\* texts of six symbols, or grown to ten and spoilt once; blocks of eight octets;
\* five seconds and one roll of the endpoint secret.
CONSTANTS
  MaxDepth = 1
  Nearest <- NearestDouble
  MaxText = 6
  MaxGrown = 10
  FirstDay <- StartDay
  FirstDate <- StartDate
  FirstWeekday = 4
  Days = 160000
  BlockLen = 8
  SuffixLen = 2
  MaxMessage = 20
  Octets = {0, 3, 252, 255}
  MaxOctets = 4
  Symbols = {0, 1, 63, 65, 66, 67}
  MaxSymbols = 5
  Visitors = {"u1", "u2"}
  JwtSecrets = {"j1", "j2"}
  TokenLife = 2
  WebhookTolerance = 2
  MaxSkew = 1
  LastSecond = 5
  LastRoll = 2
  b1 = b1
  b2 = b2
  w1 = w1
  w2 = w2
  s1 = s1
  Builds = {b1, b2}
  Passwords = {w1, w2}
  Owned = w1
  Salts = {s1}
  Costs <- Builders
  NodeCost <- NodeParams
  MaxMemory = 268435456
  MaxP = 16
  MaxReleases = 2
  Questions = {"q1", "q2"}
  OptionTexts <- Offered
  Letters <- Ids
  PointsChoices = {{}, {7}}
  PassingScore = 70
  Null = Null
  Variables = {"JWT_SECRET", "NODE_ENV", "ENV", "DB_FILE"}
  Secret = "JWT_SECRET"
  Modes = {"NODE_ENV", "ENV"}
  Referenced = "DB_FILE"
  MaxEdits = 2
SPECIFICATION Spec
CHECK_DEADLOCK FALSE
INVARIANT ReadsAndWritesJson
INVARIANT DatesAreRight
INVARIANT CryptoIsExact
INVARIANT SignaturesHold
INVARIANT NobodyIsLockedOut
INVARIANT GradedAsPicked
INVARIANT SettingsFromTheirPlace
