\* Two processes on one file, and in the pool more threads than connections, as when the
\* janitor runs beside busy workers.
CONSTANTS
  a1 = a1
  a2 = a2
  a3 = a3
  a4 = a4
  c1 = c1
  c2 = c2
  p1 = p1
  p2 = p2
  Users = Users
  Auths = Auths
  UserProgress = UserProgress
  stripeID = stripeID
  usage_count = usage_count
  password = password
  users_email = users_email
  userprogress_user_course = userprogress_user_course
  NoConn = NoConn
  Unread = Unread
  Threads = {a1, a2, a3, a4}
  Conns = {c1, c2}
  MaxCalls = 4
  MaxFailures = 1
  Processes = {p1, p2}
  CoreTables <- MCCoreTables
  CoreIndexes <- MCCoreIndexes
  AppTables <- MCAppTables
  AppIndexes <- MCAppIndexes
  TableOf <- MCTableOf
  ColumnsOf <- MCColumnsOf
  Unique = {users_email, userprogress_user_course}
  Secrets = {"none", "long"}
SPECIFICATION FairBootSpec
CHECK_DEADLOCK FALSE
INVARIANT ServesWholeSchema
INVARIANT EachConnInOnePlace
INVARIANT NoStrayTransaction
PROPERTY BootsAtLast
PROPERTY EveryCallEnds
