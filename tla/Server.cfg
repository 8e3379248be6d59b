\* Two connections for two workers and a queue of one.
CONSTANTS
  w1 = w1
  w2 = w2
  d1 = d1
  k1 = k1
  k2 = k2
  NoConn = NoConn
  NoClient = NoClient
  Threads = {w1, w2}
  Workers = {w1, w2}
  Conns = {d1}
  Clients = {k1, k2}
  QueueCap = 1
  MaxCalls = 2
  MaxFailures = 0
  MaxMishaps = 1
SPECIFICATION FairServerSpec
CHECK_DEADLOCK FALSE
INVARIANT WorkersOutliveTraffic
PROPERTY NobodyStarves
PROPERTY CleanShutdown
