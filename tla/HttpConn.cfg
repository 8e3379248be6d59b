\* One connection, two requests; bodies of two octets.
CONSTANTS
  Conversations <- Talks
  MaxHead = 5
  MaxBody = 2
  RequestTimeout = 2
  IdleTimeout = 3
  ReadTimeout = 3
SPECIFICATION Spec
CHECK_DEADLOCK FALSE
INVARIANT HandledAsSent
INVARIANT HeadInBudget
INVARIANT RefusedRightly
