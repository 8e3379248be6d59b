\* Two requests at once, over several windows.
CONSTANTS
  w1 = w1
  w2 = w2
  w3 = w3
  Workers = {w1, w2}
  Limit = 2
  Window = 3
  Deadline = 1
  Expiries = {0, 4}
  MaxTime = 10
  MaxMishaps = 1
SPECIFICATION Spec
SYMMETRY SameWorkers
CHECK_DEADLOCK FALSE
INVARIANT CountWithinLimit
INVARIANT LeakIsBounded
