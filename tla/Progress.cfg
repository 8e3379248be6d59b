\* Two threads; u2 has been enrolled before.
CONSTANTS
  t1 = t1
  t2 = t2
  u1 = u1
  u2 = u2
  g1 = g1
  g2 = g2
  Threads = {t1, t2}
  Users = {u1, u2}
  Guides = {g1, g2}
  Quizzes = {quiz}
  Reps = {rep}
  Sections = {section}
  Minutes = {1, 2}
  Inactive = {u2}
  MaxRequests = 3
  MaxMishaps = 1
SPECIFICATION Spec
SYMMETRY Symmetry
CHECK_DEADLOCK FALSE
INVARIANT OneRowEach
INVARIANT AnsweredIsKept
INVARIANT RowAddsUp
