SPECIFICATION Spec
CONSTANTS
  p1 = p1
  e1 = e1
  e2 = e2
  w1 = w1
  w2 = w2
  Endpoints  = {p1}
  Events     = {e1, e2}
  Workers    = {w1, w2}
  BatchLimit = 1
  MaxAborts  = 1
SYMMETRY Symmetry
INVARIANTS
  TypeOK
  PostsAccounted
  StatusEarned
  FanOutAtomic
PROPERTIES
  SettledIsFinal
  BackoffKept
  ImplementsOutbox
