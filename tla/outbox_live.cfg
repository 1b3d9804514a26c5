SPECIFICATION FairSpec
CONSTANTS
  p1 = p1
  p2 = p2
  e1 = e1
  w1 = w1
  w2 = w2
  Endpoints  = {p1, p2}
  Events     = {e1}
  Workers    = {w1, w2}
  BatchLimit = 2
  MaxAborts  = 1
PROPERTIES
  OutboxSettles
