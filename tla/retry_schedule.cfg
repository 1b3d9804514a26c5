SPECIFICATION Spec
CONSTANTS
  p1 = p1
  e1 = e1
  w1 = w1
  Endpoints  = {p1}
  Events     = {e1}
  Workers    = {w1}
  BatchLimit = 1
  MaxAborts  = 0
PROPERTIES
  RetrySchedule
