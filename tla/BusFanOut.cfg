SPECIFICATION Spec
CONSTANTS
  a = a
  b = b
  ghost = ghost
  p1 = p1
  Envs = {1, 2}
  To <- SplitTo
  Endpoints = {a,b}
  Publishers = {p1}
  Expiring = {}
  Poison = {1}
  MaxAttempts = 2
  MaxPending = 1
  Limit <- NoLimit
PROPERTY FanOutAtomic
