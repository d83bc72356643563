SPECIFICATION Spec
CONSTANTS
  a = a
  b = b
  ghost = ghost
  p1 = p1
  Envs = {1, 2}
  To <- GhostTo
  Endpoints = {a}
  Publishers = {p1}
  Expiring = {}
  Poison = {}
  MaxAttempts = 1
  MaxPending = 1
  Limit <- NoLimit
INVARIANT NeverMoreThanMaxAttempts
