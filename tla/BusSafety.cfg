SPECIFICATION Spec
CONSTANTS
  a = a
  b = b
  ghost = ghost
  p1 = p1
  Envs = {1, 2}
  To <- GhostTo
  Endpoints = {a}
  Publishers = {p1}
  Expiring = {1}
  Poison = {}
  MaxAttempts = 2
  MaxPending = 1
  Limit <- FullLimit
INVARIANT NothingStranded
INVARIANT DeliveriesBounded
PROPERTY MailboxSpec
