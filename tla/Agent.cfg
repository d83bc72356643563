SPECIFICATION MCSpec
CONSTANTS
  m1 = m1
  m2 = m2
  e1 = e1
  e2 = e2
  e3 = e3
  c1 = c1
  s1 = s1
  s2 = s2
  Mail = {m1, m2}
  Rank <- Ranks
  Callers = {c1}
  QueueMax = 1
  MaxDisturbances = 1
  MaxTracked = 1
  MaxSent = 3
  MaxStops = 1
  Urgency = {"red", "yellow", "green"}
  Delay <- Delays
  Session = {s1, s2}
  Envelope = {e1, e2, e3}
  Sender <- Senders
  Size <- Sizes
  Failure = {e3}
  Plain = {e1, e2}
  Layers <- LayerChoices
  Default <- RelayDefaults
  Capacity = 2
  MaxQueued = 2
  MaxShown = 5
  MaxMishaps = 1
  Parts = {"mailbox", "outbounds", "timer", "sessions", "channel"}
INVARIANT NothingUnannounced
INVARIANT SettledIsSeen
INVARIANT OnTime
INVARIANT ClaimIsHeld
INVARIANT ResendIsMarked
PROPERTY NoFalseAlarm
PROPERTY QueuedIsNoticed
