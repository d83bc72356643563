SPECIFICATION MCFairSpec
CONSTANTS
  x = x
  y = y
  s1 = s1
  c1 = c1
  c2 = c2
  a = a
  b = b
  r1 = r1
  r2 = r2
  r3 = r3
  k1 = k1
  k2 = k2
  Endpoints = {x, y}
  Threshold = 2
  MaxBoots = 2
  MaxDeaths = 2
  MaxFaults = 1
  Session = {s1}
  MaxSize = 1
  MaxJobs = 2
  MaxAttempts = 2
  HandoffDisturbances = 1
  ScheduledJob = {a, b}
  Seed = {b}
  ToolCaller = {c1, c2}
  SchedulerDisturbances = 1
  Request = {r1, r2, r3}
  Malformed = {r3}
  Voiceless = {}
  Misfit = {r2}
  VoiceDisturbances = 2
  ReopenAfter = 2
  RestoreAfter = 3
  PresenceDisturbances = 3
  Mail = 5
  Patience = 4
  Interval <- Intervals
  MaxSweep = 1
  ProcessMishaps = 2
  Caller = {c1, c2}
  Camera = {k1, k2}
  Workers = 1
  WebcamMishaps = 1
  Parts = {"supervisor", "handoffs", "scheduler", "voice", "presence", "process", "webcam"}
INVARIANT HealthCoherent
INVARIANT QuarantineRecorded
INVARIANT JobsAreToldOf
INVARIANT WantedIsStored
INVARIANT OneAnswer
INVARIANT MarkerIsKept
INVARIANT SparedWhileRunning
PROPERTY BreakerCycle
PROPERTY FailedIsRetried
PROPERTY AcceptedIsTold
PROPERTY DeadIsRestarted
PROPERTY RequestIsAnswered
PROPERTY CameraComesBack
PROPERTY RunsInTheEnd
PROPERTY AnswersCome
CHECK_DEADLOCK FALSE
