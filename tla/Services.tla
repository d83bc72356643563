------------------------------ MODULE Services ------------------------------
(***************************************************************************)
(* The parts that have to keep going, each with a worker, a task or a      *)
(* process of its own: handoff jobs, the scheduler, the voice, the presence*)
(* watcher, the daemon's process and the webcam. They share no variable;   *)
(* here they are put side by side, so that one module can state, check and *)
(* prove what is claimed of them.                                          *)
(***************************************************************************)
EXTENDS Naturals

CONSTANTS
  \* Handoffs
  Session, MaxSize, MaxJobs, MaxAttempts, HandoffDisturbances,
  \* Scheduler
  ScheduledJob, Seed, ToolCaller, SchedulerDisturbances,
  \* Voice
  Request, Malformed, Voiceless, Misfit, VoiceDisturbances,
  \* Presence
  ReopenAfter, RestoreAfter, PresenceDisturbances,
  \* DaemonProcess
  Mail, Patience, Interval, MaxSweep, ProcessMishaps,
  \* Webcam
  Caller, Camera, Workers, WebcamMishaps

VARIABLES
  size, hook, jobs, index, queue, worker, daemon, handoffStatus, handoff, told, taken,
  mute, handoffUsed,
  store, acquired, call, engine, active, stopping, watchdog, wanted, interrupted, schedulerUsed,
  mail, handling, synthesis, answers, again, doubled, lost, died, up, voiceUsed,
  camera, watcher, capture, reduced, misses, successes, marker, written, astray, presenceUsed,
  host, main, http, backlog, loops, guard, silence, stuck, ended, mishaps,
  capturing, wants, line, job, orphans, hung, webcamUsed

\* jobs.yaml names jobs. The daemon has a TTL loop, whose sweep ends.
ASSUME ServicesAssumption ==
  /\ Seed \subseteq ScheduledJob
  /\ MaxSweep \in Nat
  /\ Interval \in [DOMAIN Interval -> Nat] /\ "ttl" \in DOMAIN Interval

H == INSTANCE Handoffs WITH
  MaxDisturbances <- HandoffDisturbances,
  status <- handoffStatus, cutOff <- taken, used <- handoffUsed

S == INSTANCE Scheduler WITH
  Job <- ScheduledJob, Caller <- ToolCaller, MaxDisturbances <- SchedulerDisturbances,
  watcher <- watchdog, cutOff <- interrupted, used <- schedulerUsed

V == INSTANCE Voice WITH
  MaxDisturbances <- VoiceDisturbances, task <- synthesis, used <- voiceUsed

P == INSTANCE Presence WITH
  MaxDisturbances <- PresenceDisturbances,
  degraded <- reduced, failures <- misses, current <- written, used <- presenceUsed

D == INSTANCE DaemonProcess WITH
  MaxMishaps <- ProcessMishaps, watchdog <- guard, used <- mishaps

W == INSTANCE Webcam WITH
  MaxMishaps <- WebcamMishaps, call <- capturing, used <- webcamUsed

handoffVars ==
  <<size, hook, jobs, index, queue, worker, daemon, handoffStatus, handoff, told, taken,
    mute, handoffUsed>>
schedulerVars ==
  <<store, acquired, call, engine, active, stopping, watchdog, wanted, interrupted, schedulerUsed>>
voiceVars == <<mail, handling, synthesis, answers, again, doubled, lost, died, up, voiceUsed>>
presenceVars ==
  <<camera, watcher, capture, reduced, misses, successes, marker, written, astray, presenceUsed>>
processVars == <<host, main, http, backlog, loops, guard, silence, stuck, ended, mishaps>>
webcamVars == <<capturing, wants, line, job, orphans, hung, webcamUsed>>

----------------------------------------------------------------------------
(* Properties, each stated and explained in its component's module         *)

\* The status and the events tell of the jobs what is so: Handoffs.
JobsAreToldOf == H!JobsAreToldOf

\* An accepted job is told of: Handoffs.
AcceptedIsTold == H!AcceptedIsTold

\* No stale handoff is shown while a newer one is written: Handoffs.
NoStaleHandoff == H!NoStaleHandoff

\* A job that is wanted is in the store: Scheduler.
WantedIsStored == S!WantedIsStored

\* A scheduler that died runs again: Scheduler.
DeadIsRestarted == S!DeadIsRestarted

\* A request is answered once for each time it was delivered: Voice.
OneAnswer == V!OneAnswer

\* The marker and the resolution agree: Presence.
MarkerIsKept == P!MarkerIsKept

\* The silence of a daemon that turns is bounded: DaemonProcess.
SparedWhileRunning == D!SparedWhileRunning
=============================================================================
