----------------------------- MODULE MCServices -----------------------------
(***************************************************************************)
(* Small instances for TLC of the supervisor of the endpoints and of the   *)
(* parts of Services. They share no variable, so one run explores each on  *)
(* its own: a behaviour is one of a single part.                           *)
(***************************************************************************)
EXTENDS Supervisor, Services

CONSTANTS x, y, s1, c1, c2, a, b, r1, r2, r3, k1, k2, Parts

VARIABLE part

\* The redelivery loop is the fastest of the three, the backups are the slowest.
Intervals == [l \in {"ttl", "redelivery", "backup"} |->
                CASE l = "redelivery" -> 1 [] l = "ttl" -> 2 [] l = "backup" -> 3]

MCInit ==
  /\ part \in Parts
  /\ Init /\ H!Init /\ S!Init /\ V!Init /\ P!Init /\ D!Init /\ W!Init
  /\ part = "presence" \/ camera
  /\ part = "process" \/ host = "leaves"
  /\ part = "webcam" \/ \A c \in Caller : wants[c] = k1

MCNext ==
  /\ part' = part
  /\ \/ /\ part = "supervisor" /\ Next
        /\ UNCHANGED <<handoffVars, schedulerVars, voiceVars, presenceVars, processVars, webcamVars>>
     \/ /\ part = "handoffs" /\ H!Next
        /\ UNCHANGED <<vars, schedulerVars, voiceVars, presenceVars, processVars, webcamVars>>
     \/ /\ part = "scheduler" /\ S!Next
        /\ UNCHANGED <<vars, handoffVars, voiceVars, presenceVars, processVars, webcamVars>>
     \/ /\ part = "voice" /\ V!Next
        /\ UNCHANGED <<vars, handoffVars, schedulerVars, presenceVars, processVars, webcamVars>>
     \/ /\ part = "presence" /\ P!Next
        /\ UNCHANGED <<vars, handoffVars, schedulerVars, voiceVars, processVars, webcamVars>>
     \/ /\ part = "process" /\ D!Next
        /\ UNCHANGED <<vars, handoffVars, schedulerVars, voiceVars, presenceVars, webcamVars>>
     \/ /\ part = "webcam" /\ W!Next
        /\ UNCHANGED <<vars, handoffVars, schedulerVars, voiceVars, presenceVars, processVars>>

MCSpec ==
  /\ MCInit
  /\ [][MCNext]_<<part, vars, handoffVars, schedulerVars, voiceVars, presenceVars,
                 processVars, webcamVars>>

\* The fairness of each part, asked of the part a behaviour is of.
MCFairness ==
  /\ WF_vars(part = "supervisor" /\ TaskStep)
  /\ \A ep \in Endpoints : WF_vars(part = "supervisor" /\ TimerElapses(ep))
  /\ WF_handoffVars(part = "handoffs" /\ H!WorkerStep)
  /\ WF_handoffVars(part = "handoffs" /\ H!Start)
  /\ WF_schedulerVars(part = "scheduler" /\ S!Poll)
  /\ WF_schedulerVars(part = "scheduler" /\ S!RestartStops)
  /\ WF_schedulerVars(part = "scheduler" /\ S!Start)
  /\ WF_voiceVars(part = "voice" /\ V!Start)
  /\ \A r \in Request : WF_voiceVars(part = "voice" /\ V!Step(r))
  /\ WF_presenceVars(part = "presence" /\ P!Spawn)
  /\ WF_presenceVars(part = "presence" /\ P!WatcherStep)
  /\ WF_processVars(part = "process" /\ D!HostRestarts)
  /\ WF_processVars(part = "process" /\ D!MainStep)
  /\ WF_processVars(part = "process" /\ D!Tick)
  /\ WF_processVars(part = "process" /\ D!Fires)
  /\ \A l \in DOMAIN Interval : WF_processVars(part = "process" /\ D!LoopStep(l))
  /\ \A c \in Caller :
       /\ WF_webcamVars(part = "webcam" /\ W!CallStep(c))
       /\ SF_webcamVars(part = "webcam" /\ W!ThreadStarts(c))
  /\ \A m \in Camera : WF_webcamVars(part = "webcam" /\ W!OrphanEnds(m))

MCFairSpec == MCSpec /\ MCFairness

\* A request is answered in the end: Voice.
RequestIsAnswered == part = "voice" => V!RequestIsAnswered

\* A camera that works is read again: Presence.
CameraComesBack == part = "presence" => P!CameraComesBack

\* The daemon runs in the end where its host restarts it: DaemonProcess.
RunsInTheEnd == part = "process" => D!RunsInTheEnd

\* Calls of the webcam are answered: Webcam.
AnswersCome == part = "webcam" => W!AnswersCome
=============================================================================
