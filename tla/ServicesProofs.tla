-------------------------- MODULE ServicesProofs ---------------------------
(***************************************************************************)
(* Proofs about the parts that have to keep going, one after the other:    *)
(* for each the inductive invariant, that the initial state has it and     *)
(* every step keeps it, and the property of Services that follows.         *)
(***************************************************************************)
EXTENDS Services, Sequences, TLAPS

-----------------------------------------------------------------------------
(* Handoffs                                                                *)
\* A job is in one place at a time: in the queue, with the worker, or over.
\* Only a job that is over was told of, and only one that is not over is
\* pending in the status file, unless a stop or a crash took it.

HandoffEvent == {"HandoffReady", "HandoffFailed"}

HandoffTypes ==
  /\ Len(jobs) \in Nat
  /\ queue \in Seq(Nat)
  /\ worker.job \in Nat
  /\ worker = [at |-> worker.at, job |-> worker.job, attempt |-> worker.attempt]

\* Ids are given once, and each of them is in the queue once.
QueueIsOrdered ==
  /\ \A i \in 1..Len(queue) : queue[i] \in H!Job /\ queue[i] # worker.job
  /\ \A i, k \in 1..Len(queue) : i # k => queue[i] # queue[k]

WorkerHasJob ==
  /\ worker.job = 0 \/ worker.job \in H!Job
  /\ worker.at # "idle" <=> worker.job # 0

\* What was told of is over, but for what publish() raised for too late.
ToldIsOver ==
  \A j \in Nat \ mute : \A kind \in HandoffEvent :
    <<kind, j>> \in told => j \in H!Job /\ j # worker.job /\ \A i \in 1..Len(queue) : queue[i] # j

\* The status of a job the worker is about to be done with is not pending.
StatusGoesFirst ==
  worker.at \in {"publishing", "reporting"} =>
    ~ (handoffStatus.state = "pending" /\ handoffStatus.job = worker.job)

HandoffInv ==
  /\ HandoffTypes /\ QueueIsOrdered /\ WorkerHasJob /\ ToldIsOver /\ StatusGoesFirst
  /\ H!PendingHasWork /\ H!OneOutcome

----------------------------------------------------------------------------
LEMMA HandoffInitInv == ASSUME H!Init  PROVE HandoffInv
<1> USE DEF H!Init, H!Idle, H!HookStatus, H!Status
<1>1. HandoffTypes
  BY DEF HandoffTypes
<1>2. QueueIsOrdered /\ WorkerHasJob /\ ToldIsOver /\ StatusGoesFirst
  BY DEF QueueIsOrdered, WorkerHasJob, ToldIsOver, StatusGoesFirst
<1>3. H!PendingHasWork /\ H!OneOutcome
  BY DEF H!PendingHasWork, H!OneOutcome
<1> QED  BY <1>1, <1>2, <1>3 DEF HandoffInv

\* The hooks write a status that names no job.
Hookish ==
  /\ UNCHANGED <<jobs, queue, worker, told, taken, mute>>
  /\ handoffStatus' = handoffStatus \/ \E state, s : handoffStatus' = [state |-> state, session |-> s, job |-> 0]

LEMMA HookishStep == ASSUME HandoffInv, Hookish  PROVE HandoffInv'
<1> USE DEF HandoffInv, Hookish
<1>1. HandoffTypes'
  BY DEF HandoffTypes
<1>2. QueueIsOrdered' /\ WorkerHasJob' /\ ToldIsOver' /\ H!OneOutcome'
  BY DEF QueueIsOrdered, WorkerHasJob, ToldIsOver, H!OneOutcome, H!Job
<1>3. handoffStatus' = handoffStatus \/ handoffStatus'.job = 0
  OBVIOUS
<1>4. StatusGoesFirst'
  BY <1>3 DEF StatusGoesFirst, WorkerHasJob
<1>5. H!PendingHasWork'
  BY <1>3 DEF H!PendingHasWork, H!Queued, H!InHand
<1> QED  BY <1>1, <1>2, <1>4, <1>5

\* A job is accepted: a new id at the end of the queue.
LEMMA AcceptStep == ASSUME HandoffInv, NEW s \in Session, H!Accept(s)  PROVE HandoffInv'
<1> USE DEF HandoffInv
<1>1. CASE \E j \in index : H!SameKey(s, j)
  <2>1. Hookish
    BY <1>1 DEF H!Accept, Hookish
  <2> QED  BY <2>1, HookishStep
<1>2. CASE ~ \E j \in index : H!SameKey(s, j)
  <2> DEFINE new == Len(jobs) + 1
  <2>1. /\ jobs' = Append(jobs, [session |-> s, event |-> hook[s].event, size |-> size[s]])
        /\ queue' = Append(queue, new)
        /\ handoffStatus' = [state |-> "pending", session |-> s, job |-> new]
        /\ UNCHANGED <<worker, told, taken, mute>>
    BY <1>2 DEF H!Accept, H!Status
  <2>2. Len(jobs') = new /\ new \in Nat
    BY <2>1 DEF HandoffTypes
  <2>3. /\ Len(queue') = Len(queue) + 1 /\ queue' \in Seq(Nat)
        /\ \A i \in 1..Len(queue) : queue'[i] = queue[i]
        /\ queue'[Len(queue) + 1] = new
    BY <2>1, <2>2 DEF HandoffTypes
  <2> HIDE DEF new
  <2>4. /\ \A j \in H!Job : j \in H!Job' /\ j # new
        /\ new \in H!Job' /\ new # 0
    BY <2>2 DEF H!Job, HandoffTypes, new
  <2>5. HandoffTypes'
    BY <2>1, <2>2, <2>3 DEF HandoffTypes
  <2>6. QueueIsOrdered'
    BY <2>1, <2>3, <2>4 DEF QueueIsOrdered, WorkerHasJob, HandoffTypes
  <2>7. WorkerHasJob' /\ StatusGoesFirst'
    BY <2>1, <2>4 DEF WorkerHasJob, StatusGoesFirst
  <2>8. ToldIsOver'
    BY <2>1, <2>3, <2>4 DEF ToldIsOver, HandoffTypes
  <2>9. H!PendingHasWork'
    <3>1. handoffStatus'.job = queue'[Len(queue')] /\ Len(queue') \in DOMAIN queue'
      BY <2>1, <2>3 DEF HandoffTypes
    <3> QED  BY <3>1 DEF H!PendingHasWork, H!Queued
  <2>10. H!OneOutcome'
    <3> SUFFICES ASSUME NEW j \in H!Job' \ mute', <<"HandoffReady", j>> \in told', <<"HandoffFailed", j>> \in told'
                 PROVE  FALSE
      BY DEF H!OneOutcome
    <3>1. j \in H!Job
      BY <2>1, <2>2 DEF ToldIsOver, HandoffEvent, H!Job, new
    <3> QED  BY <2>1, <3>1 DEF H!OneOutcome
  <2> QED  BY <2>5, <2>6, <2>7, <2>8, <2>9, <2>10
<1> QED  BY <1>1, <1>2

----------------------------------------------------------------------------
(* The worker                                                              *)

\* The head of the queue is in the worker's hand, the rest moves up.
LEMMA TakeStep == ASSUME HandoffInv, H!Take  PROVE HandoffInv'
<1> USE DEF HandoffInv
<1>1. /\ queue # <<>> /\ queue' = Tail(queue)
      /\ worker' = [at |-> "extracting", job |-> Head(queue), attempt |-> 1]
      /\ UNCHANGED <<jobs, handoffStatus, told, taken, mute>>
  BY DEF H!Take
<1>2. /\ Len(queue) \in Nat \ {0} /\ Len(queue') = Len(queue) - 1 /\ queue' \in Seq(Nat)
      /\ \A i \in 1..Len(queue') : queue'[i] = queue[i + 1]
      /\ worker'.job = queue[1] /\ queue[1] \in Nat
  BY <1>1 DEF HandoffTypes
<1>3. HandoffTypes'
  BY <1>1, <1>2 DEF HandoffTypes
<1>4. QueueIsOrdered'
  BY <1>1, <1>2 DEF QueueIsOrdered, H!Job
<1>5. WorkerHasJob' /\ StatusGoesFirst'
  BY <1>1, <1>2 DEF WorkerHasJob, StatusGoesFirst, QueueIsOrdered, H!Job
<1>6. ToldIsOver'
  BY <1>1, <1>2 DEF ToldIsOver, H!Job
<1>7. H!OneOutcome'
  BY <1>1 DEF H!OneOutcome, H!Job
<1>8. H!PendingHasWork'
  <2> SUFFICES ASSUME handoffStatus'.state = "pending", handoffStatus'.job # 0, handoffStatus'.job \notin taken'
               PROVE  handoffStatus'.job \in H!Queued' \cup H!InHand'
    BY DEF H!PendingHasWork
  <2>1. worker.job = 0
    BY DEF H!Take, WorkerHasJob
  <2>2. PICK i \in 1..Len(queue) : handoffStatus.job = queue[i]
    <3>1. handoffStatus' = handoffStatus /\ taken' = taken
      BY <1>1
    <3>2. handoffStatus.job \in H!Queued \cup H!InHand
      BY <3>1 DEF H!PendingHasWork
    <3>3. H!InHand = {}
      BY <2>1 DEF H!InHand
    <3>4. DOMAIN queue = 1..Len(queue)
      BY <1>2 DEF HandoffTypes
    <3> QED  BY <3>2, <3>3, <3>4 DEF H!Queued
  <2>3. CASE i = 1
    BY <1>1, <1>2, <2>2, <2>3 DEF H!InHand
  <2>4. CASE i # 1
    <3>1. i - 1 \in 1..Len(queue') /\ queue'[i - 1] = handoffStatus.job
      BY <1>2, <2>2, <2>4
    <3>2. i - 1 \in DOMAIN queue'
      BY <1>2, <3>1
    <3> QED  BY <1>1, <3>1, <3>2 DEF H!Queued
  <2> QED  BY <2>3, <2>4
<1> QED  BY <1>3, <1>4, <1>5, <1>6, <1>7, <1>8

\* An attempt goes on, fails or ends: the job stays in the worker's hand, and
\* the status is written before the job is reported.
HandoffWorks ==
  /\ UNCHANGED <<jobs, queue, told, taken, mute>>
  /\ worker.at # "idle" /\ worker'.at # "idle" /\ worker'.job = worker.job
  /\ worker' = [at |-> worker'.at, job |-> worker'.job, attempt |-> worker'.attempt]
  /\ \/ handoffStatus' = handoffStatus /\ worker'.at \in {"extracting", "sleeping"}
     \/ handoffStatus'.state # "pending"

LEMMA WorksStep == ASSUME HandoffInv, HandoffWorks  PROVE HandoffInv'
<1> USE DEF HandoffInv, HandoffWorks
<1>1. HandoffTypes' /\ QueueIsOrdered' /\ WorkerHasJob' /\ ToldIsOver' /\ H!OneOutcome'
  BY DEF HandoffTypes, QueueIsOrdered, WorkerHasJob, ToldIsOver, H!OneOutcome, H!Job
<1>2. StatusGoesFirst'
  BY DEF StatusGoesFirst
<1>3. H!PendingHasWork'
  BY DEF H!PendingHasWork, H!Queued, H!InHand
<1> QED  BY <1>1, <1>2, <1>3

\* publish() raised too late: nothing is promised of this job's events.
LEMMA LateStep == ASSUME HandoffInv, H!PublishedAndRaises  PROVE HandoffInv'
<1> USE DEF HandoffInv
<1>1. /\ UNCHANGED <<jobs, queue, taken>>
      /\ told' = told \cup {<<"HandoffReady", worker.job>>} /\ mute' = mute \cup {worker.job}
      /\ worker.at = "publishing" /\ worker'.at \in {"sleeping", "reporting"}
      /\ worker' = [at |-> worker'.at, job |-> worker'.job, attempt |-> worker'.attempt]
      /\ worker'.job = worker.job
      /\ \/ handoffStatus' = handoffStatus /\ worker'.at = "sleeping"
         \/ handoffStatus'.state # "pending"
  BY DEF H!PublishedAndRaises, HandoffTypes, H!Status
<1>2. HandoffTypes' /\ QueueIsOrdered' /\ WorkerHasJob' /\ ToldIsOver' /\ H!OneOutcome'
  BY <1>1 DEF HandoffTypes, QueueIsOrdered, WorkerHasJob, ToldIsOver, H!OneOutcome, H!Job
<1>3. StatusGoesFirst'
  BY <1>1 DEF StatusGoesFirst
<1>4. H!PendingHasWork'
  BY <1>1 DEF H!PendingHasWork, H!Queued, H!InHand
<1> QED  BY <1>2, <1>3, <1>4

LEMMA AttemptStep ==
  ASSUME HandoffInv, H!Extracted \/ H!AttemptFails \/ H!Retry \/ H!LastAttemptFails
  PROVE  HandoffInv'
<1>1. worker = [at |-> worker.at, job |-> worker.job, attempt |-> worker.attempt]
  BY DEF HandoffInv, HandoffTypes
<1>2. CASE H!Extracted
  BY <1>1, <1>2, WorksStep DEF HandoffWorks, H!Extracted, H!Status
<1>3. CASE H!AttemptFails
  BY <1>1, <1>3, WorksStep DEF HandoffWorks, H!AttemptFails
<1>4. CASE H!Retry
  BY <1>1, <1>4, WorksStep DEF HandoffWorks, H!Retry
<1>5. CASE H!LastAttemptFails
  BY <1>1, <1>5, WorksStep DEF HandoffWorks, H!LastAttemptFails, H!Status
<1> QED  BY <1>2, <1>3, <1>4, <1>5

\* The worker is done with its job, which one event is published of, or none.
HandoffEnds(events) ==
  /\ worker.at \in {"publishing", "reporting"}
  /\ worker' = H!Idle /\ told' = told \cup events /\ mute \subseteq mute'
  /\ UNCHANGED <<jobs, queue, handoffStatus, taken>>

LEMMA EndsStep ==
  ASSUME HandoffInv, NEW kind \in HandoffEvent, NEW events \in SUBSET {<<kind, worker.job>>}, HandoffEnds(events)
  PROVE  HandoffInv'
<1> USE DEF HandoffInv, HandoffEnds, H!Idle
<1>1. HandoffTypes' /\ QueueIsOrdered' /\ WorkerHasJob' /\ StatusGoesFirst'
  BY DEF HandoffTypes, QueueIsOrdered, WorkerHasJob, StatusGoesFirst, H!Job
<1>2. worker.job \in H!Job /\ worker.job # 0
  BY DEF WorkerHasJob
<1>3. ToldIsOver'
  BY <1>2 DEF ToldIsOver, QueueIsOrdered, HandoffTypes, H!Job
<1>4. H!OneOutcome'
  <2>1. worker.job \in mute \/ \A k \in HandoffEvent : <<k, worker.job>> \notin told
    BY DEF ToldIsOver, HandoffTypes
  <2> QED  BY <2>1 DEF H!OneOutcome, HandoffEvent, H!Job
<1>5. H!PendingHasWork'
  BY DEF H!PendingHasWork, StatusGoesFirst, H!Queued, H!InHand
<1> QED  BY <1>1, <1>3, <1>4, <1>5

LEMMA EndStep ==
  ASSUME HandoffInv, H!Published \/ H!Reported \/ H!ReportFails
  PROVE  HandoffInv'
<1>1. CASE H!Published
  <2>1. HandoffEnds({<<"HandoffReady", worker.job>>})
    BY <1>1 DEF H!Published, HandoffEnds
  <2> QED  BY <2>1, EndsStep DEF HandoffEvent
<1>2. CASE H!Reported
  <2>1. HandoffEnds({<<"HandoffFailed", worker.job>>})
    BY <1>2 DEF H!Reported, HandoffEnds
  <2> QED  BY <2>1, EndsStep DEF HandoffEvent
<1>3. CASE H!ReportFails
  <2>1. HandoffEnds({})
    BY <1>3 DEF H!ReportFails, HandoffEnds
  <2> QED  BY <2>1, EndsStep DEF HandoffEvent
<1> QED  BY <1>1, <1>2, <1>3

----------------------------------------------------------------------------
\* A stop takes the job in hand, the end of the process the queue as well.
LEMMA StopStep == ASSUME HandoffInv, H!Stop \/ H!Crash  PROVE HandoffInv'
<1> USE DEF HandoffInv
<1>1. /\ worker' = H!Idle /\ UNCHANGED <<jobs, handoffStatus, told, mute>>
      /\ \/ queue' = queue /\ taken' = taken \cup H!InHand
         \/ queue' = <<>> /\ taken' = taken \cup H!InHand \cup H!Queued
  BY DEF H!Stop, H!Crash
<1>2. HandoffTypes'
  <2>1. queue' \in Seq(Nat)
    <3>1. queue \in Seq(Nat) /\ <<>> \in Seq(Nat)
      BY DEF HandoffTypes
    <3>2. queue' = queue \/ queue' = <<>>
      BY <1>1
    <3> HIDE DEF HandoffInv
    <3> QED  BY <3>1, <3>2
  <2>2. Len(jobs') \in Nat
    BY <1>1 DEF HandoffTypes
  <2> QED  BY <1>1, <2>1, <2>2 DEF H!Idle, HandoffTypes
<1>3. WorkerHasJob' /\ StatusGoesFirst'
  BY <1>1 DEF H!Idle, WorkerHasJob, StatusGoesFirst
<1>4. QueueIsOrdered' /\ ToldIsOver'
  <2>1. \A i \in 1..Len(queue') : i \in 1..Len(queue) /\ queue'[i] = queue[i]
    BY <1>1, <1>2 DEF HandoffTypes
  <2>2. worker'.job = 0 /\ jobs' = jobs /\ told' = told /\ mute' = mute
    BY <1>1 DEF H!Idle
  <2> QED  BY <2>1, <2>2 DEF QueueIsOrdered, ToldIsOver, HandoffTypes, H!Job
<1>5. H!OneOutcome'
  BY <1>1 DEF H!OneOutcome, H!Job
<1>6. H!PendingHasWork'
  BY <1>1 DEF H!PendingHasWork, H!Queued, H!InHand
<1> QED  BY <1>2, <1>3, <1>4, <1>5, <1>6

LEMMA HookStepInv == ASSUME HandoffInv, NEW s \in Session, H!HookStep(s)  PROVE HandoffInv'
<1>1. CASE H!Accept(s)
  BY <1>1, AcceptStep
<1>2. ASSUME H!Grow(s) \/ H!Accepted(s) \/ H!Refused(s)
             \/ \E event \in {"PreCompact", "SessionEnd"} : H!HookRuns(s, event)
      PROVE  HandoffInv'
  <2>1. Hookish
    BY <1>2 DEF Hookish, H!Grow, H!Accepted, H!Refused, H!HookRuns, H!HookStatus, H!Status
  <2> QED  BY <2>1, HookishStep
<1> QED  BY <1>1, <1>2 DEF H!HookStep

LEMMA HandoffStepInv == ASSUME HandoffInv, [H!Next]_(H!vars)  PROVE HandoffInv'
<1>1. CASE H!WorkerStep
  BY <1>1, TakeStep, AttemptStep, LateStep, EndStep DEF H!WorkerStep
<1>2. CASE H!Stop \/ H!Crash
  BY <1>2, StopStep
<1>3. CASE H!Start \/ UNCHANGED H!vars
  <2>1. Hookish
    BY <1>3 DEF H!Start, H!vars, Hookish
  <2> QED  BY <2>1, HookishStep
<1>4. ASSUME NEW s \in Session, H!HookStep(s)  PROVE HandoffInv'
  BY <1>4, HookStepInv
<1> QED  BY <1>1, <1>2, <1>3, <1>4 DEF H!Next

LEMMA HandoffAlwaysInv == H!Spec => []HandoffInv
  BY HandoffInitInv, HandoffStepInv, PTL DEF H!Spec

----------------------------------------------------------------------------
\* The status file and the events are true of the jobs: a pending job has work
\* or was taken by a stop or a crash, and no job has both outcomes unless a
\* publish raised too late, for any sessions, queue lengths and attempts.
THEOREM StatusAndEventsAgree == H!Spec => []JobsAreToldOf
  BY HandoffAlwaysInv, PTL DEF HandoffInv, H!JobsAreToldOf, JobsAreToldOf

-----------------------------------------------------------------------------
(* Scheduler                                                               *)
\* WantedIsStored is inductive once it is known that a call under way names a
\* job.

SchedulerCalls ==
  [tool : {"none", "create", "delete", "pause", "resume", "update"},
   job : ScheduledJob \cup {"none"}, at : {"done", "looked", "removed"}]

SchedulerTypes ==
  /\ store \in [ScheduledJob -> {"absent", "active", "paused"}]
  /\ call \in [ToolCaller -> SchedulerCalls]
  /\ wanted \subseteq ScheduledJob /\ interrupted \subseteq ScheduledJob

\* A call that has looked has found, or not found, a job.
CallsNameJobs == \A c \in ToolCaller : call[c].at # "done" => call[c].job \in ScheduledJob

SchedulerInv == SchedulerTypes /\ CallsNameJobs /\ S!WantedIsStored

----------------------------------------------------------------------------
LEMMA NoCallIsCall == S!NoCall \in SchedulerCalls /\ S!NoCall.at = "done"
  BY DEF S!NoCall, SchedulerCalls

LEMMA SchedulerInitInv == ASSUME S!Init  PROVE SchedulerInv
<1>1. store = [n \in ScheduledJob |-> IF n \in Seed THEN "active" ELSE "absent"]
  BY ServicesAssumption DEF S!Init, S!Seeded
<1> QED
  BY <1>1, NoCallIsCall, ServicesAssumption
  DEF S!Init, SchedulerInv, SchedulerTypes, CallsNameJobs, S!WantedIsStored, S!Present

\* What is in the way of a job: nothing, an update that will add it, or one
\* that was cut off.
SchedulerSafe(n) ==
  store[n] # "absent" \/ n \in interrupted \/ \E c \in ToolCaller : call[c].at = "removed" /\ call[c].job = n

LEMMA WantedIsSafe ==
  ASSUME SchedulerTypes  PROVE S!WantedIsStored <=> \A n \in wanted : SchedulerSafe(n)
  BY DEF SchedulerTypes, S!WantedIsStored, S!Present, SchedulerSafe

LEMMA WantedIsSafeNext ==
  ASSUME SchedulerTypes'  PROVE S!WantedIsStored' <=> \A n \in wanted' : SchedulerSafe(n)'
  BY DEF SchedulerTypes, S!WantedIsStored, S!Present, SchedulerSafe

\* The call of c goes to another place, all others stay.
LEMMA ToolStepInv ==
  ASSUME SchedulerInv, NEW c \in ToolCaller, S!ToolStep(c)
  PROVE  SchedulerInv'
<1> USE DEF SchedulerInv
<1>1. CASE \E tool \in {"create", "delete", "pause", "resume", "update"}, n \in ScheduledJob : S!Look(c, tool, n)
  <2>1. PICK tool \in {"create", "delete", "pause", "resume", "update"}, n \in ScheduledJob : S!Look(c, tool, n)
    BY <1>1
  <2>2. SchedulerTypes' /\ CallsNameJobs'
    BY <2>1 DEF S!Look, SchedulerTypes, CallsNameJobs, SchedulerCalls, S!schedules, S!process
  <2>3. \A k \in wanted' : SchedulerSafe(k)'
    BY <2>1, WantedIsSafe
    DEF S!Look, SchedulerTypes, SchedulerSafe, S!schedules, S!process, S!NoCall
  <2> QED  BY <2>2, <2>3, WantedIsSafeNext
<1>2. CASE S!Create(c)
  <2> DEFINE n == call[c].job
  <2>1. n \in ScheduledJob /\ store' = [store EXCEPT ![n] = IF @ = "absent" THEN "active" ELSE @]
        /\ wanted' = wanted \cup {n} /\ interrupted' = interrupted \ {n}
        /\ call' = [call EXCEPT ![c] = S!NoCall] /\ call[c].at = "looked"
    BY <1>2 DEF S!Create, CallsNameJobs
  <2>2. SchedulerTypes' /\ CallsNameJobs'
    BY <2>1, NoCallIsCall DEF SchedulerTypes, CallsNameJobs
  <2>3. \A k \in wanted' : SchedulerSafe(k)'
    BY <2>1, NoCallIsCall, WantedIsSafe DEF SchedulerTypes, SchedulerSafe
  <2> QED  BY <2>2, <2>3, WantedIsSafeNext
<1>3. CASE S!Delete(c)
  <2> DEFINE n == call[c].job
  <2>1. n \in ScheduledJob /\ store' = [store EXCEPT ![n] = "absent"]
        /\ wanted' = wanted \ {n} /\ interrupted' = interrupted \ {n}
        /\ call' = [call EXCEPT ![c] = S!NoCall] /\ call[c].at = "looked"
    BY <1>3 DEF S!Delete, CallsNameJobs
  <2>2. SchedulerTypes' /\ CallsNameJobs'
    BY <2>1, NoCallIsCall DEF SchedulerTypes, CallsNameJobs
  <2>3. \A k \in wanted' : SchedulerSafe(k)'
    BY <2>1, NoCallIsCall, WantedIsSafe DEF SchedulerTypes, SchedulerSafe
  <2> QED  BY <2>2, <2>3, WantedIsSafeNext
<1>4. CASE S!SetPaused(c)
  <2>1. /\ \A k \in ScheduledJob : store'[k] \in {"absent", "active", "paused"} /\ (store'[k] = "absent" <=> store[k] = "absent")
        /\ store' \in [ScheduledJob -> {"absent", "active", "paused"}]
        /\ wanted' = wanted /\ interrupted' = interrupted
        /\ call' = [call EXCEPT ![c] = S!NoCall] /\ call[c].at = "looked"
    BY <1>4 DEF S!SetPaused, CallsNameJobs, SchedulerTypes
  <2>2. SchedulerTypes' /\ CallsNameJobs'
    BY <2>1, NoCallIsCall DEF SchedulerTypes, CallsNameJobs
  <2>3. \A k \in wanted' : SchedulerSafe(k)'
    BY <2>1, NoCallIsCall, WantedIsSafe DEF SchedulerTypes, SchedulerSafe
  <2> QED  BY <2>2, <2>3, WantedIsSafeNext
<1>5. CASE S!UpdateRemoves(c)
  <2> DEFINE n == call[c].job
  <2>1. n \in ScheduledJob /\ store' = [store EXCEPT ![n] = "absent"]
        /\ wanted' = wanted /\ interrupted' = interrupted
        /\ call' = [call EXCEPT ![c].at = "removed"] /\ call[c].at = "looked"
    BY <1>5 DEF S!UpdateRemoves, CallsNameJobs
  <2>2. SchedulerTypes' /\ CallsNameJobs'
    BY <2>1 DEF SchedulerTypes, CallsNameJobs, SchedulerCalls
  <2>3. \A k \in wanted' : SchedulerSafe(k)'
    BY <2>1, WantedIsSafe DEF SchedulerTypes, SchedulerSafe
  <2> QED  BY <2>2, <2>3, WantedIsSafeNext
<1>6. CASE S!UpdateAdds(c)
  <2> DEFINE n == call[c].job
  <2>1. n \in ScheduledJob /\ store' = [store EXCEPT ![n] = IF @ = "absent" THEN "active" ELSE @]
        /\ wanted' = wanted /\ interrupted' = interrupted
        /\ call' = [call EXCEPT ![c] = S!NoCall] /\ call[c].at = "removed"
    BY <1>6 DEF S!UpdateAdds, CallsNameJobs
  <2>2. SchedulerTypes' /\ CallsNameJobs'
    BY <2>1, NoCallIsCall DEF SchedulerTypes, CallsNameJobs
  <2>3. \A k \in wanted' : SchedulerSafe(k)'
    BY <2>1, NoCallIsCall, WantedIsSafe DEF SchedulerTypes, SchedulerSafe
  <2> QED  BY <2>2, <2>3, WantedIsSafeNext
<1>7. CASE S!CallFails(c)
  <2>1. /\ store' = store /\ wanted' = wanted
        /\ interrupted' = IF call[c].at = "removed" THEN interrupted \cup {call[c].job} ELSE interrupted
        /\ call' = [call EXCEPT ![c] = S!NoCall]
    BY <1>7 DEF S!CallFails, S!schedules
  <2>2. SchedulerTypes' /\ CallsNameJobs'
    BY <2>1, NoCallIsCall DEF SchedulerTypes, CallsNameJobs
  <2>3. \A k \in wanted' : SchedulerSafe(k)'
    BY <2>1, NoCallIsCall, WantedIsSafe DEF SchedulerTypes, SchedulerSafe
  <2> QED  BY <2>2, <2>3, WantedIsSafeNext
<1> QED  BY <1>1, <1>2, <1>3, <1>4, <1>5, <1>6, <1>7 DEF S!ToolStep

\* Nothing of it changes while jobs fire and the endpoint is taken down.
Idles == UNCHANGED <<store, call, wanted, interrupted>>

LEMMA IdleStep == ASSUME SchedulerInv, Idles  PROVE SchedulerInv'
<1>1. SchedulerTypes' /\ CallsNameJobs'
  BY DEF SchedulerInv, Idles, SchedulerTypes, CallsNameJobs
<1>2. S!WantedIsStored'
  BY DEF SchedulerInv, Idles, S!WantedIsStored, S!Present
<1> QED  BY <1>1, <1>2 DEF SchedulerInv

\* A start seeds what is not there, and takes nothing away.
LEMMA StartStep == ASSUME SchedulerInv, S!Start  PROVE SchedulerInv'
<1>1. /\ store' = [n \in ScheduledJob |-> IF n \in Seed /\ store[n] = "absent" THEN "active" ELSE store[n]]
      /\ wanted' = wanted \cup Seed /\ interrupted' = interrupted \ Seed /\ call' = call
  BY DEF S!Start, S!Seeded
<1>2. SchedulerTypes' /\ CallsNameJobs'
  BY <1>1, ServicesAssumption DEF SchedulerInv, SchedulerTypes, CallsNameJobs
<1>3. \A k \in wanted' : SchedulerSafe(k)'
  BY <1>1, WantedIsSafe, ServicesAssumption DEF SchedulerInv, SchedulerTypes, SchedulerSafe
<1> QED  BY <1>2, <1>3, WantedIsSafeNext DEF SchedulerInv

\* The end of the process cuts off the updates that have removed.
LEMMA SchedulerCrashStep == ASSUME SchedulerInv, S!Crash  PROVE SchedulerInv'
<1>1. /\ store' = store /\ wanted' = wanted
      /\ interrupted' = interrupted \cup {call[c].job : c \in {d \in ToolCaller : call[d].at = "removed"}}
      /\ call' = [c \in ToolCaller |-> S!NoCall]
  BY DEF S!Crash
<1>2. SchedulerTypes' /\ CallsNameJobs'
  BY <1>1, NoCallIsCall DEF SchedulerInv, SchedulerTypes, CallsNameJobs
<1>3. \A k \in wanted' : SchedulerSafe(k)'
  BY <1>1, WantedIsSafe DEF SchedulerInv, SchedulerTypes, SchedulerSafe
<1> QED  BY <1>2, <1>3, WantedIsSafeNext DEF SchedulerInv

LEMMA SchedulerStepInv == ASSUME SchedulerInv, [S!Next]_(S!vars)  PROVE SchedulerInv'
<1>1. CASE UNCHANGED S!vars \/ (\E n \in ScheduledJob : S!Due(n) \/ S!Fire(n)) \/ S!EngineDies \/ S!Poll
           \/ S!RestartStops \/ S!Stop \/ S!StartFails
  <2>1. Idles
    BY <1>1
    DEF S!vars, S!schedules, S!process, S!Due, S!Fire, S!EngineDies, S!Poll, S!RestartStops,
        S!Stop, S!StartFails, Idles
  <2> QED  BY <2>1, IdleStep
<1>2. ASSUME NEW c \in ToolCaller, S!ToolStep(c)  PROVE SchedulerInv'
  BY <1>2, ToolStepInv
<1>3. CASE S!Start \/ S!Crash
  BY <1>3, StartStep, SchedulerCrashStep
<1> QED  BY <1>1, <1>2, <1>3 DEF S!Next

LEMMA SchedulerAlwaysInv == S!Spec => []SchedulerInv
  BY SchedulerInitInv, SchedulerStepInv, PTL DEF S!Spec

----------------------------------------------------------------------------
\* No job is lost to tool calls that interleave, for any number of them: what
\* was seeded or created and not deleted is in the store, or an update has it
\* in hand, or was cut off with it.
THEOREM NoJobIsLost == S!Spec => []WantedIsStored
  BY SchedulerAlwaysInv, PTL DEF SchedulerInv, WantedIsStored

-----------------------------------------------------------------------------
(* Voice                                                                   *)
\* What a well-formed request may still be answered for - being with the bus,
\* in a deliver() call or in a task - and what it has been answered, together
\* never exceed its deliveries.

VoiceTypes ==
  /\ mail \subseteq Request
  /\ handling \in [Request -> [V!Call -> Nat]]
  /\ synthesis \in [Request -> [V!Stage -> Nat]]
  /\ answers \in [Request -> Nat] /\ again \in [Request -> Nat] /\ doubled \in [Request -> Nat]

\* How many tasks a request has.
Working(r) ==
  synthesis[r]["starting"] + synthesis[r]["synthesising"] + synthesis[r]["writing"]
    + synthesis[r]["announcing"] + synthesis[r]["failing"]

AnswerPerDelivery(r) ==
  /\ handling[r]["rejecting"] = 0
  /\ (IF r \in mail THEN 1 ELSE 0) + handling[r]["acking"] + Working(r) + answers[r]
       <= 1 + again[r] + doubled[r]

VoiceInv == VoiceTypes /\ \A r \in V!WellFormed : AnswerPerDelivery(r)

----------------------------------------------------------------------------
LEMMA VoiceInitInv == ASSUME V!Init  PROVE VoiceInv
  BY DEF V!Init, VoiceInv, VoiceTypes, AnswerPerDelivery, Working, V!WellFormed, V!NoCalls,
         V!NoTasks, V!Call, V!Stage

LEMMA VoiceImplies == ASSUME VoiceInv  PROVE V!OneAnswer
<1> SUFFICES ASSUME NEW r \in V!WellFormed  PROVE answers[r] <= 1 + again[r] + doubled[r]
  BY DEF V!OneAnswer
<1>1. Working(r) \in Nat /\ handling[r]["acking"] \in Nat
  BY DEF VoiceInv, VoiceTypes, Working, V!WellFormed, V!Stage, V!Call
<1>2. answers[r] \in Nat /\ again[r] \in Nat /\ doubled[r] \in Nat
  BY DEF VoiceInv, VoiceTypes, V!WellFormed
<1> QED  BY <1>1, <1>2 DEF VoiceInv, AnswerPerDelivery

\* A step of one request changes nothing of another, and keeps its types.
StaysWith(r) ==
  /\ VoiceTypes'
  /\ \A q \in Request \ {r} :
       /\ q \in mail' <=> q \in mail
       /\ handling'[q] = handling[q] /\ synthesis'[q] = synthesis[q]
       /\ answers'[q] = answers[q] /\ again'[q] = again[q] /\ doubled'[q] = doubled[q]

\* So it is enough to look at that request.
LEMMA OneRequest ==
  ASSUME VoiceInv, NEW r \in Request, StaysWith(r), r \in V!WellFormed => AnswerPerDelivery(r)'
  PROVE  VoiceInv'
<1> SUFFICES ASSUME NEW q \in V!WellFormed, q # r  PROVE AnswerPerDelivery(q)'
  BY DEF VoiceInv, StaysWith, V!WellFormed
<1>1. AnswerPerDelivery(q) /\ q \in Request \ {r}
  BY DEF VoiceInv, V!WellFormed
<1> QED  BY <1>1 DEF StaysWith, AnswerPerDelivery, Working

\* deliver() is called, once more, or returns or raises.
LEMMA DeliverStep ==
  ASSUME VoiceInv, NEW r \in Request,
         \/ V!Deliver(r) \/ V!DeliverAgain(r) \/ V!Reject(r) \/ V!AckReturns(r)
         \/ V!DeliverRaises(r) \/ V!NotAcked(r)
  PROVE  VoiceInv'
<1> USE DEF VoiceInv, VoiceTypes, V!WellFormed, V!Call, V!Stage
<1>1. CASE V!Deliver(r) \/ V!DeliverAgain(r)
  <2>1. PICK c \in V!Call : /\ handling' = [handling EXCEPT ![r][c] = @ + 1]
                            /\ c = IF r \in Malformed THEN "rejecting" ELSE "acking"
    BY <1>1 DEF V!Deliver, V!DeliverAgain, V!Called
  <2>2. StaysWith(r)
    BY <1>1, <2>1 DEF V!Deliver, V!DeliverAgain, StaysWith
  <2>3. r \in V!WellFormed => AnswerPerDelivery(r)'
    BY <1>1, <2>1 DEF V!Deliver, V!DeliverAgain, AnswerPerDelivery, Working
  <2> QED  BY <2>2, <2>3, OneRequest
<1>2. CASE V!Reject(r)
  <2>1. StaysWith(r)
    BY <1>2 DEF V!Reject, StaysWith
  <2>2. r \in V!WellFormed => AnswerPerDelivery(r)'
    BY <1>2 DEF V!Reject, AnswerPerDelivery
  <2> QED  BY <2>1, <2>2, OneRequest
<1>3. CASE V!AckReturns(r)
  <2>1. handling[r]["acking"] > 0 /\ handling' = [handling EXCEPT ![r]["acking"] = @ - 1]
    BY <1>3 DEF V!AckReturns, V!Returned
  <2>2. UNCHANGED <<mail, answers, again, doubled>>
    BY <1>3 DEF V!AckReturns
  <2>3. CASE V!Spawned(r)
    <3>1. StaysWith(r)
      BY <2>1, <2>2, <2>3 DEF V!Spawned, StaysWith
    <3>2. r \in V!WellFormed => AnswerPerDelivery(r)'
      BY <2>1, <2>2, <2>3 DEF V!Spawned, AnswerPerDelivery, Working
    <3> QED  BY <3>1, <3>2, OneRequest
  <2>4. CASE UNCHANGED synthesis
    <3>1. StaysWith(r)
      BY <2>1, <2>2, <2>4 DEF StaysWith
    <3>2. r \in V!WellFormed => AnswerPerDelivery(r)'
      BY <2>1, <2>2, <2>4 DEF AnswerPerDelivery, Working
    <3> QED  BY <3>1, <3>2, OneRequest
  <2> QED  BY <1>3, <2>3, <2>4 DEF V!AckReturns
<1>4. CASE V!DeliverRaises(r)
  <2>1. StaysWith(r)
    BY <1>4 DEF V!DeliverRaises, V!Returned, StaysWith
  <2>2. r \in V!WellFormed => AnswerPerDelivery(r)'
    BY <1>4 DEF V!DeliverRaises, V!Returned, AnswerPerDelivery, Working
  <2> QED  BY <2>1, <2>2, OneRequest
<1>5. CASE V!NotAcked(r)
  <2>1. StaysWith(r)
    BY <1>5 DEF V!NotAcked, V!Returned, StaysWith
  <2>2. r \notin V!WellFormed
    BY <1>5 DEF V!NotAcked
  <2> QED  BY <2>1, <2>2, OneRequest
<1> QED  BY <1>1, <1>2, <1>3, <1>4, <1>5

\* A task goes on, without an answer.
LEMMA GoesStep ==
  ASSUME VoiceInv, NEW r \in Request, NEW from \in V!Stage, NEW to \in V!Stage, from # to,
         V!Goes(r, from, to)
  PROVE  VoiceInv'
<1> USE DEF VoiceInv, VoiceTypes, V!WellFormed, V!Stage, V!Goes, V!Moves
<1>1. StaysWith(r)
  BY DEF StaysWith
<1>2. r \in V!WellFormed => AnswerPerDelivery(r)'
  BY DEF AnswerPerDelivery, Working
<1> QED  BY <1>1, <1>2, OneRequest

\* A task ends, at most with an answer, or answers and goes on to a second one.
LEMMA TaskEndsStep ==
  ASSUME VoiceInv, NEW r \in Request,
         V!BeginRaises(r) \/ V!Answer(r) \/ V!ReadyFailsLate(r) \/ V!FailedFails(r)
  PROVE  VoiceInv'
<1>1. ASSUME NEW s \in V!Stage, V!Ends(r, s),
             UNCHANGED <<mail, handling, again, doubled>>,
             answers' = answers \/ V!Answered(r)
      PROVE  VoiceInv'
  <2> USE DEF VoiceInv, VoiceTypes, V!WellFormed, V!Stage, V!Ends, V!Answered
  <2>1. synthesis' \in [Request -> [V!Stage -> Nat]]
    BY <1>1
  <2>2. answers' \in [Request -> Nat]
    BY <1>1
  <2>3. StaysWith(r)
    BY <1>1, <2>1, <2>2 DEF StaysWith
  <2>4. Working(r)' = Working(r) - 1
    BY <1>1 DEF Working
  <2>5. answers'[r] <= answers[r] + 1
    BY <1>1
  <2>6. Working(r) \in Nat /\ answers[r] \in Nat /\ answers'[r] \in Nat
    BY <2>2 DEF Working
  <2>7. r \in V!WellFormed => AnswerPerDelivery(r)'
    BY <1>1, <2>4, <2>5, <2>6 DEF AnswerPerDelivery, V!Call
  <2> QED  BY <2>3, <2>7, OneRequest
<1>2. CASE V!BeginRaises(r) \/ V!Answer(r) \/ V!FailedFails(r)
  BY <1>1, <1>2 DEF V!BeginRaises, V!Answer, V!FailedFails, V!Stage
<1>3. CASE V!ReadyFailsLate(r)
  <2> USE DEF VoiceInv, VoiceTypes, V!WellFormed, V!Stage, V!Ends, V!Moves, V!Answered
  <2>1. StaysWith(r)
    BY <1>3 DEF V!ReadyFailsLate, StaysWith
  <2>2. r \in V!WellFormed => AnswerPerDelivery(r)'
    BY <1>3 DEF V!ReadyFailsLate, AnswerPerDelivery, Working
  <2> QED  BY <2>1, <2>2, OneRequest
<1> QED  BY <1>1, <1>2, <1>3

LEMMA TaskStep ==
  ASSUME VoiceInv, NEW r \in Request,
         \/ V!Begin(r) \/ V!Synthesised(r) \/ V!TimesOut(r) \/ V!SynthesisFails(r)
         \/ V!Written(r) \/ V!WriteFails(r) \/ V!ReadyFails(r)
  PROVE  VoiceInv'
<1>1. CASE V!Begin(r)
  BY <1>1, GoesStep DEF V!Begin, V!Stage
<1>2. CASE V!Synthesised(r) \/ V!TimesOut(r) \/ V!SynthesisFails(r)
  BY <1>2, GoesStep DEF V!Synthesised, V!TimesOut, V!SynthesisFails, V!Stage
<1>3. CASE V!Written(r) \/ V!WriteFails(r) \/ V!ReadyFails(r)
  BY <1>3, GoesStep DEF V!Written, V!WriteFails, V!ReadyFails, V!Stage
<1> QED  BY <1>1, <1>2, <1>3

\* The endpoint stops or starts, or the process ends: tasks end, and what was
\* in deliver() goes back to the bus with nothing done for it.
LEMMA EndpointStep == ASSUME VoiceInv, V!Stop \/ V!Start \/ V!Crash  PROVE VoiceInv'
<1> USE DEF VoiceInv, VoiceTypes, AnswerPerDelivery, Working, V!WellFormed, V!Call, V!Stage,
            V!NoCalls, V!NoTasks
<1>1. CASE V!Stop
  BY <1>1 DEF V!Stop
<1>2. CASE V!Start
  BY <1>2 DEF V!Start
<1>3. CASE V!Crash
  <2>1. VoiceTypes'
    BY <1>3 DEF V!Crash
  <2>2. ASSUME NEW r \in V!WellFormed  PROVE AnswerPerDelivery(r)'
    <3>1. CASE handling[r] = V!NoCalls
      BY <1>3, <3>1 DEF V!Crash
    <3>2. CASE handling[r] # V!NoCalls
      <4>1. handling[r]["acking"] > 0
        BY <3>2
      <4> QED  BY <1>3, <4>1 DEF V!Crash
    <3> QED  BY <3>1, <3>2
  <2> QED  BY <2>1, <2>2
<1> QED  BY <1>1, <1>2, <1>3

LEMMA VoiceStepInv == ASSUME VoiceInv, [V!Next]_(V!vars)  PROVE VoiceInv'
<1>1. ASSUME NEW r \in Request, V!Step(r) \/ V!DeliverAgain(r)  PROVE VoiceInv'
  <2>1. CASE \/ V!Deliver(r) \/ V!DeliverAgain(r) \/ V!Reject(r) \/ V!AckReturns(r)
             \/ V!DeliverRaises(r) \/ V!NotAcked(r)
    BY <2>1, DeliverStep
  <2>2. CASE \/ V!Begin(r) \/ V!Synthesised(r) \/ V!TimesOut(r) \/ V!SynthesisFails(r)
             \/ V!Written(r) \/ V!WriteFails(r) \/ V!ReadyFails(r)
    BY <2>2, TaskStep
  <2>3. CASE V!BeginRaises(r) \/ V!Answer(r) \/ V!ReadyFailsLate(r) \/ V!FailedFails(r)
    BY <2>3, TaskEndsStep
  <2> QED  BY <1>1, <2>1, <2>2, <2>3 DEF V!Step
<1>2. CASE UNCHANGED V!vars
  BY <1>2 DEF V!vars, VoiceInv, VoiceTypes, AnswerPerDelivery, Working
<1> QED  BY <1>1, <1>2, EndpointStep DEF V!Next

LEMMA VoiceAlwaysInv == V!Spec => []VoiceInv
  BY VoiceInitInv, VoiceStepInv, PTL DEF V!Spec

----------------------------------------------------------------------------
\* A well-formed request has at most one answer for the delivery it is owed and
\* each one the bus made too many, for any number of requests and however often
\* stops, crashes and failing calls come in between; one more only when the
\* publish of a Ready raised after it had stored it.
THEOREM AnsweredOnce == V!Spec => []OneAnswer
<1>1. VoiceInv => OneAnswer
  BY VoiceImplies DEF OneAnswer
<1> QED  BY <1>1, VoiceAlwaysInv, PTL

-----------------------------------------------------------------------------
(* Presence                                                                *)
\* The marker and the resolution agree once it is known what a watcher has
\* read of the marker on its way up.

PresenceTypes ==
  /\ watcher \in {"down", "opening", "reducing", "warming", "reading", "degrading",
                  "restoring", "marking"}
  /\ marker \in BOOLEAN /\ reduced \in BOOLEAN

\* A watcher that reduces found a marker; one that warms up already has the
\* resolution the marker tells of.
PresencePrepared ==
  /\ watcher = "reducing" => marker
  /\ watcher = "warming" /\ ~astray => marker = reduced

PresenceInv == PresenceTypes /\ PresencePrepared /\ P!MarkerIsKept

LEMMA PresenceInitInv == ASSUME P!Init  PROVE PresenceInv
  BY DEF P!Init, PresenceInv, PresenceTypes, PresencePrepared, P!MarkerIsKept

LEMMA PresenceStepInv == ASSUME PresenceInv, [P!Next]_(P!vars)  PROVE PresenceInv'
<1> USE DEF PresenceInv, PresenceTypes, PresencePrepared, P!MarkerIsKept
<1>1. CASE P!CameraGoes \/ P!CameraComes \/ P!Spawn \/ P!Exit \/ P!OpenFails \/ P!WarmFails
  BY <1>1 DEF P!CameraGoes, P!CameraComes, P!Spawn, P!Exit, P!OpenFails, P!WarmFails, P!Gone
<1>2. CASE P!Open \/ P!Reduce \/ P!Warm
  BY <1>2 DEF P!Open, P!Reduce, P!Reopen, P!Warm
<1>3. CASE P!Cycle
  <2>1. watcher = "reading" /\ watcher' \in {"reading", "restoring"}
        /\ UNCHANGED <<reduced, marker, astray>>
    BY <1>3 DEF P!Cycle
  <2> QED  BY <2>1
<1>4. CASE P!CycleFails
  <2>1. watcher = "reading" /\ watcher' \in {"reading", "degrading"}
        /\ UNCHANGED <<reduced, marker, astray>>
    BY <1>4 DEF P!CycleFails
  <2> QED  BY <2>1
<1>5. CASE P!Degrade \/ P!Restore
  BY <1>5 DEF P!Degrade, P!Restore, P!Reopen
<1>6. CASE P!Mark \/ P!MarkFails
  BY <1>6 DEF P!Mark, P!MarkFails
<1>7. CASE UNCHANGED P!vars
  BY <1>7 DEF P!vars
<1> QED  BY <1>1, <1>2, <1>3, <1>4, <1>5, <1>6, <1>7 DEF P!Next, P!WatcherStep

\* Whatever fails and whenever the watcher restarts, it is at the resolution its
\* marker tells of, for any thresholds, unless the marker could not be written.
THEOREM MarkersAreKept == P!Spec => []MarkerIsKept
<1>1. P!Spec => []PresenceInv
  BY PresenceInitInv, PresenceStepInv, PTL DEF P!Spec
<1> QED  BY <1>1, PTL DEF PresenceInv, MarkerIsKept

-----------------------------------------------------------------------------
(* DaemonProcess                                                           *)
\* While the event loop turns, the silence since the last beat and what is
\* left of the TTL loop's sleep together never exceed its interval and the
\* sweep it makes first.

ProcessLoopState ==
  [at : {"off", "due", "sweeping", "hanging", "sleeping"}, left : Nat]

ProcessTypes == loops \in [D!Loop -> ProcessLoopState] /\ silence \in Nat

\* A call that hangs is one of a boot or a shutdown, and
\* the TTL loop is at work while the process runs: what is left of its
\* sweep or its sleep bounds the silence.
ProcessBeating ==
  /\ main = "running" =>
       /\ stuck # "call"
       /\ loops["ttl"].at \in {"due", "sweeping", "sleeping"}
       /\ stuck = "no" /\ loops["ttl"].at = "sweeping" =>
            silence + loops["ttl"].left <= MaxSweep
       /\ stuck = "no" /\ loops["ttl"].at = "sleeping" =>
            silence + loops["ttl"].left <= MaxSweep + Interval["ttl"]

ProcessInv == ProcessTypes /\ ProcessBeating

LEMMA ProcessInitInv == ASSUME D!Init  PROVE ProcessInv
  BY DEF D!Init, ProcessInv, ProcessTypes, ProcessBeating, ProcessLoopState, D!Off

\* A loop's step moves its own entry.
LEMMA LoopMoves ==
  ASSUME ProcessInv, NEW l \in D!Loop, D!LoopStep(l) \/ D!SweepHangs(l)
  PROVE  ProcessInv'
<1> USE ServicesAssumption DEF ProcessInv, ProcessTypes, ProcessBeating, D!Loop
<1>0. l \in DOMAIN loops /\ loops[l] \in ProcessLoopState /\ loops["ttl"] \in ProcessLoopState
  OBVIOUS
<1>1. CASE D!SweepBegins(l)
  <2>1. PICK t \in 0..MaxSweep : loops' = [loops EXCEPT ![l] = [at |-> "sweeping", left |-> t]]
    BY <1>1 DEF D!SweepBegins
  <2>2. [at |-> "sweeping", left |-> t] \in ProcessLoopState
    BY DEF ProcessLoopState
  <2>3. ProcessTypes'
    BY <1>1, <2>1, <2>2 DEF D!SweepBegins
  <2>4. CASE l = "ttl"
    <3>1. loops'["ttl"] = [at |-> "sweeping", left |-> t] /\ silence' = 0
      BY <1>1, <2>1, <2>4 DEF D!SweepBegins, D!Beats
    <3> QED  BY <1>1, <2>3, <3>1 DEF D!SweepBegins
  <2>5. CASE l # "ttl"
    <3>1. loops'["ttl"] = loops["ttl"] /\ silence' <= silence
      BY <1>1, <2>1, <2>5 DEF D!SweepBegins, D!Beats
    <3> QED  BY <1>0, <1>1, <2>3, <3>1 DEF D!SweepBegins, ProcessLoopState
  <2> QED  BY <2>4, <2>5
<1>2. CASE D!SweepHangs(l)
  <2>1. D!Hanging \in ProcessLoopState
    BY DEF D!Hanging, ProcessLoopState
  <2>2. loops'["ttl"] = loops["ttl"]
    BY <1>2 DEF D!SweepHangs
  <2> QED  BY <1>2, <2>1, <2>2 DEF D!SweepHangs
<1>3. CASE D!SweepEnds(l)
  <2>1. [at |-> "sleeping", left |-> Interval[l]] \in ProcessLoopState
    BY DEF ProcessLoopState
  <2>2. ProcessTypes'
    BY <1>3, <2>1 DEF D!SweepEnds
  <2>3. CASE l = "ttl"
    <3>1. loops'["ttl"] = [at |-> "sleeping", left |-> Interval["ttl"]]
          /\ loops["ttl"].at = "sweeping" /\ loops["ttl"].left = 0
      BY <1>3, <2>3 DEF D!SweepEnds
    <3> QED  BY <1>3, <2>2, <3>1 DEF D!SweepEnds
  <2>4. CASE l # "ttl"
    BY <1>3, <2>2, <2>4 DEF D!SweepEnds
  <2> QED  BY <2>3, <2>4
<1>4. CASE D!Wakes(l)
  <2>1. D!Due \in ProcessLoopState
    BY DEF D!Due, ProcessLoopState
  <2>2. loops'["ttl"] = loops["ttl"] \/ loops'["ttl"] = D!Due
    BY <1>4 DEF D!Wakes
  <2> QED  BY <1>4, <2>1, <2>2 DEF D!Wakes, D!Due
<1> QED  BY <1>1, <1>2, <1>3, <1>4 DEF D!LoopStep

\* What is left of the sweep or the sleep goes down as the silence goes up.
LEMMA TickKeeps == ASSUME ProcessInv, D!Tick  PROVE ProcessInv'
<1> USE ServicesAssumption DEF ProcessInv, ProcessTypes, ProcessBeating, D!Loop
<1>1. \A l \in D!Loop : D!Passed(l) \in ProcessLoopState
  BY DEF D!Passed, ProcessLoopState
<1>2. ProcessTypes'
  BY <1>1 DEF D!Tick, D!Silent
<1>3. CASE stuck = "loop"
  BY <1>2, <1>3 DEF D!Tick
<1>4. CASE stuck # "loop"
  <2>1. loops'["ttl"] = D!Passed("ttl")
    BY <1>4 DEF D!Tick
  <2>2. loops["ttl"] \in ProcessLoopState /\ silence' <= silence + 1
    BY DEF D!Tick, D!Silent
  <2>3. CASE loops["ttl"].left > 0
    <3>1. loops'["ttl"].at = loops["ttl"].at /\ loops'["ttl"].left = loops["ttl"].left - 1
      BY <2>1, <2>2, <2>3 DEF D!Passed, ProcessLoopState
    <3> QED  BY <1>2, <2>2, <3>1 DEF D!Tick, ProcessLoopState
  <2>4. CASE ~ (loops["ttl"].left > 0)
    <3>1. main # "running"
      BY <1>4, <2>4 DEF D!Tick, D!Quiet
    <3> QED  BY <1>2, <3>1 DEF D!Tick
  <2> QED  BY <2>3, <2>4
<1> QED  BY <1>3, <1>4

LEMMA ProcessStepInv == ASSUME ProcessInv, [D!Next]_(D!vars)  PROVE ProcessInv'
<1> USE ServicesAssumption DEF ProcessInv, ProcessTypes, ProcessBeating, D!Loop
<1>0. D!Off \in ProcessLoopState /\ D!Due \in ProcessLoopState
  BY DEF D!Off, D!Due, ProcessLoopState
<1>1. CASE D!ServiceStarts \/ D!HttpStarts \/ D!HttpFails \/ D!BootFails \/ D!EarlySignal
  BY <1>1 DEF D!ServiceStarts, D!HttpStarts, D!HttpFails, D!BootFails, D!EarlySignal
<1>2. CASE D!Drain
  BY <1>2 DEF D!Drain, D!Silent
<1>3. CASE D!BootEnds
  BY <1>0, <1>3 DEF D!BootEnds, D!Due
<1>4. CASE D!Signal \/ D!Fires
  BY <1>0, <1>4 DEF D!Signal, D!Fires
<1>5. CASE D!BusStops \/ D!HttpStops \/ D!ServerDies \/ D!Hang \/ D!Block
  BY <1>5 DEF D!BusStops, D!HttpStops, D!ServerDies, D!Hang, D!Block
<1>6. CASE UNCHANGED D!vars
  BY <1>6 DEF D!vars
<1> QED
  BY <1>1, <1>2, <1>3, <1>4, <1>5, <1>6, LoopMoves, TickKeeps DEF D!Next, D!MainStep

\* While the event loop turns and the TTL loop has begun, the silence since the
\* last beat is at most a sleep and a sweep of it, for any intervals and any
\* watchdog_timeout_seconds.
THEOREM SparesWhatTurns == D!Spec => []SparedWhileRunning
<1>1. D!Spec => []ProcessInv
  BY ProcessInitInv, ProcessStepInv, PTL DEF D!Spec
<1>2. ProcessInv => D!SparedWhileRunning
  <2> SUFFICES ASSUME ProcessInv, main = "running", stuck = "no", loops["ttl"].at # "due"
               PROVE  silence <= MaxSweep + Interval["ttl"]
    BY DEF D!SparedWhileRunning
  <2>1. loops["ttl"] \in ProcessLoopState
    BY ServicesAssumption DEF ProcessInv, ProcessTypes, D!Loop
  <2> QED
    BY ServicesAssumption, <2>1 DEF ProcessInv, ProcessTypes, ProcessBeating, ProcessLoopState
<1> QED  BY <1>1, <1>2, PTL DEF SparedWhileRunning
=============================================================================
