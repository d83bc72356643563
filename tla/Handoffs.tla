------------------------------ MODULE Handoffs ------------------------------
(***************************************************************************)
(* The handoff from one session of an agent to the next: the hooks that    *)
(* ask for one when a session is compacted or ends (HandoffWriter,         *)
(* SessionEndWriter), HandoffJobsEndpoint with its queue and worker, the   *)
(* two files it writes, and what HandoffInjector shows the next session.   *)
(*                                                                         *)
(* The hooks are processes of their own: they share the status file with   *)
(* the daemon, without a lock. File writes succeed. SessionEndWriter's     *)
(* branches for a handoff that begins with "# Handoff Note" are left out:  *)
(* only handoff_bg writes that header, and nothing starts handoff_bg.      *)
(***************************************************************************)
EXTENDS Naturals, Sequences

CONSTANTS
  Session,      \* sessions of one agent: they share handoff.md and its status
  MaxSize,      \* bound: how often a transcript grows
  MaxJobs,      \* bound: jobs accepted
  MaxAttempts,  \* max_attempts
  MaxDisturbances  \* bound: stops, crashes and lost answers taken together

VARIABLES
  size,     \* size of each session's transcript
  hook,     \* what the session's hook is doing
  jobs,     \* the jobs accepted so far; a job id is an index
  index,    \* jobs whose idempotency key is in _idempotency_index
  queue,    \* _jobs
  worker,   \* _worker_task
  daemon,   \* "up", "stopped" (HTTP is still served), "dead"
  status,   \* handoff-status.json; job 0 is the hook
  handoff,  \* the job whose text handoff.md holds, 0 for none
  told,     \* events on the bus
  cutOff,   \* jobs a stop or a crash took
  mute,     \* jobs with an event whose publish raised last or after storing it
  used      \* disturbances so far

vars == <<size, hook, jobs, index, queue, worker, daemon, status, handoff, told, cutOff, mute, used>>

Idle == [at |-> "idle", job |-> 0, attempt |-> 0]

Quiet == [at |-> "idle", event |-> "SessionEnd"]

Job == 1..Len(jobs)

InHand == {worker.job} \ {0}

Queued == {queue[i] : i \in DOMAIN queue}

Status(state, s, j) == [state |-> state, session |-> s, job |-> j]

\* write_pending and write_failed of the hooks: no job is named.
HookStatus(state, s) == Status(state, s, 0)

Disturbed == used < MaxDisturbances /\ used' = used + 1

Init ==
  /\ size = [s \in Session |-> 0]
  /\ hook = [s \in Session |-> Quiet]
  /\ jobs = <<>> /\ index = {} /\ queue = <<>>
  /\ worker = Idle /\ daemon = "up"
  /\ status \in {HookStatus("none", s) : s \in Session}
  /\ handoff = 0
  /\ told = {} /\ cutOff = {} /\ mute = {}
  /\ used = 0

----------------------------------------------------------------------------
(* The hooks                                                               *)

Grow(s) ==
  /\ hook[s].at = "idle" /\ size[s] < MaxSize
  /\ size' = [size EXCEPT ![s] = @ + 1]
  /\ UNCHANGED <<hook, jobs, index, queue, worker, daemon, status, handoff, told, cutOff, mute, used>>

\* HandoffWriter on PreCompact; SessionEndWriter marks the status as pending
\* before it calls HandoffWriter.
HookRuns(s, event) ==
  /\ hook[s].at = "idle"
  /\ hook' = [hook EXCEPT ![s] = [at |-> "posting", event |-> event]]
  /\ status' = IF event = "SessionEnd" THEN HookStatus("pending", s) ELSE status
  /\ UNCHANGED <<size, jobs, index, queue, worker, daemon, handoff, told, cutOff, mute, used>>

\* _derive_idempotency_key: session, event and the size of the transcript.
SameKey(s, j) == jobs[j] = [session |-> s, event |-> hook[s].event, size |-> size[s]]

\* _post_job; between the look at the index and the end nothing awaits.
Accept(s) ==
  /\ hook[s].at = "posting" /\ daemon # "dead"
  /\ hook' = [hook EXCEPT ![s].at = "posted"]
  /\ IF \E j \in index : SameKey(s, j)
     THEN UNCHANGED <<jobs, index, queue, status>>
     ELSE LET new == Len(jobs) + 1
          IN /\ new <= MaxJobs
             /\ jobs' = Append(jobs, [session |-> s, event |-> hook[s].event, size |-> size[s]])
             /\ index' = index \cup {new}
             /\ queue' = Append(queue, new)
             /\ status' = Status("pending", s, new)
  /\ UNCHANGED <<size, worker, daemon, handoff, told, cutOff, mute, used>>

\* The answer is "accepted": a SessionEnd leaves the status as it is.
Accepted(s) ==
  /\ hook[s].at = "posted"
  /\ hook' = [hook EXCEPT ![s] = Quiet]
  /\ UNCHANGED <<size, jobs, index, queue, worker, daemon, status, handoff, told, cutOff, mute, used>>

\* The daemon cannot be reached, or its answer does not come within 2 seconds.
Refused(s) ==
  /\ hook[s].at \in {"posting", "posted"}
  /\ IF daemon = "dead" THEN used' = used ELSE Disturbed
  /\ hook' = [hook EXCEPT ![s] = Quiet]
  /\ status' = IF hook[s].event = "SessionEnd" THEN HookStatus("failed", s) ELSE status
  /\ UNCHANGED <<size, jobs, index, queue, worker, daemon, handoff, told, cutOff, mute>>

----------------------------------------------------------------------------
(* The worker                                                              *)

Take ==
  /\ daemon = "up" /\ worker.at = "idle" /\ queue # <<>>
  /\ worker' = [at |-> "extracting", job |-> Head(queue), attempt |-> 1]
  /\ queue' = Tail(queue)
  /\ UNCHANGED <<size, hook, jobs, index, daemon, status, handoff, told, cutOff, mute, used>>

\* The summary has come: handoff.md, then the status, then the event.
Extracted ==
  /\ worker.at = "extracting"
  /\ worker' = [worker EXCEPT !.at = "publishing"]
  /\ handoff' = worker.job
  /\ status' = Status("ready", jobs[worker.job].session, worker.job)
  /\ UNCHANGED <<size, hook, jobs, index, queue, daemon, told, cutOff, mute, used>>

Published ==
  /\ worker.at = "publishing"
  /\ told' = told \cup {<<"HandoffReady", worker.job>>}
  /\ worker' = Idle
  /\ UNCHANGED <<size, hook, jobs, index, queue, daemon, status, handoff, cutOff, mute, used>>

\* publish() raises although it has stored the event: Bus dispatches in the
\* publisher's task, and there a hook or the store may fail. It counts as a
\* failed attempt.
PublishedAndRaises ==
  /\ worker.at = "publishing" /\ Disturbed
  /\ told' = told \cup {<<"HandoffReady", worker.job>>}
  /\ mute' = mute \cup {worker.job}
  /\ IF worker.attempt < MaxAttempts
     THEN worker' = [worker EXCEPT !.at = "sleeping"] /\ status' = status
     ELSE /\ worker' = [worker EXCEPT !.at = "reporting"]
          /\ status' = Status("failed", jobs[worker.job].session, worker.job)
  /\ UNCHANGED <<size, hook, jobs, index, queue, daemon, handoff, cutOff>>

\* No transcript, the SDK or publish() raised, and there are attempts left.
AttemptFails ==
  /\ worker.at \in {"extracting", "publishing"} /\ worker.attempt < MaxAttempts
  /\ worker' = [worker EXCEPT !.at = "sleeping"]
  /\ UNCHANGED <<size, hook, jobs, index, queue, daemon, status, handoff, told, cutOff, mute, used>>

\* Mutant: the attempts are not counted.
RetryForever ==
  /\ worker.at = "sleeping"
  /\ worker' = [worker EXCEPT !.at = "extracting"]
  /\ UNCHANGED <<size, hook, jobs, index, queue, daemon, status, handoff, told, cutOff, mute, used>>

\* The backoff is over.
Retry ==
  /\ worker.at = "sleeping"
  /\ worker' = [worker EXCEPT !.at = "extracting", !.attempt = @ + 1]
  /\ UNCHANGED <<size, hook, jobs, index, queue, daemon, status, handoff, told, cutOff, mute, used>>

\* Mutant: reports without a look at the file.
LastAttemptFailsSilently ==
  /\ worker.at \in {"extracting", "publishing"} /\ worker.attempt = MaxAttempts
  /\ worker' = [worker EXCEPT !.at = "reporting"]
  /\ UNCHANGED <<size, hook, jobs, index, queue, daemon, status, handoff, told, cutOff, mute, used>>

\* Also when all that failed is publish(): the status goes back from ready.
LastAttemptFails ==
  /\ worker.at \in {"extracting", "publishing"} /\ worker.attempt = MaxAttempts
  /\ worker' = [worker EXCEPT !.at = "reporting"]
  /\ status' = Status("failed", jobs[worker.job].session, worker.job)
  /\ UNCHANGED <<size, hook, jobs, index, queue, daemon, handoff, told, cutOff, mute, used>>

Reported ==
  /\ worker.at = "reporting"
  /\ told' = told \cup {<<"HandoffFailed", worker.job>>}
  /\ worker' = Idle
  /\ UNCHANGED <<size, hook, jobs, index, queue, daemon, status, handoff, cutOff, mute, used>>

\* publish() raises: the worker loop logs it and goes on.
ReportFails ==
  /\ worker.at = "reporting"
  /\ mute' = mute \cup {worker.job}
  /\ worker' = Idle
  /\ UNCHANGED <<size, hook, jobs, index, queue, daemon, status, handoff, told, cutOff, used>>

----------------------------------------------------------------------------
(* Stop, start, crash                                                      *)

\* stop() cancels the worker, which has its job no longer in the queue.
Stop ==
  /\ daemon = "up" /\ Disturbed
  /\ daemon' = "stopped"
  /\ worker' = Idle /\ cutOff' = cutOff \cup InHand
  /\ UNCHANGED <<size, hook, jobs, index, queue, status, handoff, told, mute>>

Crash ==
  /\ daemon # "dead" /\ Disturbed
  /\ daemon' = "dead"
  /\ worker' = Idle /\ cutOff' = cutOff \cup InHand \cup Queued
  /\ index' = {} /\ queue' = <<>>
  /\ UNCHANGED <<size, hook, jobs, status, handoff, told, mute>>

Start ==
  /\ daemon # "up"
  /\ daemon' = "up"
  /\ UNCHANGED <<size, hook, jobs, index, queue, worker, status, handoff, told, cutOff, mute, used>>

WorkerStep ==
  \/ Take \/ Extracted \/ Published \/ PublishedAndRaises \/ AttemptFails \/ Retry
  \/ LastAttemptFails \/ Reported \/ ReportFails

HookStep(s) ==
  \/ Grow(s) \/ Accept(s) \/ Accepted(s) \/ Refused(s)
  \/ \E event \in {"PreCompact", "SessionEnd"} : HookRuns(s, event)

Next == WorkerStep \/ Stop \/ Crash \/ Start \/ \E s \in Session : HookStep(s)

Spec == Init /\ [][Next]_vars

\* The SDK query ends, as do sleeps and publishes; the daemon is started again.
Fairness == WF_vars(WorkerStep) /\ WF_vars(Start)

----------------------------------------------------------------------------
(* What a session that starts is shown (HandoffInjector)                   *)

Injected(s) ==
  CASE status.state = "pending" /\ status.session = s -> "own handoff in flight"
    [] status.state = "pending" /\ status.session # s -> "continuity not ready"
    [] status.state = "failed" /\ handoff # 0 -> "failed, earlier handoff"
    [] status.state = "failed" /\ handoff = 0 -> "failed, nothing"
    [] status.state \in {"ready", "none"} /\ handoff # 0 -> "handoff"
    [] status.state \in {"ready", "none"} /\ handoff = 0 -> "nothing"

----------------------------------------------------------------------------
(* Properties                                                              *)

\* "Accepted implies pending", and not for ever: a pending status the daemon
\* wrote has a job that is still to be worked on, or that a stop or a crash
\* took (jobs are in memory only). The hook's own pending has no such promise.
PendingHasWork ==
  status.state = "pending" /\ status.job # 0 => status.job \in Queued \cup InHand \cup cutOff

\* The agent is told one outcome of a job, although a publish that fails makes
\* the worker summarise again and may in the end count as a failed handoff,
\* unless the publish had stored what it raised for.
OneOutcome ==
  \A j \in Job \ mute : ~ (<<"HandoffReady", j>> \in told /\ <<"HandoffFailed", j>> \in told)

\* The status file and the events tell of the jobs what is so.
JobsAreToldOf == PendingHasWork /\ OneOutcome

\* Every job that is accepted has its HandoffReady or HandoffFailed, unless a
\* stop or a crash took it or the event could not be published.
AcceptedIsTold ==
  \A j \in 1..MaxJobs :
    j \in Job ~> (j \in cutOff \cup mute \/ \E kind \in {"HandoffReady", "HandoffFailed"} : <<kind, j>> \in told)

\* What handoff_status says the status file is for: no session that starts
\* takes a handoff on disk for current while the write of a newer one is still
\* in progress.
NoStaleHandoff ==
  \A s \in Session : Injected(s) = "handoff" => Queued = {} /\ worker.at \notin {"extracting", "sleeping"}
=============================================================================
