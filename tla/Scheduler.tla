----------------------------- MODULE Scheduler -----------------------------
(***************************************************************************)
(* SchedulerEndpoint around APScheduler: the schedules in its SQLite       *)
(* store, the tools that change them (each store operation is awaited, and *)
(* deliver() runs in the task of whoever published, so two tool calls may  *)
(* interleave), the seed jobs, _fire, and the watchdog that turns the      *)
(* silent death of APScheduler's task into a failure of the endpoint.      *)
(***************************************************************************)
EXTENDS Naturals

CONSTANTS
  Job,      \* names of jobs
  Seed,     \* those of Job that jobs.yaml names
  Caller,   \* tool calls that may be under way at once
  MaxDisturbances  \* bound: crashes of any kind and stops taken together

VARIABLES
  store,    \* state of a schedule in the store: "absent", "active", "paused"
  call,     \* the tool calls: [tool, job, at]
  engine,   \* the AsyncScheduler: "none", "running", "crashed"
  active,   \* in _active_endpoints
  stopping, \* _stopping
  watcher,  \* _liveness_task: "none", "polling", "raised", "over"
  acquired, \* schedules that are due, on their way to _fire
  wanted,   \* jobs that were seeded or created and not deleted since
  cutOff,   \* jobs whose update was interrupted between remove and add
  used

schedules == <<store, acquired>>
process == <<engine, active, stopping, watcher>>
vars == <<store, acquired, call, engine, active, stopping, watcher, wanted, cutOff, used>>

NoCall == [tool |-> "none", job |-> "none", at |-> "done"]

Disturbed == used < MaxDisturbances /\ used' = used + 1

Present == {n \in Job : store[n] # "absent"}

Seeded(s) == [n \in Job |-> IF n \in Seed /\ s[n] = "absent" THEN "active" ELSE s[n]]

Init ==
  /\ store = Seeded([n \in Job |-> "absent"]) /\ acquired = {}
  /\ call = [c \in Caller |-> NoCall]
  /\ engine = "running" /\ active = TRUE
  /\ stopping = FALSE /\ watcher = "polling"
  /\ wanted = Seed /\ cutOff = {}
  /\ used = 0

----------------------------------------------------------------------------
(* The tools                                                               *)

\* deliver() of a ToolInvocation, up to the answer of get_schedules: a name
\* that is taken, or not found, is an error.
Look(c, tool, n) ==
  /\ call[c] = NoCall /\ engine # "none"
  /\ (tool = "create") <=> (store[n] = "absent")
  /\ call' = [call EXCEPT ![c] = [tool |-> tool, job |-> n, at |-> "looked"]]
  /\ UNCHANGED <<schedules, process, wanted, cutOff, used>>

\* add_schedule leaves a schedule of the same name as it is, and the caller
\* is told "created" all the same.
Create(c) ==
  /\ engine # "none" /\ call[c].tool = "create" /\ call[c].at = "looked"
  /\ LET n == call[c].job
     IN /\ store' = [store EXCEPT ![n] = IF @ = "absent" THEN "active" ELSE @]
        /\ wanted' = wanted \cup {n} /\ cutOff' = cutOff \ {n}
  /\ call' = [call EXCEPT ![c] = NoCall]
  /\ UNCHANGED <<acquired, process, used>>

Delete(c) ==
  /\ engine # "none" /\ call[c].tool = "delete" /\ call[c].at = "looked"
  /\ store' = [store EXCEPT ![call[c].job] = "absent"]
  /\ wanted' = wanted \ {call[c].job} /\ cutOff' = cutOff \ {call[c].job}
  /\ call' = [call EXCEPT ![c] = NoCall]
  /\ UNCHANGED <<acquired, process, used>>

\* pause_schedule and unpause_schedule: nothing for a schedule that is gone.
SetPaused(c) ==
  /\ engine # "none" /\ call[c].tool \in {"pause", "resume"} /\ call[c].at = "looked"
  /\ store' = [store EXCEPT ![call[c].job] =
       IF @ = "absent" THEN @ ELSE IF call[c].tool = "pause" THEN "paused" ELSE "active"]
  /\ call' = [call EXCEPT ![c] = NoCall]
  /\ UNCHANGED <<acquired, process, wanted, cutOff, used>>

\* Mutant: adds first, which does nothing, and then removes.
UpdateRemovesLast(c) ==
  /\ engine # "none" /\ call[c].tool = "update" /\ call[c].at = "looked"
  /\ store' = [store EXCEPT ![call[c].job] = "absent"]
  /\ call' = [call EXCEPT ![c] = NoCall]
  /\ UNCHANGED <<acquired, process, wanted, cutOff, used>>

UpdateRemoves(c) ==
  /\ engine # "none" /\ call[c].tool = "update" /\ call[c].at = "looked"
  /\ store' = [store EXCEPT ![call[c].job] = "absent"]
  /\ call' = [call EXCEPT ![c].at = "removed"]
  /\ UNCHANGED <<acquired, process, wanted, cutOff, used>>

\* The job comes back under its name, and not paused.
UpdateAdds(c) ==
  /\ engine # "none" /\ call[c].at = "removed"
  /\ store' = [store EXCEPT ![call[c].job] = IF @ = "absent" THEN "active" ELSE @]
  /\ call' = [call EXCEPT ![c] = NoCall]
  /\ UNCHANGED <<acquired, process, wanted, cutOff, used>>

\* A store operation raises, or a stop has taken the scheduler away: an error
\* is the answer.
CallFails(c) ==
  /\ call[c] # NoCall
  /\ IF engine = "none" THEN used' = used ELSE Disturbed
  /\ cutOff' = IF call[c].at = "removed" THEN cutOff \cup {call[c].job} ELSE cutOff
  /\ call' = [call EXCEPT ![c] = NoCall]
  /\ UNCHANGED <<schedules, process, wanted>>

----------------------------------------------------------------------------
(* Firing                                                                  *)

\* APScheduler acquires a schedule that is due.
Due(n) ==
  /\ engine = "running" /\ store[n] = "active"
  /\ acquired' = acquired \cup {n}
  /\ UNCHANGED <<store, call, process, wanted, cutOff, used>>

\* _fire: publishes, or drops the fire when the endpoint is not active; what
\* publish() raises is logged.
Fire(n) ==
  /\ engine = "running" /\ n \in acquired
  /\ acquired' = acquired \ {n}
  /\ UNCHANGED <<store, call, process, wanted, cutOff, used>>

\* A locked database, say: run_until_stopped raises, and nothing else shows.
EngineDies ==
  /\ engine = "running" /\ Disturbed
  /\ engine' = "crashed" /\ acquired' = {}
  /\ UNCHANGED <<store, call, active, stopping, watcher, wanted, cutOff>>

\* Mutant: a scheduler that crashed counts as one that was stopped.
PollQuietly ==
  /\ watcher = "polling" /\ (stopping \/ engine # "running")
  /\ watcher' = "over"
  /\ UNCHANGED <<schedules, call, engine, active, stopping, wanted, cutOff, used>>

\* _watch_scheduler_liveness, when it wakes: it ends quietly during a stop and
\* raises when the scheduler is not running.
Poll ==
  /\ watcher = "polling" /\ (stopping \/ engine # "running")
  /\ watcher' = IF stopping \/ engine = "none" THEN "over" ELSE "raised"
  /\ UNCHANGED <<schedules, call, engine, active, stopping, wanted, cutOff, used>>

----------------------------------------------------------------------------
(* Stop, start                                                             *)

\* stop(), for a supervisor restart or a shutdown: the watchdog is cancelled
\* first; __aexit__ ends the engine and its jobs.
Teardown ==
  /\ stopping' = TRUE /\ watcher' = "none"
  /\ active' = FALSE /\ engine' = "none"
  /\ acquired' = {}

\* The supervisor was told of the failure by the task that raised.
RestartStops ==
  /\ watcher = "raised"
  /\ Teardown
  /\ UNCHANGED <<store, call, wanted, cutOff, used>>

\* Any other reason to restart the endpoint.
Stop ==
  /\ engine # "none" /\ Disturbed
  /\ Teardown
  /\ UNCHANGED <<store, call, wanted, cutOff>>

\* start(): a seed job that was deleted comes back.
Start ==
  /\ engine = "none"
  /\ engine' = "running" /\ active' = TRUE
  /\ watcher' = "polling" /\ stopping' = FALSE
  /\ store' = Seeded(store) /\ wanted' = wanted \cup Seed /\ cutOff' = cutOff \ Seed
  /\ UNCHANGED <<acquired, call, used>>

\* start() raises after the watchdog was spawned (jobs.yaml is malformed): the
\* engine is taken down again; the watchdog stays and finds no scheduler.
StartFails ==
  /\ engine = "none" /\ Disturbed
  /\ watcher' = "polling" /\ stopping' = FALSE
  /\ active' = FALSE
  /\ UNCHANGED <<schedules, call, engine, wanted, cutOff>>

\* The process ends.
Crash ==
  /\ Disturbed
  /\ cutOff' = cutOff \cup {call[c].job : c \in {d \in Caller : call[d].at = "removed"}}
  /\ call' = [c \in Caller |-> NoCall]
  /\ engine' = "none" /\ active' = FALSE /\ stopping' = FALSE /\ watcher' = "none"
  /\ acquired' = {}
  /\ UNCHANGED <<store, wanted>>

ToolStep(c) ==
  \/ \E tool \in {"create", "delete", "pause", "resume", "update"}, n \in Job : Look(c, tool, n)
  \/ Create(c) \/ Delete(c) \/ SetPaused(c) \/ UpdateRemoves(c) \/ UpdateAdds(c) \/ CallFails(c)

Next ==
  \/ \E c \in Caller : ToolStep(c)
  \/ \E n \in Job : Due(n) \/ Fire(n)
  \/ EngineDies \/ Poll \/ RestartStops \/ Stop \/ Start \/ StartFails \/ Crash

Spec == Init /\ [][Next]_vars

\* The watchdog polls, and the supervisor restarts what has failed (Supervisor
\* has the backoff and the quarantine, which takes more failures in a row than
\* the bound allows).
Fairness == WF_vars(Poll) /\ WF_vars(RestartStops) /\ WF_vars(Start)

----------------------------------------------------------------------------
(* Properties                                                              *)

\* A job that was seeded or created and never deleted is in the store, however
\* tool calls interleave, but for the time in which an update has removed and
\* not added it, or for good if the update was cut off there.
WantedIsStored ==
  \A n \in wanted :
    n \in Present \cup cutOff \/ \E c \in Caller : call[c].at = "removed" /\ call[c].job = n

\* A scheduler whose task has died does not stay dead unnoticed: the endpoint
\* is restarted with a scheduler that runs.
DeadIsRestarted == engine = "crashed" ~> engine = "running"
=============================================================================
