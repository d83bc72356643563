----------------------------- MODULE Supervisor -----------------------------
(***************************************************************************)
(* EndpointSupervisor (packages/core/src/agent_core/bus/supervisor.py)     *)
(* with the part of Bus that drives it: Bus.start registers and starts the *)
(* endpoints one after the other, the redelivery loop ticks the            *)
(* supervisor, _restart_endpoint stops, starts and drains one endpoint,    *)
(* _on_supervisor_transition writes the supervisor_state table, and the    *)
(* failure hook of BusHandle.spawn reports a dead background task.         *)
(*                                                                         *)
(* One task at a time boots or ticks (pc, current); background tasks of    *)
(* endpoints may die at any of its awaits.                                 *)
(***************************************************************************)
EXTENDS Naturals

CONSTANTS
  Endpoints,   \* names registered on the bus
  Threshold,   \* SupervisorConfig.restarts_before_quarantine
  MaxBoots,    \* bound: how often the daemon is started
  MaxDeaths,   \* bound: how many background tasks die
  MaxFaults    \* bound: how many writes of supervisor_state fail

ASSUME SupervisorAssumption ==
  /\ Threshold \in Nat \ {0}
  /\ MaxBoots \in Nat /\ MaxDeaths \in Nat /\ MaxFaults \in Nat

VARIABLES
  phase,     \* "down", "booting" or "up"
  status,    \* EndpointState.status, "none" before register()
  breaker,   \* EndpointState.breaker
  failures,  \* EndpointState.consecutive_failures
  timer,     \* EndpointState.next_probe_at: "none", "set" or "due"
  pc,        \* the await the booting or ticking task is at
  current,   \* the endpoint it is at, when it is at one
  todo,      \* the endpoints the boot or the tick still has to visit
  alive,     \* endpoints started, or being started, none of whose tasks died
  degraded,  \* names with a row in supervisor_state: survives the process
  boots, deaths, faults

health == <<status, breaker, failures, timer>>
task   == <<pc, current, todo>>
vars   == <<phase, health, task, alive, degraded, boots, deaths, faults>>

Init ==
  /\ phase = "down"
  /\ status = [ep \in Endpoints |-> "none"]
  /\ breaker = [ep \in Endpoints |-> "closed"]
  /\ failures = [ep \in Endpoints |-> 0]
  /\ timer = [ep \in Endpoints |-> "none"]
  /\ pc = "idle" /\ current = {} /\ todo = {}
  /\ alive = {} /\ degraded = {}
  /\ boots = 0 /\ deaths = 0 /\ faults = 0

Busy(ep, where) == pc = where /\ current = {ep}

MoveTo(where, ep) == pc' = where /\ current' = {ep}
Return == pc' = "visit" /\ current' = {}

\* The four fields of an EndpointState are assigned between two awaits.
Become(ep, s, b, f, t) ==
  /\ status' = [status EXCEPT ![ep] = s]
  /\ breaker' = [breaker EXCEPT ![ep] = b]
  /\ failures' = [failures EXCEPT ![ep] = f]
  /\ timer' = [timer EXCEPT ![ep] = t]

\* A fresh record, and the record after a restart or a probe that succeeded.
Recover(ep) == Become(ep, "active", "closed", 0, "none")

\* Mutants: the threshold passed by one, and met one failure early.
ReachesThresholdLate(ep)  == failures[ep] + 1 > Threshold
ReachesThresholdEarly(ep) == failures[ep] + 2 >= Threshold

\* One more failed restart quarantines the endpoint.
ReachesThreshold(ep) == failures[ep] + 1 >= Threshold

----------------------------------------------------------------------------
(* Bus.start                                                               *)

Boot ==
  /\ phase = "down" /\ boots < MaxBoots
  /\ phase' = "booting" /\ boots' = boots + 1
  /\ pc' = "visit" /\ todo' = Endpoints
  /\ UNCHANGED <<health, current, alive, degraded, deaths, faults>>

\* register() creates the record; the endpoint's start() is awaited.
BootVisit(ep) ==
  /\ phase = "booting" /\ pc = "visit" /\ ep \in todo
  /\ todo' = todo \ {ep}
  /\ Recover(ep)
  /\ alive' = alive \cup {ep}
  /\ MoveTo("starting", ep)
  /\ UNCHANGED <<phase, degraded, boots, deaths, faults>>

BootEnd ==
  /\ phase = "booting" /\ pc = "visit" /\ todo = {}
  /\ phase' = "up" /\ pc' = "idle"
  /\ UNCHANGED <<health, current, todo, alive, degraded, boots, deaths, faults>>

\* drain_for() returned and nothing more is done.
BootSucceeds(ep) ==
  /\ phase = "booting" /\ Busy(ep, "draining")
  /\ Return
  /\ UNCHANGED <<phase, health, todo, alive, degraded, boots, deaths, faults>>

\* quarantine(): start() or drain_for() raised.
Quarantine(ep) ==
  /\ phase = "booting" /\ (Busy(ep, "starting") \/ Busy(ep, "draining"))
  /\ Become(ep, "quarantined", "open", failures[ep], "set")
  /\ MoveTo("recording", ep)
  /\ UNCHANGED <<phase, todo, alive, degraded, boots, deaths, faults>>

----------------------------------------------------------------------------
(* tick()                                                                  *)

TickBegin ==
  /\ phase = "up" /\ pc = "idle"
  /\ pc' = "visit" /\ todo' = Endpoints
  /\ UNCHANGED <<phase, health, current, alive, degraded, boots, deaths, faults>>

\* An endpoint that is not due is passed over.
TickSkip(ep) ==
  /\ phase = "up" /\ pc = "visit" /\ ep \in todo /\ timer[ep] # "due"
  /\ todo' = todo \ {ep}
  /\ UNCHANGED <<phase, health, pc, current, alive, degraded, boots, deaths, faults>>

\* A due endpoint is stopped, its tasks are cancelled, and start(), which
\* spawns new ones, is awaited; a probe first half-opens the breaker.
TickAttempt(ep) ==
  /\ phase = "up" /\ pc = "visit" /\ ep \in todo /\ timer[ep] = "due"
  /\ todo' = todo \ {ep}
  /\ breaker' = [breaker EXCEPT ![ep] = IF status[ep] = "quarantined" THEN "half_open" ELSE @]
  /\ alive' = alive \cup {ep}
  /\ MoveTo("starting", ep)
  /\ UNCHANGED <<phase, status, failures, timer, degraded, boots, deaths, faults>>

TickEnd ==
  /\ phase = "up" /\ pc = "visit" /\ todo = {}
  /\ pc' = "idle"
  /\ UNCHANGED <<phase, health, current, todo, alive, degraded, boots, deaths, faults>>

\* start() returned: the mailbox is being drained.
Started(ep) ==
  /\ Busy(ep, "starting")
  /\ MoveTo("draining", ep)
  /\ UNCHANGED <<phase, health, todo, alive, degraded, boots, deaths, faults>>

\* _restart_endpoint returned, for _attempt_restart and _attempt_probe alike.
AttemptSucceeds(ep) ==
  /\ phase = "up" /\ Busy(ep, "draining")
  /\ Recover(ep)
  /\ MoveTo("clearing", ep)
  /\ UNCHANGED <<phase, todo, alive, degraded, boots, deaths, faults>>

Attempting(ep) == phase = "up" /\ (Busy(ep, "starting") \/ Busy(ep, "draining"))

\* _attempt_restart: a failed restart counts, up to the threshold.
RestartFails(ep) ==
  /\ Attempting(ep) /\ status[ep] = "restarting"
  /\ IF ReachesThreshold(ep)
       THEN /\ Become(ep, "quarantined", "open", failures[ep] + 1, "set")
            /\ MoveTo("recording", ep)
       ELSE /\ Become(ep, "restarting", breaker[ep], failures[ep] + 1, "set")
            /\ Return
  /\ UNCHANGED <<phase, todo, alive, degraded, boots, deaths, faults>>

\* Mutant: a failed probe schedules no other.
ProbeFailsForGood(ep) ==
  /\ Attempting(ep) /\ status[ep] = "quarantined"
  /\ Become(ep, "quarantined", "open", failures[ep], "none")
  /\ Return
  /\ UNCHANGED <<phase, todo, alive, degraded, boots, deaths, faults>>

\* _attempt_probe: a failed probe waits for the next one.
ProbeFails(ep) ==
  /\ Attempting(ep) /\ status[ep] = "quarantined"
  /\ Become(ep, "quarantined", "open", failures[ep], "set")
  /\ Return
  /\ UNCHANGED <<phase, todo, alive, degraded, boots, deaths, faults>>

----------------------------------------------------------------------------
(* Bus._on_supervisor_transition                                           *)

\* Mutant: the table keeps one row.
UpsertReplacingAll(ep) == {ep}

\* INSERT OR REPLACE keyed by name.
Upsert(ep) == degraded \cup {ep}

RecordQuarantine(ep) ==
  /\ Busy(ep, "recording")
  /\ degraded' = Upsert(ep)
  /\ Return
  /\ UNCHANGED <<phase, health, todo, alive, boots, deaths, faults>>

ClearQuarantine(ep) ==
  /\ Busy(ep, "clearing")
  /\ degraded' = degraded \ {ep}
  /\ Return
  /\ UNCHANGED <<phase, health, todo, alive, boots, deaths, faults>>

\* All that the process held in memory is gone.
Vanish ==
  /\ phase' = "down"
  /\ status' = [ep \in Endpoints |-> "none"]
  /\ breaker' = [ep \in Endpoints |-> "closed"]
  /\ failures' = [ep \in Endpoints |-> 0]
  /\ timer' = [ep \in Endpoints |-> "none"]
  /\ pc' = "idle" /\ current' = {} /\ todo' = {} /\ alive' = {}
  /\ UNCHANGED <<degraded, boots, deaths>>

\* The write fails: the rest of the tick is abandoned, a boot fails.
TransitionFails ==
  /\ pc \in {"recording", "clearing"} /\ faults < MaxFaults
  /\ faults' = faults + 1
  /\ IF phase = "booting"
       THEN Vanish
       ELSE /\ pc' = "idle" /\ current' = {} /\ todo' = {}
            /\ UNCHANGED <<phase, health, alive, degraded, boots, deaths>>

----------------------------------------------------------------------------
(* BusHandle._task_done and record_failure(): a background task dies.      *)

TaskDies(ep) ==
  /\ ep \in alive /\ deaths < MaxDeaths
  /\ alive' = alive \ {ep}
  /\ deaths' = deaths + 1
  /\ IF status[ep] = "active"
       THEN Become(ep, "restarting", breaker[ep], failures[ep], "set")
       ELSE UNCHANGED health
  /\ UNCHANGED <<phase, task, degraded, boots, faults>>

\* next_probe_at passes; the process ends, for any reason.
TimerElapses(ep) ==
  /\ timer[ep] = "set"
  /\ timer' = [timer EXCEPT ![ep] = "due"]
  /\ UNCHANGED <<phase, status, breaker, failures, task, alive, degraded,
                 boots, deaths, faults>>

ProcessEnds == phase # "down" /\ Vanish /\ UNCHANGED faults

----------------------------------------------------------------------------
TaskStep ==
  \/ BootEnd \/ TickBegin \/ TickEnd \/ TransitionFails
  \/ \E ep \in Endpoints :
       \/ BootVisit(ep) \/ BootSucceeds(ep) \/ Quarantine(ep)
       \/ TickSkip(ep) \/ TickAttempt(ep) \/ Started(ep)
       \/ AttemptSucceeds(ep) \/ RestartFails(ep) \/ ProbeFails(ep)
       \/ RecordQuarantine(ep) \/ ClearQuarantine(ep)

Next ==
  \/ Boot \/ TaskStep \/ ProcessEnds
  \/ \E ep \in Endpoints : TaskDies(ep) \/ TimerElapses(ep)

Spec == Init /\ [][Next]_vars

\* The redelivery loop keeps ticking, its awaits return, and time passes.
Fairness == WF_vars(TaskStep) /\ \A ep \in Endpoints : WF_vars(TimerElapses(ep))

FairSpec == Spec /\ Fairness

----------------------------------------------------------------------------
(* Properties.                                                             *)

TypeOK ==
  /\ phase \in {"down", "booting", "up"}
  /\ status \in [Endpoints -> {"none", "active", "restarting", "quarantined"}]
  /\ breaker \in [Endpoints -> {"closed", "open", "half_open"}]
  /\ failures \in [Endpoints -> Nat]
  /\ timer \in [Endpoints -> {"none", "set", "due"}]
  /\ pc \in {"idle", "visit", "starting", "draining", "recording", "clearing"}
  /\ current \in SUBSET Endpoints
  /\ todo \in SUBSET Endpoints
  /\ alive \in SUBSET Endpoints
  /\ degraded \in SUBSET Endpoints
  /\ boots \in Nat /\ deaths \in Nat /\ faults \in Nat

\* The four fields of a record agree at every await, although a dying task
\* may change them while a restart or a write is in progress: exactly the
\* endpoints that are not active have a retry scheduled, the breaker is
\* closed unless the endpoint is quarantined, it is half open exactly while
\* a probe is running, and restarts stop counting at the threshold.
HealthCoherent ==
  \A ep \in Endpoints :
    /\ timer[ep] = "none" <=> status[ep] \in {"none", "active"}
    /\ breaker[ep] = "closed" <=> status[ep] # "quarantined"
    /\ breaker[ep] = "half_open" <=> Attempting(ep) /\ status[ep] = "quarantined"
    /\ status[ep] = "active" => failures[ep] = 0
    /\ status[ep] = "restarting" => failures[ep] < Threshold

\* `bus status` shows every quarantined endpoint, unless the write that
\* records the quarantine is still running or failed.
QuarantineRecorded ==
  \A ep \in Endpoints :
    status[ep] = "quarantined" => ep \in degraded \/ Busy(ep, "recording") \/ faults > 0

\* The breaker goes round: it closes only from half open, after a probe
\* that succeeded, and it opens only at boot or when a failed restart has
\* reached the threshold.
BreakerCycle ==
  [][\A ep \in Endpoints : phase' # "down" =>
       /\ breaker[ep] = "open" => breaker'[ep] # "closed"
       /\ (breaker[ep] = "closed" /\ breaker'[ep] # "closed") =>
            /\ breaker'[ep] = "open"
            /\ phase = "up" => failures'[ep] >= Threshold]_vars

\* While the daemon is up, an endpoint that failed is attempted again, and
\* again, whatever the other endpoints do.
FailedIsRetried ==
  \A ep \in Endpoints :
    (phase = "up" /\ status[ep] \in {"restarting", "quarantined"})
      ~> (Attempting(ep) \/ phase = "down")

----------------------------------------------------------------------------
(* What docstrings claim and the code does not do.                         *)

\* list_supervisor_degraded: "Only quarantined (degraded) endpoints have
\* rows."  Looked at between two ticks, without any failed write.
OnlyQuarantinedDegraded ==
  phase = "up" /\ pc = "idle" => \A ep \in degraded : status[ep] # "active"

\* record_failure: a failure during a restart is not rescheduled because
\* "the supervisor is already handling the restart sequence".  Between two
\* ticks no endpoint with a dead background task counts as active.
DeadIsHandled ==
  phase = "up" /\ pc = "idle" =>
    \A ep \in Endpoints : status[ep] = "active" => ep \in alive

=============================================================================
