# agent_core: TLA+ models and proofs

agent_core is a daemon that routes *envelopes* between named *endpoints* (a
Claude Code session, a scheduler, Discord, a voice, ...). Its heart is an
in-process asyncio bus over a SQLite mailbox, with a supervisor that restarts
failing endpoints; around it are the endpoints themselves, the relay that wakes
an agent, and the commands that install, start and repair the daemon. This
directory holds TLA+ modules translated from that code, the TLC configurations
that check them on small instances, and TLAPS proofs of the properties that
matter most for every value of the constants.

Source paths below are relative to `src/packages/core/src/agent_core/` unless
they start with another package's name (then to `src/packages/`).

| File | What it is |
|---|---|
| `Bus.tla`, `Mailbox.tla` | the mailbox store and the bus; the abstract promise about one envelope, which the bus refines |
| `Supervisor.tla` | the endpoint supervisor and its table, across process restarts |
| `DaemonProcess.tla` | the process: boot, loops, watchdog, signals, what starts it again |
| `AgentMailbox.tla`, `Outbounds.tla`, `WakeTimer.tla`, `AgentSessions.tla`, `Channel.tla` | an agent's endpoint: queue and wakes, missing-ack timers, debounce, sessions; the relay's rendering |
| `Handoffs.tla`, `Scheduler.tla`, `Voice.tla`, `Webcam.tla`, `Presence.tla` | endpoints and processes with workers, tasks and threads of their own |
| `Briefs.tla`, `Inbound.tla`, `DiscordOutbound.tla`, `DiscordInbound.tla`, `Chunking.tla` | endpoints between the bus and the outside |
| `Assembly.tla`, `Backups.tla`, `DaemonHome.tla`, `Venvs.tla`, `Hatch.tla`, `Vault.tla`, `MemoryLog.tla` | configuration, files and commands on disk |
| `AgentSide.tla`, `Services.tla`, `Outside.tla`, `OnDisk.tla` | the modules of the last four rows put side by side (all but `AgentMailbox` and `Briefs`, which stand on their own), so that one module states what is claimed of them |
| `MCBus`, `MCSupervisor`, `MCAgent`, `MCServices`, `MCEdges` and `*.cfg` | instances for TLC |
| `BusProofs`, `SupervisorProofs`, `AgentProofs`, `ServicesProofs`, `BriefsProofs`, `OutsideProofs`, `OnDiskProofs` | theorems and their proofs, for every module but `Webcam` |
| `CommonLemmas.tla` | lemmas those proofs share: smallest elements, recursive functions, sequences that remember the last things met |

## 1. Inventory

### Components, their state and operations

"Yes" means that every operation of the component that changes state is an
action of the module; what a "partly" leaves out is in section 5.

| Component | State | Operations | Module |
|---|---|---|---|
| Mailbox store `bus/persistence.py` | tables `envelopes`, `supervisor_state` (durable) | insert, mark_*, requeue*, expire, purge_dlq, reset_for_replay, upsert/clear_supervisor_state, lists | `Bus`, `Supervisor`: yes |
| Bus `bus/core.py`, `handle.py` | endpoints by name, hooks, background tasks | publish, dispatch, drain, redelivery and TTL sweeps, ack, nack, start, stop, restart one endpoint | `Bus`: yes |
| Endpoint supervisor `bus/supervisor.py` | per endpoint: status, breaker, failures, next_probe_at | register, record_failure, quarantine, tick | `Supervisor`: yes |
| Daemon process `bus/cli.py`, `watchdog.py`, `http_host.py` | stop event, loop tasks, heartbeat, serve task | boot, three loops, watchdog, shutdown; replay, dlq purge | `DaemonProcess`, `Bus`: partly |
| Agent mailbox `endpoints/claude_code_mcp/` | pickup queue, sessions, recent outbounds with timers, debounce task | deliver, list/consume/handle/ack/nack/reply/send, session claim, wake | `AgentMailbox`, `Outbounds`, `WakeTimer`, `AgentSessions`: partly |
| Notify broker, `/notify` `bus/notify_broker.py` | bounded queue per subscriber | subscribe, publish (drops when full), snapshot | `AgentMailbox`: yes |
| Channel sidecar `agent-core-channel` | configuration layers, redelivery tracker, circuit breaker | wake, list, render, mark, stop | `Channel`, `AgentMailbox`: yes |
| Handoff jobs, session hooks `endpoints/handoff_jobs.py`, `hooks/` | queue, idempotency index, status and handoff files | accept, run with retries, publish result, stop; write and read status | `Handoffs`: yes |
| Scheduler `endpoints/scheduler.py` | schedules in APScheduler's store, engine, liveness task | create, update, delete, pause, resume, seed, fire, watch, stop | `Scheduler`: yes |
| Briefs `agent-core-briefs` | sessions with TTL and one-shot token, requests in hand | request, build, publish and rewind, submit, sweep, stop | `Briefs`: yes |
| Inbound webhooks `agent-core-inbound` | dedupe window, token bucket, allowance file and its cache | receive, reload, start, stop | `Inbound`: yes |
| Discord `agent-core-discord` | posts in progress, reactions, typing loops | deliver, retry, note, on_message, expiry, split a text | `DiscordOutbound`, `DiscordInbound`, `Chunking`: partly |
| Voice `agent-core-voice` | tasks | deliver, synthesise, write, answer | `Voice`: partly |
| Webcam `agent-core-webcam` | lock per camera, thread pool | capture, list | `Webcam`: yes |
| Webcam presence `agent-core-webcam/presence` | capture handle, counters, marker file | cycle, degrade, restore, reopen; respawn | `Presence`: yes |
| Backups `bus/backup.py` | snapshot files | snapshot, retention | `Backups`: yes |
| Configuration and assembly `bus/runner.py`, `config.py` | fragments, endpoint configurations | merge, validate, construct, register, wire | `Assembly`: partly |
| Daemon management `daemon/`, `venv/builder.py` | pid file, cached wheels, environments, stable link | start, stop, status, install, refresh, doctor, the Windows service; build, collect | `DaemonHome`, `Venvs`: partly |
| Hatchery `agent-core-hatchery` | vault, fragments, environment, .mcp.json | hatch, top up, roll back, reload, probe | `Hatch`: yes |
| Credential vault `credentials` | database, keyring, key file, .env | find and migrate the password, set, delete, get | `Vault`: yes |
| Memory compiler `src/memory-compiler` | context files, daily log, state.json | hook, flush, compile | `MemoryLog`: partly |
| Busproxy, bus log and tail, MCP audit, QA client, notify server, email, vendored speech model | | | none: see section 5 |

### How they interact

An endpoint publishes through its `BusHandle`. `Bus._enqueue` runs the
pre_publish hooks, checks every recipient, then inserts one row per recipient
and *dispatches it in the publisher's own task*: pre_deliver hooks,
`mark_in_flight`, `await endpoint.deliver()`. The endpoint acks or nacks from
within `deliver()` or any time later. Two loops run beside the publishers: the
redelivery loop (requeue rows in flight whose deadline lapsed, even while their
`deliver()` runs; dispatch due rows; let the supervisor tick, which may restart
an endpoint and drain its mailbox) and the TTL loop; a third takes backups. A
watchdog thread ends the process when the TTL and redelivery loops no longer
beat, and systemd or launchd, where it is installed there, starts it again. The operator's `bus replay` and
`bus dlq purge` open the same database from a process of their own. A background
task of an endpoint (only voice, Discord and inbound spawn any) that dies is
reported to the supervisor through a callback.

An agent's endpoint keeps what `deliver()` gives it and, after a debounce,
pushes to the agent's sessions and publishes one event to the broker. The
relay of the session, an SSE client in another process, reads the event, asks for
the mailbox's content and shows it, or suppresses the wake when there is none.
Every other endpoint turns envelopes into work in its own way: a worker with a
queue (handoffs), a spawned task (voice), posts (Discord), a compose session
(briefs). The hooks, the hatchery, the memory compiler, the vault and the
management commands meet the daemon on disk only.

### What is hard, and what makes each part correct

* **Interleavings.** Nothing in the bus takes a lock. Every await is a point
  where another task may run, so one envelope can be in the hands of its
  publisher, of the sweep or a drain, of the TTL sweep and of the endpoint at
  once, and the `UPDATE`s do not look at the state they overwrite. Tool calls of
  the scheduler, the briefs and the agent's mailbox interleave the same way;
  operators' commands do so between processes.
* **Stale reads.** Lists are worked through after they were read; the attempt
  count that decides between retry and dead letter is one await old; a doctor's
  report is older than its deletions.
* **Crashes and partial failures.** Rows, status files, markers, logs and links
  survive, tasks and what endpoints hold in memory do not; a hook, a store
  operation, a publish or a file may fail in the middle of a sequence.
* **Timeouts that race an answer.** Discord posts, camera threads, synthesis,
  missing acknowledgments, rows in flight.
* **Liveness.** Retries, probes, sweeps, boots, wakes and reopenings must all
  end or recur.

Correct means: an accepted envelope stays within reach and is settled at last;
deliveries are bounded in number and overlap; nobody without custody changes a
settled envelope; a supervisor's record agrees with itself and failed endpoints
are attempted again; the daemon runs in the end. Mail in an agent's queue is
announced and none is settled unseen; a job, a request, a brief, a webhook, a
post is told of or done once; a schedule that is wanted is stored; what is on
disk (link, log, snapshot, vault, password, pid file) stays whole through
commands that are cut off. `PROJECT.json` lists the hazards line by line.

## 2. How the models correspond to the code

### Conventions of all modules

* An asyncio process is a set of tasks; the code between two awaits is one step,
  and a task's place is a value such as "acking" or "publishing". Processes that
  share files interleave at every file or process operation.
* Where the code names a function or a field, the model uses the name, and
  `PROJECT.json` ("map") gives the lines of every definition.
* Environment steps (crashes, stops, failing calls, lost answers) are counted in
  `used` against one named bound (`MaxDisturbances`, `MaxMishaps`, `MaxCuts`,
  `Limit`). In the proofs the bound is any number, or not assumed at all.
* Monitors are variables no guard reads; they say what a property excuses
  (`odd`, `lost`, `cutOff`, `again`, `doubled`, `muted`, `stale`, `stray`, `crossed`,
  `orphaned`, ...), so
  that an exception is stated, not assumed away.
* A definition marked "Mutant" is a plausible bug in the definition it precedes;
  with it in place the run named in `PROJECT.json` finds the property violated.
* An endpoint's `publish()` either stores or raises, but in `Handoffs` and
  `Voice`, where the answer is what the properties are about: there it may also
  raise after it has stored (a hook or the store failing inside of the dispatch,
  which `Bus` has as `Raise` and run `bus_fanout` shows).

### Bus.tla

`pc[t]` names the await task `t` is at; what it read before is in `plan` (the
list it works through), `todo` (recipients still to check, endpoints still to
visit) and `attempt` (the delivery count it read). Tasks are the publishers and
three roles: `sweep` (the redelivery loop), `drain` (the boot, or a supervisor
restart inside the same loop: `SweepBegin` waits for it) and `ttl`.

| Model | Code |
|---|---|
| `Publish`, `CheckRecipient`, `InsertRow` | `_enqueue`: one step per recipient checked, one per row inserted |
| `Dispatch` (`DispatchMark` ... `Settle`) | `_dispatch`, for any task |
| `SweepBegin`, `StaleRead`, `StaleSettle`, `SweepVisit`, `SweepEnd` | `run_redelivery_sweep_once`, parts 1 and 2; `_redelivery_loop` |
| `Boot`, `StartEndpoint`, `DrainEnd` | `Bus.start`, `_restart_endpoint`, `drain_for` |
| `TtlBegin`, `TtlExpire` | `run_ttl_sweep_once` |
| `Receive`, `Ack`, `Nack` | what an endpoint does with an envelope during `deliver()` and later; `_ack`, `_nack` |
| `Raise` | an exception from a hook or the store, and whoever catches it |
| `ResetForReplay`, `PurgeDlq` | the operator's commands |
| `Crash`, `Shutdown`, `Close` | end of the process; SIGTERM, then `Bus.stop` |
| `DeadlineLapses`, `BackoffElapses`, `ExpiryPasses` | wall-clock time |

* Time is kept per row: a deadline has lapsed or not, a backoff is due or not,
  an expiry is past or not. Lengths of backoffs are not modelled.
* Envelopes are numbered in the order of `created_at`; recipients of one publish
  are checked in any order.
* A publisher may be busy in any phase but `"down"`; that contains the nested
  publish from within `deliver()` and publishing during a boot.
* SIGTERM during the boot is a crash (the handlers are installed after it). A
  supervisor restart cancels the endpoint's spawned tasks (`gone`) and may empty
  its memory (`lost`).
* A list that cannot be read (`find_*`, `list_pending` raising at the start of
  a turn) is a turn without effect and has no action.
* Endpoints are seen from the bus: during `deliver()` one may keep the envelope
  (`Receive`: `queue_for_pickup` and its like), and `deliver()` then returns, raises
  `EndpointUnavailable`, raises something else or is cancelled. What it kept it
  may ack or nack at any time, more than once, and, because an agent is a process
  of its own, after the daemon has restarted: the tools take any envelope id.
* `Endpoints` is a constant: every boot registers the same names. Mail for an
  endpoint that is taken out of the configuration is outside of the model (the
  code never lists it again).
* A sweep compares with the time at its start; the model lets a backoff that
  elapses later in the same sweep count, which adds behaviours and removes none.

`Mailbox` is the abstract specification of an envelope: a status, an attempt
counter and who has *custody* (a task that has it in its list, or an endpoint
that received it). Custody begins only on an owed envelope; without custody, a
settled envelope changes by the operator's hand alone; attempts grow one at a
time. `Bus!MailboxSpec` is this specification under the mapping `Status`,
`Attempts`, `Custody`. It says exactly how far at-least-once goes in this code:
an acked envelope *may* come back, but only through a task that held it before.
`AgentMailbox` and `DiscordOutbound` take the bus at this promise.

### Supervisor.tla and DaemonProcess.tla

In `Supervisor` one task boots or ticks (`pc`, `current`, `todo`); background
tasks die at any of its awaits. `TickAttempt` is the part of a restart or probe up to the
await of `start()`, `Started` its return, then the drain, then
`AttemptSucceeds`, `RestartFails` or `ProbeFails`; `RecordQuarantine` and
`ClearQuarantine` are the transition callback's write, which may fail
(`TransitionFails`: the rest of the tick is lost, a boot fails). `degraded` is the
table, the only thing that survives `ProcessEnds`.

`DaemonProcess` is `_run_bus`: HTTP server, `Bus.start` with a backlog to drain,
the watchdog, three loops that sleep, run and beat (the backup does not), signals
before and after their handlers are there, a serve task that dies, calls that
hang and a blocked event loop. Time goes in ticks: a loop that is due runs
before the next one. `host` is what the process was installed with: systemd and
launchd start again what ended, the Windows service, the logon task and the
operator do not.

### The agent's endpoint and its relay

| Module | State and actions | Code |
|---|---|---|
| `AgentMailbox` | `pending`, `call` (tools in progress with what they still have to ack), `wake`, `relay`, `inbox`; `Deliver`, `Consume`, `Settle`, `CallFails`, `Reply`, `DebounceElapses`, `PushFails`, `ReadEvent`, `Look`, ... | `_endpoint.py`, `_tools.py`, `notify_broker.py`, `sse_client.py` |
| `Outbounds` | `tracked`, `timers`, `stale`; `Send`, `PublishRaises`, `RoutineAckArrives`, `TimerFires`, eviction (`Kept`), the two halves of `stop()` | `_recent_outbound_ids`, `_missing_ack_tasks` |
| `WakeTimer` | one timer for arrivals of three urgencies | `_notify_mail_arrived` |
| `AgentSessions` | `claimed`, claim tasks, `sessions`, those taken off while claimed (`muted`); a stream that closes before its task ran, a failed push, stop | `_session.py` |
| `Channel` | layers of configuration, breaker, snapshot, `tracker` (an LRU with counts), what was shown | `stdio_server.py`, `rendering.py`, `config.py` |

An envelope's rendering is its size and which block shows it. A wake says "go
and look" and nothing else: announcing mail and showing it are different steps.

### Endpoints with workers, tasks and threads

| Module | State and actions | Abstractions |
|---|---|---|
| `Handoffs` | hooks of several sessions, `jobs`, `index`, `queue`, `worker`, the status file, `told`; one action per await of `_process_job` | text is the job it came from; file writes succeed; branches for a header only `handoff_bg` writes (which nothing starts) are left out |
| `Scheduler` | `store`, tool calls between their look and their operation, `engine`, the liveness task, teardown and start | when a trigger is due is APScheduler's: any time |
| `Voice` | `mail`; how many `deliver()` calls and tasks a request has at each stage, since the bus may deliver it twice; `answers`; options that raise in the task | audio, retention; a timed-out thread is not waited for |
| `Webcam` | callers, the line at each camera's lock, functions queued in or running on the pool, `orphans` of timed-out captures | pictures |
| `Presence` | camera, capture handle ("good", "stale", "none"), counters, resolution, marker file | recognition; heartbeat and the supervisor's record, which no step depends on |

### Endpoints between the bus and the outside

| Module | State and actions | Abstractions |
|---|---|---|
| `Briefs` | requests by stage, sessions, submissions with the destinations left; TTL, rewind after a failed publish, enrichment that raises after the token is consumed | a token is its request; playbooks and contents |
| `Inbound` | clock, allowance file and its cached rules, `seen` and `stamps` as sequences, `log` of what was handed on | `receive()` does not await and is one step; signatures, projections |
| `DiscordOutbound` | the row on the bus, deliveries in order and where each is, `posted`, notes | what a post says; a post whose answer is lost may have been made |
| `DiscordInbound` | `on_message` by await, reactions shown, tracked and being removed, typing loops | attachments, handlers that only publish |
| `Chunking` | `smart_chunk_discord` cut by cut: the scanner's states, soft boundaries, shrinking for fences, validation | six kinds of glyph; counters (i/n), added only where they fit |

### On disk

| Module | State and actions | Abstractions |
|---|---|---|
| `Assembly` | fragments merged one by one, unreadable ones among them, validation, construction, registration, wiring of tools | an entry is what its checks answer |
| `Backups` | a clock that can be set back, snapshots by name, retention | an hour is two instants, a day two hours |
| `DaemonHome` | pid file, processes and reused pids, `.venv`, cached wheels, two operators' commands step by step with whether their look at the pid file still holds (`stale`), the Windows service's daemon (`headless`) | one release |
| `Venvs` | environments by version, the link, a build and a doctor side by side, both cut off anywhere, removals that get half way, rename or (Windows) unlink first | what is installed: "empty", "bare", "whole" |
| `Hatch` | paths in the order they are written, what a hatch tracks and takes back, a being that grows, an operator that moves files | templates |
| `Vault` | database, keyring that comes and goes, key and data files, `.env`, two processes step by step, each check apart from the write it is for | ciphers: what key a file was encrypted with |
| `MemoryLog` | context files, flushes and compilations as processes, the log's header and entries, those that are errors (`failed`), compilations that end without knowledge, the ingested hash | what an entry says |

## 3. What is checked

### The runs

The agent, the services and the edges consist of parts that share no variable.
Each of `MCAgent`, `MCServices` and `MCEdges` holds several of them and lets one
behaviour be one of a single part (`part`; the constant `Parts` in the cfg says
which). The parts come from `AgentSide`, `Services`, `Outside` and `OnDisk`, which
the proofs extend as well: what is checked and what is proved is one definition. So one run explores each part completely and on its own: the states of
the parts add up and are not multiplied, and the properties of a part that does
not move hold or fail in its initial states. A temporal property of a part is
asked of its own behaviours (`part = "voice" => ...`).

| Run | Distinct states | Shows |
|---|---|---|
| `bus_safety` | 978,223 | `NothingStranded`, `DeliveriesBounded` (attempts and overlap), refinement of `Mailbox` |
| `bus_liveness` | 168,959 | `EventuallySettled`, `BootCompletes` |
| `agent` | 657,456 | mailbox: `NothingUnannounced`, `SettledIsSeen`, `QueuedIsNoticed`; `NoFalseAlarm` (`Outbounds`), `OnTime` (`WakeTimer`), `ClaimIsHeld` (`AgentSessions`), `ResendIsMarked` (`Channel`) |
| `services` | 210,677 | supervisor: `HealthCoherent`, `QuarantineRecorded`, `BreakerCycle`, `FailedIsRetried`; `JobsAreToldOf`, `AcceptedIsTold` (`Handoffs`); `WantedIsStored`, `DeadIsRestarted` (`Scheduler`); `OneAnswer`, `RequestIsAnswered` (`Voice`); `MarkerIsKept`, `CameraComesBack` (`Presence`); `SparedWhileRunning`, `RunsInTheEnd` (`DaemonProcess`); `AnswersCome` (`Webcam`) |
| `edges` | 4,560,845 | `DeliveredOnce`, `TokensAreRight` (`Briefs`); `AdmittedRightly` (`Inbound`); `PostsAreRight`, `NoEyesLeft`, `NothingLost` (Discord); `OneDaemon`, `LinkIsWhole`, `NothingIsForgotten`, `LastOfDayIsKept`, `MistakesAreContained`, `GrowthIsKept`, `NothingIsLost` (on disk) |
| `bus_attempts`, `bus_fanout`, `supervisor_table`, `supervisor_death`, `agent_timeout`, `handoff_stale`, `doctor_corpse` | the smallest instance that shows it | the code departs from what a doc or comment says, see below |

Every property is stated in words above its definition, and each one is also
falsified by a plausible bug in the code: a dropped condition of a query, an
off-by-one at a threshold, an ack and a spawn that change places, a task that
forgets what it registered. `PROJECT.json` ("mutants") pairs them.

### Bounds, and why they are enough to be interesting

* **Bus.** One envelope is enough for every race, since all of them are about
  several tasks on one row, and one publisher plus three loops are all the kinds
  of tasks there are. The second envelope makes lists, failing fan-outs and a
  full mailbox happen (`MaxPending` is 1). With a cap of 2 attempts both outcomes
  of `Exhausted` occur. One of each fault (crash, restart, failing operation,
  requeueing nack, replay) meets every state of the others; several of a kind
  are covered by the proofs. The liveness instance has a second endpoint, one
  mailbox being blocked by a hook that always raises.
* **Supervisor.** Two endpoints make one tick's failure matter to the other, a
  threshold of 2 separates a restart that counts from one that quarantines, two
  boots let the table outlive a process.
* **Agent.** A red and a green envelope, a broker queue of one event (every
  second one is dropped), one tool call at a time, one disturbance of any kind.
  Several calls at once are covered by the theorem `NoSilentLoss`. The registry
  of outbounds holds one of three, so eviction meets acks, failures and timers;
  that the registry stays watched and bounded is proved (`RegistryIsWatched`).
  The relay's tracker remembers two of three envelopes, and the renderings of one
  of them fail.
* **Services.** Two jobs of one session with two attempts; two schedules, one
  seeded, and two tool calls; three requests, one malformed and one with
  options that raise, and two disturbances, so that a second delivery meets a
  crash or a failing publish (a request without a voice takes the way of one whose
  synthesis fails, and is left to the theorem); a backlog
  that takes longer to drain than the watchdog waits, with two mishaps, on a
  host that restarts and on one that does not; one thread for two callers and two cameras.
* **Edges.** Two requests, submissions and destinations; three events on a window
  of two and a bucket of two; two envelopes of two parts, one not acceptable; three
  messages of which two may be tracked; all texts of up to six glyphs cut at
  three; two operators, two pids and a Windows service; three versions, so that the doctor's keep
  rule meets an upgrade and a rollback; three hook firings of one session;
  eight instants, which are two days; seven entries and all sequences of up to two
  of nine fragments; three hatches; two processes at the vault. One mishap each.

Deadlock is not checked in `services` and `edges`, whose instances stop when
their bounds are used up (a clock at its last instant, no boots left), nor in the
small runs made for one departure that end the same way; in `bus_safety`,
`bus_liveness` and `agent` it is.

### Fairness

Nothing but what the scheduling gives: asyncio runs whatever is ready, SQLite
statements and sleeps end, a supervisor, or a service manager that is installed
to, starts again what ended. No fairness is given to anyone who publishes, calls a tool, acks or
operates, nor to crashes and failures.

| Part | Fair | Why |
|---|---|---|
| Bus | each task's step; deadlines, backoffs, boots | the endpoint protocol says that `deliver()` returns promptly; time passes |
| Supervisor | the task, each timer | the redelivery loop ticks |
| Agent's mailbox | `List`, `Deliver`, the debounce, calls under way, the relay, `Start` | the bus's sweeps; the relay reconnects with a bounded backoff; a push that hangs need not end |
| Handoffs | the worker, `Start` | the SDK query ends or raises |
| Scheduler | the poll, the supervisor's restart, `Start` | `Supervisor!FailedIsRetried` |
| Voice | each request's steps, `Start` | synthesis has a timeout |
| Presence | the watcher, `Spawn` | its supervisor starts it after a pause |
| Process | the main task, ticks, the watchdog, each loop; the restart where `host` is systemd or launchd | `Restart=always` and `KeepAlive`; the Windows service's SvcDoRun reports SERVICE_STOPPED, which is no failure to Windows, so nothing is assumed of it, nor of the logon task. A loop that hangs, a call that never returns and a blocked loop are states of their own in which the step is not enabled |
| Webcam | calls, threads that end unless the camera hangs; strong fairness that a queued function gets a thread | the pool's queue is first in, first out: a thread that is free again and again comes round |

`EventuallySettled` leaves out envelopes that share a mailbox with one on which a
hook raises every time: an exception ends the list of that endpoint at
`core.py:525`, so the code really keeps them waiting behind it. `FailedIsRetried`
speaks of the time the daemon is up. `RunsInTheEnd` asks nothing of a host that
does not restart but that the daemon runs or is off, and leaves out an event loop
blocked while the watchdog is not on duty. `RequestIsAnswered` leaves out a request
whose options raise in its task, which nobody answers. `CameraComesBack` speaks of a camera
that stays.

### Where the code departs from its documentation

1. `bus_attempts`: `max_delivery_attempts` is documented as the maximum number of
   attempts (`docs/reference/bus-config.md:20`); a publisher and a loop that
   dispatch the same pending row exceed it by one. `DeliveriesBounded` says by how
   much in general: by one, plus one per `nack(requeue=True)`.
2. `bus_fanout`: fan-out is called atomic (`bus/core.py:366`); validation is,
   inserting is not.
3. `supervisor_table`: "only quarantined endpoints have rows"
   (`bus/persistence.py:359`); a row survives a reboot that starts the endpoint.
4. `supervisor_death`: a failure during a restart is said to be handled already
   (`bus/supervisor.py:112-114`); the restart then marks the endpoint active.
5. `agent_timeout`: the agent is told it will see missing-ack timeouts
   (`_endpoint.py:139-141`); such a timeout wakes the relay, which finds no
   envelope and suppresses the wake.
6. `handoff_stale`: the status file is said to keep a stale handoff from being
   taken as current (`hooks/handoff_status.py:3-5`); two jobs share it, and the
   first one's ready replaces the second one's pending.
7. `doctor_corpse`: the detector of dead environments is said never to return a
   live one (`daemon/venv_gc.py:259-262`); `install` makes `.venv` a plain
   directory, which is what it looks for.

Also met while modelling, without a run of their own:

* **Bus.** Dispatch does not look at `expires_at`, so an envelope may be delivered
  after it until the TTL sweep runs (`docs/concepts/bus.md` says never). A dead
  letter in some task's list can be delivered after all. `bus replay` announces
  redelivery at the next startup, but the running sweep picks it up within
  seconds; it keeps `expires_at`, so an expired dead letter expires again.
  `nack(requeue=True)` is unlimited. The sweep goes on dispatching to quarantined
  endpoints. `deliver_failures_before_breaker` and `acked_retention_days` are read
  by nothing, and nothing calls `record_success`.
* **Process.** A boot or a shutdown that takes longer than the watchdog waits is
  ended, since nothing beats during it (a boot drain still makes progress). A
  redelivery loop that hangs is not noticed, since the TTL loop beats. A serve task
  that ends by itself goes unnoticed and makes the later stop raise. The Windows
  service reports itself stopped when its child ends
  (`daemon/windows_service.py:116-117`), so it is not started again, although its
  description and its class say so (24-25, 69-74). Nothing compares
  `watchdog_timeout_seconds` with the sweeps' intervals. `bus restore` does not look whether the
  daemon runs.
* **Agent.** A session that a failed push or `stop()` took off the registry keeps
  its claim (`_session.py:59-64`), so nothing it sends registers it again until its
  stream closes: it is no longer pushed to. A relay forgets its marks when it restarts; an audit line that
  cannot be written ends it; a bare wake after too many envelopes hides failures;
  a preview drops the notes of a batch and of a fallback.
* **Handoffs, scheduler, voice.** A SessionEnd repeated with an unchanged
  transcript leaves its own pending for good. An update un-pauses a paused job,
  and loses it if cut off between remove and add; a deleted seed job comes back
  at start. A publish that raises after it stored leads to both outcomes of a
  job, and to a Failed after a Ready. Options that `int()` or `Spec` rejects raise
  outside of any try (voice `endpoint.py:509-515`) once the request is acked: the
  task dies and no Failed goes out, although the module says that one or a
  Ready is published (4-8; also 583-587). Two deliveries of one request give two answers.
* **Briefs, inbound, Discord.** A request is acked before anything is gathered;
  an odd colour in a section raises after the token is consumed. `stop()`
  unregisters before the client is closed. A lost answer may double a post, and so
  may a send slower than the bus's patience. `cleanup_tick` of the voice and the
  sweep of recent inbounds of Discord are called by nothing. In a text, the ticks
  that close a block are counted as the start of inline code as well.
* **Webcam, presence.** Listing cameras has no timeout, opens devices without the
  lock, and hung threads fill the pool that everything shares. Two captures of one
  millisecond share a file. `_try_reopen` logs that it continues with the existing
  handle, which it has dropped.
* **Assembly.** A skipped entry that has a registered endpoint's name replaces its
  configuration, although `runner.py:252-255` says such entries must be excluded.
  A fragment that cannot be read or decoded (only YAMLError is caught,
  `runner.py:72`) or is no mapping, and a malformed entry, end the boot, although
  other mistakes are passed over; so does an agent that names a skipped endpoint.
* **Hatchery.** The vault root and Memory directory are untracked, so a failed
  hatch cannot be repeated; the endpoints fragment stays when the jobs fragment is
  refused; a top-up writes no fragments and does not probe, other than its design
  says (`docs/superpowers/specs/2026-05-09-issue-75-agent-core-hatchery-design.md:112`).
* **Daemon management.** Two starts that both saw no pid file spawn two daemons and
  record one; a stop that forgets on a stale look loses the daemon a start has
  recorded since. The Windows service's daemon has no pid file: `stop` does not
  find it and `start` spawns a second. A wheel
  cut off in download is kept as cached, and `stop` ignores who survives it. The
  doctor keeps a newer directory without python and removes an older whole one.
* **Vault, memory, backups.** Two processes that migrate the password at once may
  lose it; an init cut off between `create_database` and `set_master_password`
  (credentials `cli.py:60-62`) leaves a vault nobody can open, and what was stored in
  the file is not looked for once the keyring is back; with the keyring away, "no master password" is the answer, and of two
  saves the later undoes the earlier. Two flushes that create the daily log lose
  one's entry; a second session end within a minute is dropped; entries that come
  during a compilation count as compiled, and so does a log whose compilation
  ended in an error or at its turn limit (`compile.py:147-160`). A query that
  raises leaves an entry FLUSH_ERROR in place of the context, which is deleted
  (`flush.py:235-246`), and makes the next flush of that session within a minute
  a duplicate. A cut-off snapshot counts as the newest
  of its hour and day.

## 4. What is proved

All theorems hold for every value of the constants that satisfies the assumptions
below; TLC evaluates each of them in the runs.

| Assumption | What it says | Why the code justifies it |
|---|---|---|
| `BusAssumption` | envelope ids are numbers, publishers and loops are different tasks, caps are positive, limits are numbers | ids stand for the order of `created_at`; the caps are positive integers of the configuration |
| `SupervisorAssumption` | threshold positive, bounds numbers | `failures_before_quarantine` |
| `AgentMailboxAssumption` | ranks 0 to 2, queue positive, bound a number | three urgencies; the broker's queues are bounded |
| `AgentSideAssumption` | `MaxTracked` and the tracker's `Capacity` are numbers; each urgency has a delay, and one of the delays is the longest | module constants and a table of three entries |
| `ServicesAssumption` | seeds are jobs; there is a TTL loop, and the intervals and the longest sweep are numbers | `jobs.yaml` names jobs; the daemon always has the loop, with any configuration. A longer sweep is one that hangs |
| `OutsideAssumption` | sizes, limits and windows are numbers; an envelope makes at least one post; the target of a part is at least 1 | literals in the code |
| `OnDiskAssumption` | `None` is no pid, process or value; clock and keep counts are numbers; a fragment's endpoints are a sequence; the paths a hatch writes are a sequence and none is called like a stage | nothing but how the model writes its data |

`Briefs` needs none.

| Theorem | Property |
|---|---|
| `BusProofs!TypeCorrect` | `TypeOK` |
| `BusProofs!NeverStranded` | `NothingStranded` |
| `BusProofs!NeverThreeDeliveries`, `AttemptsStayBounded`, `DeliveriesStayBounded` | `AtMostTwoDeliveries`, `AttemptsBounded`, and both as `DeliveriesBounded` |
| `BusProofs!ImplementsMailbox` | `MailboxSpec` (refinement) |
| `SupervisorProofs!TypeCorrect` | `TypeOK` |
| `SupervisorProofs!HealthStaysCoherent` | `HealthCoherent` |
| `SupervisorProofs!QuarantinesAreRecorded` | `QuarantineRecorded` |
| `SupervisorProofs!BreakerGoesRound` | `BreakerCycle` |
| `AgentProofs!TypeCorrect` | `AgentMailbox!TypeOK` |
| `AgentProofs!WakesGetThrough` | `NothingUnannounced` |
| `AgentProofs!NoSilentLoss` | `SettledIsSeen` |
| `AgentProofs!RegistryIsWatched` | `Outbounds!TrackedIsWatched` |
| `AgentProofs!NoPhantomWake` | `NoFalseAlarm` (`Outbounds`) |
| `AgentProofs!WakesAreOnTime` | `OnTime` (`WakeTimer`) |
| `AgentProofs!ClaimsAreHeld` | `ClaimIsHeld` (`AgentSessions`) |
| `AgentProofs!ResendsAreMarked` | `ResendIsMarked` (`Channel`) |
| `ServicesProofs!StatusAndEventsAgree` | `JobsAreToldOf` (`Handoffs`) |
| `ServicesProofs!NoJobIsLost` | `WantedIsStored` (`Scheduler`) |
| `ServicesProofs!AnsweredOnce` | `OneAnswer` (`Voice`) |
| `ServicesProofs!MarkersAreKept` | `MarkerIsKept` (`Presence`) |
| `ServicesProofs!SparesWhatTurns` | `SparedWhileRunning` (`DaemonProcess`) |
| `BriefsProofs!NeverTwice` | `DeliveredOnce` |
| `BriefsProofs!TokensStayRight` | `TokensAreRight` |
| `OutsideProofs!AdmittedAreRight` | `AdmittedRightly` (`Inbound`) |
| `OutsideProofs!PostsStayRight` | `PostsAreRight` (`DiscordOutbound`) |
| `OutsideProofs!EyesAreKnown` | `NoEyesLeft` (`DiscordInbound`) |
| `OutsideProofs!TextIsWhole` | `NothingLost` (`Chunking`) |
| `OnDiskProofs!EveryDaemonIsFound` | `OneDaemon` (`DaemonHome`) |
| `OnDiskProofs!LinkLeadsToWhole` | `LinkIsWhole` (`Venvs`) |
| `OnDiskProofs!NothingGetsForgotten` | `NothingIsForgotten` (`MemoryLog`) |
| `OnDiskProofs!LastOfDayStays` | `LastOfDayIsKept` (`Backups`) |
| `OnDiskProofs!MistakesStayContained` | `MistakesAreContained` (`Assembly`) |
| `OnDiskProofs!WhatGrewIsKept` | `GrowthIsKept` (`Hatch`) |
| `OnDiskProofs!NothingGetsLost` | `NothingIsLost` (`Vault`) |

So every invariant and every action property that a passing run checks is a
theorem; the run shows it on a small instance, and shows by its mutant that a
bug would break it.

### The arguments

**Bus.** `TaskInv` is the inductive invariant: which awaits each kind of task may
be at and what its list then holds, that the recipients in a publisher's `plan`
are either still to be checked or registered, that the ids a publisher still has
to insert are fresh, and that a row in flight has a deadline. It is needed
because `NothingStranded` depends on the check made several awaits before the
insert. From it, two deliveries of one envelope are always by its publisher and
by one of the two roles that share the redelivery loop, never by a third.

`AttemptsBounded` needs an accounting argument (`CountsBudgeted`). Each row has a
budget of `MaxAttempts` plus the nacks so far. The publisher holds a token for the
row while it has not marked it yet, or is about to requeue it; the row is open to
the loops while it is pending, or listed and not marked, or about to be requeued
by one of them. A count reaches the budget only with one of the two left, passes
it by one only with neither, and while both exist it is below. A loop cannot go
round on its own: to make the row pending again it must have read a count below
the cap. A replay starts over with a count of zero; a nack buys one more.

`ImplementsMailbox` maps each step of the bus to the step of `Mailbox` that
changes the status of the same envelope, or to `HandOver`; the lemmas
`CustodyOfOwed` and `InCustody` say that lists are drawn from owed envelopes and
that whoever writes a row has it in custody.

**Supervisor.** `Coherence` strengthens `HealthCoherent` with where the task is: an
endpoint still in the boot's `todo` is unregistered, one already visited has left
it, and one whose recovery is being recorded is no longer quarantined.

**Agent's mailbox.** The invariant adds `CallsAreInformed` to the two properties:
what a tool call was asked to settle is queued or was known to its caller when
the call began, so whatever of it is acked later was seen, however often the
queue changes meanwhile. Steps that only let what is seen grow are one lemma
(`GrowthIsSafe`).

**Outbounds.** Whatever leaves the registry for an ack or a failed publish is
never put back (`Released`), which is why a timer that finds its outbound
registered may ring. The cap is a counting lemma: those that have fewer than M
later ones in a finite set of numbers are at most M (`FewAreKept`, by removing the
smallest).

**Briefs.** A request has one session in its life (`OneSession`), a token that is
being submitted is consumed and no one else's (`OneSubmission`), and a destination
was sent a brief at most as often as it was tried (`SentWhenTried`).

**Timer, sessions.** What is left on the debounce timer never exceeds what the
earliest arrival was promised: `OnTime` is inductive together with the types, and
what is promised when nothing waits (`Never`) is later than every delay.
`ClaimIsHeld` is inductive with the types; that whoever is pushed to has a claiming
task, and that a claim outlasts a failed push and a stop, are parts of it.

**Channel.** The tracker is one of the two places that remember the last so many
different things met (the other is the webhooks' dedupe window). `CommonLemmas`
says what such a sequence holds (`LastMet`: the last so many different things of
the log, the one met last at its end) and that meeting a thing again, or a new
one, keeps it so (`MetAgain`, `MetFirst`). The invariant adds that each mark given says what the tracker said at
that moment.

**Voice.** A sum. A request is with the bus, in any number of `deliver()` calls, in
any number of tasks and has so many answers; together these are at most one, plus
its extra deliveries, plus the Readys stored by a publish that raised
(`AnswerPerDelivery`). An acknowledgement turns a call into a task, a task turns
into an answer, and nothing else adds to the sum.

**Handoffs, scheduler.** A job is in one place at a time: in the queue, with the
worker, over. An event is made as the last of them is left. A schedule that is
wanted is in the store, or an update that removed it is still there, or was cut
off (`Safe`); a call under way names a job (`CallsNameJobs`).

**Presence, process.** A watcher on its way up that reduces its resolution found
the marker, and one that warms up already has the resolution the marker tells of,
unless the marker could not be written.
The silence since the last beat plus what remains of the TTL loop's sleep, or of
its sweep and the sleep after it, is at most the interval plus the longest sweep.
Nothing is assumed of the watchdog's patience: a larger one spares a loop that
turns, and whether it is larger is the configuration's.

**Inbound.** Two counts. The deduper is `LastMet` of what was handed on, so an
event still within its window is not handed on again. Of the events handed on
within the rate window, each has a stamp of its own in the bucket (an injection
from the log to the bucket), so there are never more than the limit.

**Discord.** Each delivery knows how far its posts have come, and the one before
it had come no further; so a post made twice has a lost answer or a slow send
behind it. `NoEyesLeft` is inductive once the tracked messages are known to be
messages; the work is in what the tracked list keeps as its head is let go.

**Chunking.** Of what is cut off, every glyph is in a part or is a newline outside
of a code block, and such a newline changes nothing in the scan; a part ends in the
window and takes in at least one glyph, wherever its boundary is. The scan of a text of any length is a recursive function on an interval;
that it exists is `Recursion` of `CommonLemmas`, shown by the smallest number for
which it would not. The same lemma gives the counts of `Assembly`.

**On disk.** *DaemonHome:* a command that acts on a look that still holds knows
what is so (`FreshKnows`): one about to spawn or record has found no pid file, one
about to forget leaves no daemon behind, one about to kill has the pid in the
file. So whatever it writes over names no daemon. *Venvs:* what a build has verified is whole, and a link to what a
doctor is going to remove, or a build that works on it, counts as crossed, however
far the removal gets.
*MemoryLog:* a flush past its append has its entry in the log, or had it until the
log was created over it (`Appended`), and the session that makes a flush a
duplicate has an entry (`LastHasEntry`).
*Backups:* a prune keeps what is among the counted days, and by removing the
counted days only become fewer. *Assembly:* what is merged, validated and
registered so far is what the entries before this one call for; a boot that failed
has a culprit among the files and entries it has come to; the configuration that
counts for a name is the last one of it. *Hatch:* a hatch takes back
nothing that was there before it. *Vault:* a process that has stored or found the password has it
in a backend that can give it back (`Secured`), what it is about to write is
encrypted under the key that is there, and the vault is what was saved; each until
a process writes a key, a vault or a save over another's.

### What the proofs changed in the models

* `DiscordInbound`: an eviction that meets a tracked message without a handle
  leaves its reaction and ends the handler, as the code does; the model had gone on.
* `Assembly`: an endpoint with an empty name is not mounted; and
  `MistakesAreContained` says what it says of files with the same entry twice.
* `Inbound` (`Live`, `Stale`), `Channel` (`Capped`, `Note`, `Consumed`),
  `DiscordOutbound`, `Vault` and `DaemonHome` state some steps differently, with the same
  transitions, so that they can be reasoned about.

**Only model-checked:** the liveness properties (`EventuallySettled`,
`BootCompletes`, `QueuedIsNoticed`, `FailedIsRetried`, `AcceptedIsTold`,
`DeadIsRestarted`, `RequestIsAnswered`, `CameraComesBack`, `RunsInTheEnd`,
`AnswersCome`): with fairness and ENABLED they are out of the proof system's reach.
`Webcam` has no other kind. The library's induction theorems cannot be used either
(they take an operator as a parameter); where the proofs need induction over
data they argue by the smallest counterexample in a set of numbers.

## 5. Not modelled, and why

* **Daemon process:** `bus status`, mailbox and trace only read; `bus restore`
  copies files.
* **Agent's endpoint:** the registry of recent inbounds (whom `reply` answers),
  `show_my_day` and the notification that the tools changed: lookups and
  formatting beside the queue.
* **Discord:** editing, reacting, fetching, polls, reactions of users, the reload
  of the access file and the sweep of attachments: each a call of Discord's API
  that keeps no state with the others.
* **Voice:** the synchronous tool and its audit; `cleanup_expired`, which nothing
  calls.
* **Assembly:** the loading of plugins. The hook pipeline is modelled in `Bus` by
  what a hook may do: pass, or raise.
* **Daemon management:** `init` and the installation of services: one-off calls
  of the operating system.
* **Memory compiler:** lint, query and the contents of articles.
* **Busproxy:** stateless, one fresh connection and one classified exception per
  call. **Bus log, tail, MCP audit:** readers and append-only files. **QA client,
  notify server, email:** thin tools around other services. **Vendored speech
  model:** third-party; `Voice` has it as a call that returns, raises or hangs.

Three hazards have no property: the mailbox cap, which several publishers may pass
at once, is a soft limit by the shape of its check; mail for an endpoint that
left the configuration, since `Endpoints` is a constant of `Bus`; and entries that
a compilation passes over, which the code counts as compiled all the same:
`MemoryLog` has those outcomes, and its property ends at the daily log.

## 6. What could come next

1. `Bus` and `Supervisor` composed, so that the restarts the bus sees are the ones
   the supervisor decides on; `Bus` allows them at the end of any sweep, which
   includes these.
2. The mailbox cap as a theorem: with P publishers at most P envelopes beyond
   `max_pending_per_endpoint` per mailbox, requeues apart.
