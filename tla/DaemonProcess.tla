---------------------------- MODULE DaemonProcess ----------------------------
(***************************************************************************)
(* The life of the daemon's process: _run_bus with its HTTP server, its    *)
(* three loops and its watchdog, and what starts the process again, or     *)
(* does not. What the bus does in a boot or a sweep is in Bus and          *)
(* Supervisor; here it only takes time, hangs, fails or ends.              *)
(*                                                                         *)
(* Time goes in ticks. A loop that is due runs before the next tick, unless *)
(* the event loop is blocked.                                              *)
(***************************************************************************)
EXTENDS Naturals

CONSTANTS
  Mail,        \* envelopes pending at the first boot; draining one takes a tick
  Patience,    \* watchdog_timeout_seconds
  Interval,    \* how long each loop sleeps: "ttl", "redelivery", "backup"
  MaxSweep,    \* bound: ticks a sweep takes that does not hang
  MaxMishaps   \* bound: signals, failures, hangs and blocked loops

VARIABLES
  host,      \* "restarts": systemd with Restart=always or launchd with KeepAlive;
             \* "leaves": the Windows service, the logon task or the operator
  main,      \* where _run_bus is; "off" when there is no process
  http,      \* HTTPHost: "off", "up", "gone" when the serve task has ended
  backlog,   \* envelopes Bus.start has still to drain
  loops,     \* what each loop does, and the ticks left to do it
  watchdog,  \* the watchdog's thread runs
  silence,   \* ticks since the last heartbeat
  stuck,     \* "no", "call": what main awaits never returns, "loop": blocked
  ended,     \* how the last process ended
  used       \* mishaps so far

vars == <<host, main, http, backlog, loops, watchdog, silence, stuck, ended, used>>

Loop == DOMAIN Interval

Off == [at |-> "off", left |-> 0]
Due == [at |-> "due", left |-> 0]
Hanging == [at |-> "hanging", left |-> 0]

Mishap == used < MaxMishaps /\ used' = used + 1

Init ==
  /\ host \in {"restarts", "leaves"}
  /\ main = "off" /\ http = "off" /\ backlog = Mail
  /\ loops = [l \in Loop |-> Off]
  /\ watchdog = FALSE /\ silence = 0
  /\ stuck = "no" /\ ended = "never" /\ used = 0

----------------------------------------------------------------------------
(* Boot                                                                    *)

\* The service manager starts the process, again when it ended, or a logon or
\* the operator does. SvcDoRun of the Windows service reports SERVICE_STOPPED
\* when its child ends: that is no failure to the service control manager, and
\* its restart actions are not applied; and the logon task has ended by then.
ServiceStarts ==
  /\ main = "off"
  /\ main' = "serving"
  /\ UNCHANGED <<host, http, backlog, loops, watchdog, silence, stuck, ended, used>>

\* http_host.start() returns; the watchdog starts afresh.
HttpStarts ==
  /\ main = "serving" /\ stuck = "no"
  /\ main' = "booting" /\ http' = "up"
  /\ watchdog' = TRUE /\ silence' = 0
  /\ UNCHANGED <<host, backlog, loops, stuck, ended, used>>

\* The port is taken, or the server is not up within 10 seconds: nothing of
\* _run_bus is there to be undone.
HttpFails ==
  /\ main = "serving" /\ stuck = "no" /\ Mishap
  /\ main' = "off" /\ ended' = "error"
  /\ UNCHANGED <<host, http, backlog, loops, watchdog, silence, stuck>>

Silent == silence' = IF silence < Patience THEN silence + 1 ELSE silence

\* Bus.start drains: what is delivered is in flight and no longer pending.
Drain ==
  /\ main = "booting" /\ stuck = "no" /\ backlog > 0
  /\ backlog' = backlog - 1
  /\ Silent
  /\ UNCHANGED <<host, main, http, loops, watchdog, stuck, ended, used>>

\* Bus.start returns; signals are handled from here on, and the loops run.
BootEnds ==
  /\ main = "booting" /\ stuck = "no" /\ backlog = 0
  /\ main' = "running"
  /\ loops' = [l \in Loop |-> Due]
  /\ UNCHANGED <<host, http, backlog, watchdog, silence, stuck, ended, used>>

\* Bus.start raises: bus.stop() is not called.
BootFails ==
  /\ main = "booting" /\ stuck = "no" /\ Mishap
  /\ main' = "closing" /\ ended' = "error"
  /\ watchdog' = FALSE
  /\ UNCHANGED <<host, http, backlog, loops, silence, stuck>>

----------------------------------------------------------------------------
(* The loops                                                               *)

\* Mutant: only the loop with the shorter interval beats.
BeatsOften(l) == l = "redelivery"

\* The backup loop does not beat.
Beats(l) == l # "backup"

\* A loop's turn: the heartbeat, then the sweep, which takes a while or hangs.
SweepBegins(l) ==
  /\ main = "running" /\ stuck # "loop" /\ loops[l].at = "due"
  /\ silence' = IF Beats(l) THEN 0 ELSE silence
  /\ \E t \in 0..MaxSweep : loops' = [loops EXCEPT ![l] = [at |-> "sweeping", left |-> t]]
  /\ UNCHANGED <<host, main, http, backlog, watchdog, stuck, ended, used>>

\* deliver() or an endpoint's start() never returns, the snapshot never ends:
\* not so in the TTL sweep, which is a few statements of the store.
SweepHangs(l) ==
  /\ main = "running" /\ stuck # "loop" /\ loops[l].at = "sweeping" /\ l # "ttl"
  /\ Mishap
  /\ loops' = [loops EXCEPT ![l] = Hanging]
  /\ UNCHANGED <<host, main, http, backlog, watchdog, silence, stuck, ended>>

\* Also when the sweep raised, which is logged.
SweepEnds(l) ==
  /\ main = "running" /\ stuck # "loop" /\ loops[l] = [at |-> "sweeping", left |-> 0]
  /\ loops' = [loops EXCEPT ![l] = [at |-> "sleeping", left |-> Interval[l]]]
  /\ UNCHANGED <<host, main, http, backlog, watchdog, silence, stuck, ended, used>>

Wakes(l) ==
  /\ main = "running" /\ stuck # "loop" /\ loops[l] = [at |-> "sleeping", left |-> 0]
  /\ loops' = [loops EXCEPT ![l] = Due]
  /\ UNCHANGED <<host, main, http, backlog, watchdog, silence, stuck, ended, used>>

LoopStep(l) == SweepBegins(l) \/ SweepEnds(l) \/ Wakes(l)

\* Nothing of the loops is to be done at once.
Quiet == \A l \in Loop : loops[l].at \in {"off", "hanging"} \/ loops[l].left > 0

Passed(l) == IF loops[l].left > 0 THEN [loops[l] EXCEPT !.left = @ - 1] ELSE loops[l]

\* A draining boot is not idle: Drain takes the tick.
Tick ==
  /\ main \in {"booting", "running", "stopping"}
  /\ stuck = "loop" \/ Quiet
  /\ stuck # "no" \/ main # "booting"
  /\ Silent
  /\ loops' = IF stuck = "loop" THEN loops ELSE [l \in Loop |-> Passed(l)]
  /\ UNCHANGED <<host, main, http, backlog, watchdog, stuck, ended, used>>

----------------------------------------------------------------------------
(* Shutdown                                                                *)

\* SIGINT or SIGTERM: the loops are cancelled, then bus.stop() is awaited.
Signal ==
  /\ main = "running" /\ stuck # "loop" /\ Mishap
  /\ main' = "stopping"
  /\ loops' = [l \in Loop |-> Off]
  /\ UNCHANGED <<host, http, backlog, watchdog, silence, stuck, ended>>

\* Before the handlers are installed a signal ends the process.
EarlySignal ==
  /\ main \in {"serving", "booting"} /\ Mishap
  /\ main' = "off" /\ ended' = "signal"
  /\ http' = "off" /\ watchdog' = FALSE /\ stuck' = "no"
  /\ UNCHANGED <<host, backlog, loops, silence>>

\* bus.stop() returns, the watchdog is stopped.
BusStops ==
  /\ main = "stopping" /\ stuck = "no"
  /\ main' = "closing" /\ ended' = "clean"
  /\ watchdog' = FALSE
  /\ UNCHANGED <<host, http, backlog, loops, silence, stuck, used>>

\* http_host.stop(): at most ten seconds. A serve task that ended by itself
\* raises here.
HttpStops ==
  /\ main = "closing" /\ stuck = "no"
  /\ main' = "off" /\ http' = "off"
  /\ ended' = IF http = "gone" THEN "error" ELSE ended
  /\ UNCHANGED <<host, backlog, loops, watchdog, silence, stuck, used>>

----------------------------------------------------------------------------
(* What goes wrong                                                         *)

\* uvicorn's serve() ends: nobody looks at the task before the shutdown.
ServerDies ==
  /\ http = "up" /\ main \in {"booting", "running"} /\ stuck # "loop" /\ Mishap
  /\ http' = "gone"
  /\ UNCHANGED <<host, main, backlog, loops, watchdog, silence, stuck, ended>>

\* An endpoint's start() or stop() never returns.
Hang ==
  /\ main \in {"booting", "stopping"} /\ stuck = "no" /\ Mishap
  /\ stuck' = "call"
  /\ UNCHANGED <<host, main, http, backlog, loops, watchdog, silence, ended>>

\* A call that does not await blocks the event loop for good.
Block ==
  /\ main # "off" /\ stuck = "no" /\ Mishap
  /\ stuck' = "loop"
  /\ UNCHANGED <<host, main, http, backlog, loops, watchdog, silence, ended>>

\* Mutant: nothing a boot delivers is marked before the drain is done.
FiresLosing ==
  /\ watchdog /\ silence = Patience
  /\ main' = "off" /\ ended' = "killed"
  /\ http' = "off" /\ watchdog' = FALSE /\ stuck' = "no"
  /\ loops' = [l \in Loop |-> Off]
  /\ backlog' = IF main = "booting" THEN Mail ELSE backlog
  /\ UNCHANGED <<host, silence, used>>

\* Watchdog.check_once in its own thread: os._exit(1).
Fires ==
  /\ watchdog /\ silence = Patience
  /\ main' = "off" /\ ended' = "killed"
  /\ http' = "off" /\ watchdog' = FALSE /\ stuck' = "no"
  /\ loops' = [l \in Loop |-> Off]
  /\ UNCHANGED <<host, backlog, silence, used>>

\* What the host does by itself.
HostRestarts == host = "restarts" /\ ServiceStarts

MainStep == HttpStarts \/ Drain \/ BootEnds \/ BusStops \/ HttpStops

Next ==
  \/ ServiceStarts \/ MainStep \/ Tick \/ Fires
  \/ HttpFails \/ BootFails \/ Signal \/ EarlySignal \/ ServerDies \/ Hang \/ Block
  \/ \E l \in Loop : LoopStep(l) \/ SweepHangs(l)

Spec == Init /\ [][Next]_vars

\* Calls return, loops take their turns, time passes, the thread looks at the
\* clock, and a host that restarts does.
Fairness ==
  /\ WF_vars(HostRestarts) /\ WF_vars(MainStep) /\ WF_vars(Tick) /\ WF_vars(Fires)
  /\ \A l \in Loop : WF_vars(LoopStep(l))

----------------------------------------------------------------------------
(* Properties                                                              *)

\* As long as the event loop turns, the silence the watchdog measures never
\* exceeds one sleep of the TTL loop and one sweep of it, although the redelivery
\* sweep and the backup may hang: a watchdog_timeout_seconds above that, as by
\* default, spares the daemon (nothing checks it of the configuration). Not so
\* before the TTL loop's first turn, in a boot, or in a shutdown.
SparedWhileRunning ==
  main = "running" /\ stuck = "no" /\ loops["ttl"].at # "due" =>
    silence <= MaxSweep + Interval["ttl"]

\* Whatever went wrong, the daemon runs in the end, also when draining its
\* backlog takes longer than the watchdog waits, where the host restarts what
\* ended; elsewhere it runs or is off. Left out is an event loop that is blocked
\* while the watchdog is not on duty: as the HTTP server is started, or stopped.
RunsInTheEnd ==
  <>[](\/ main = "running" /\ stuck = "no"
       \/ stuck = "loop" /\ ~ watchdog
       \/ main = "off" /\ host = "leaves")
=============================================================================
