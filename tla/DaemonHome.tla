----------------------------- MODULE DaemonHome -----------------------------
(***************************************************************************)
(* The home of an installed daemon and the commands that change it         *)
(* (packages/core/src/agent_core/daemon/cli.py, supervisor.py, release.py  *)
(* and the corpse part of venv_gc.py): start, stop, status, install,       *)
(* refresh and doctor --fix. A command is a process of its own, so two of  *)
(* them, one typed and one run at logon, may interleave at every file and  *)
(* process operation. Nothing locks the home. Beside them the Windows      *)
(* service starts a daemon of its own, which has no daemon.pid.            *)
(***************************************************************************)
EXTENDS Naturals, Sequences

CONSTANTS
  Operator,        \* those who run commands
  Pid,             \* process ids: a free one may be given to any process
  None,            \* no daemon.pid, or one that cannot be read
  MaxDisturbances  \* bound: commands cut off, kills survived, pids reused

VARIABLES
  pidFile,   \* daemon.pid
  process,   \* what each pid is: "free", "daemon" or "stranger"
  python,    \* the interpreter of each daemon: "venv" or "system"
  env,       \* <home>/.venv, a plain directory: "none", "bare", "deps", "whole"
  cache,     \* the wheels in <home>/releases/<tag>: "none", "cut" or "whole"
  command,   \* what each operator is doing
  headless,  \* the daemon of the Windows service
  stray,     \* daemons whose pid a mishap or a stale write lost (history)
  used

vars == <<pidFile, process, python, env, cache, command, headless, stray, used>>

\* stale: another command wrote daemon.pid since this one last looked at it
\* (history).
Idle == [todo |-> <<>>, at |-> "idle", pid |-> None, stale |-> FALSE]

\* refresh calls the three commands in turn.
Steps ==
  [start |-> <<"start">>, stop |-> <<"stop">>, status |-> <<"status">>,
   install |-> <<"install">>, doctor |-> <<"doctor">>,
   refresh |-> <<"stop", "install", "start">>]

Init ==
  /\ pidFile = None
  /\ process = [p \in Pid |-> "free"] /\ python = [p \in Pid |-> "system"]
  /\ env = "none" /\ cache = "none"
  /\ command = [o \in Operator |-> Idle]
  /\ headless = {} /\ stray = {} /\ used = 0

\* psutil.pid_exists: whatever process has the pid.
IsAlive(p) == p # None /\ process[p] # "free"

At(o, where) == command[o].at = where

Doing(o, name) == At(o, "begin") /\ Head(command[o].todo) = name

Go(o, where, p) == command' = [command EXCEPT ![o].at = where, ![o].pid = p]

\* What is left of the command when it returns: refresh goes on with the next.
After(o) ==
  IF Len(command[o].todo) <= 1 THEN Idle
  ELSE [Idle EXCEPT !.todo = Tail(command[o].todo), !.at = "begin"]

Finish(o) == command' = [command EXCEPT ![o] = After(o)]

\* typer.Exit: refresh is over too.
Abort(o) == command' = [command EXCEPT ![o] = Idle]

Invoke(o, name) ==
  /\ At(o, "idle")
  /\ command' = [command EXCEPT ![o] = [Idle EXCEPT !.todo = Steps[name], !.at = "begin"]]
  /\ UNCHANGED <<pidFile, process, python, env, cache, headless, stray, used>>

\* A daemon of a start that is about to write its pid.
Recorded(p) == \E o \in Operator : At(o, "record") /\ command[o].pid = p

\* A daemon that can be found through daemon.pid only.
Named(p) ==
  /\ p = pidFile /\ p # None /\ process[p] = "daemon"
  /\ p \notin headless /\ ~Recorded(p)

\* write_pid or remove_pid: what every other command that acts on daemon.pid
\* knows of it is stale from here on. A daemon it named is lost if the writer's
\* look was.
Write(o, p, then) ==
  /\ pidFile' = p
  /\ command' = [q \in Operator |->
       IF q = o THEN then
       ELSE [command[q] EXCEPT
              !.stale = command[q].at \in {"spawn", "record", "kill", "forget"}]]
  /\ stray' = stray \cup {q \in Pid \ {p} : Named(q) /\ command[o].stale}

----------------------------------------------------------------------------
(* start                                                                   *)

\* Mutant: the pid file is not looked at.
StartBeginUnchecked(o) ==
  /\ Doing(o, "start")
  /\ Go(o, "spawn", None)
  /\ UNCHANGED <<pidFile, process, python, env, cache, headless, stray, used>>

StartBegin(o) ==
  /\ Doing(o, "start")
  /\ IF IsAlive(pidFile) THEN Abort(o)
     ELSE Go(o, IF pidFile = None THEN "spawn" ELSE "forget", None)
  /\ UNCHANGED <<pidFile, process, python, env, cache, headless, stray, used>>

\* Popen of the python of .venv, or of the command's own where there is none.
Spawn(o) ==
  /\ At(o, "spawn")
  /\ \E p \in Pid :
       /\ process[p] = "free"
       /\ process' = [process EXCEPT ![p] = "daemon"]
       /\ python' = [python EXCEPT ![p] = IF env = "none" THEN "system" ELSE "venv"]
       /\ Go(o, "record", p)
  /\ UNCHANGED <<pidFile, env, cache, headless, stray, used>>

Record(o) ==
  /\ At(o, "record")
  /\ Write(o, command[o].pid, After(o))
  /\ UNCHANGED <<process, python, env, cache, headless, used>>

----------------------------------------------------------------------------
(* The Windows service                                                     *)

\* SvcDoRun: Popen of the python of .venv, as the service starts. It has one
\* child at a time and looks at no daemon.pid.
SvcDoRun ==
  /\ headless = {} /\ env # "none"
  /\ \E p \in Pid :
       /\ process[p] = "free"
       /\ process' = [process EXCEPT ![p] = "daemon"]
       /\ python' = [python EXCEPT ![p] = "venv"]
       /\ headless' = {p}
  /\ UNCHANGED <<pidFile, env, cache, command, stray, used>>

----------------------------------------------------------------------------
(* stop and status                                                         *)

StopBegin(o) ==
  /\ Doing(o, "stop")
  /\ IF pidFile = None THEN Finish(o)
     ELSE Go(o, IF IsAlive(pidFile) THEN "kill" ELSE "forget", pidFile)
  /\ UNCHANGED <<pidFile, process, python, env, cache, headless, stray, used>>

\* kill_tree: whatever process has the pid by now.
Kill(o) ==
  /\ At(o, "kill")
  /\ process' = [process EXCEPT ![command[o].pid] = "free"]
  /\ stray' = stray \ {command[o].pid} /\ headless' = headless \ {command[o].pid}
  /\ Go(o, "forget", None)
  /\ UNCHANGED <<pidFile, python, env, cache, used>>

\* wait_procs gives up after five seconds and what it returns is not read.
KillSurvived(o) ==
  /\ At(o, "kill") /\ process[command[o].pid] = "daemon" /\ used < MaxDisturbances
  /\ stray' = stray \cup {command[o].pid}
  /\ Go(o, "forget", None)
  /\ used' = used + 1
  /\ UNCHANGED <<pidFile, process, python, env, cache, headless>>

StatusBegin(o) ==
  /\ Doing(o, "status")
  /\ IF pidFile = None \/ IsAlive(pidFile) THEN Finish(o) ELSE Go(o, "forget", None)
  /\ UNCHANGED <<pidFile, process, python, env, cache, headless, stray, used>>

\* remove_pid of stop and status, and of start, which then goes on.
Forget(o) ==
  /\ At(o, "forget")
  /\ Write(o, None, IF Head(command[o].todo) = "start"
                    THEN [command[o] EXCEPT !.at = "spawn", !.pid = None, !.stale = FALSE]
                    ELSE After(o))
  /\ UNCHANGED <<process, python, env, cache, headless, used>>

----------------------------------------------------------------------------
(* install: in place, into .venv                                           *)

InstallBegin(o) ==
  /\ Doing(o, "install")
  /\ IF IsAlive(pidFile) THEN Abort(o) ELSE Go(o, "fetch", None)
  /\ UNCHANGED <<pidFile, process, python, env, cache, headless, stray, used>>

\* download_wheels and download_requirements: a file that is there is taken
\* as it is. The network may fail.
Fetch(o) ==
  /\ At(o, "fetch")
  /\ \/ Go(o, "create", None) /\ cache' = IF cache = "none" THEN "whole" ELSE cache
     \/ Abort(o) /\ UNCHANGED cache
  /\ UNCHANGED <<pidFile, process, python, env, headless, stray, used>>

\* What a failing step may leave of the environment, if there is one.
Damaged(state) == IF env = "none" THEN {"none"} ELSE {env, state}

\* ensure_venv
Create(o) ==
  /\ At(o, "create")
  /\ \/ Go(o, "require", None) /\ env' = IF env = "none" THEN "bare" ELSE env
     \/ Abort(o) /\ UNCHANGED env
  /\ UNCHANGED <<pidFile, process, python, cache, headless, stray, used>>

\* install_requirements: a failure leaves what it had replaced so far.
Require(o) ==
  /\ At(o, "require")
  /\ \/ env # "none" /\ Go(o, "wheels", None) /\ env' = "deps"
     \/ Abort(o) /\ env' \in Damaged("bare")
  /\ UNCHANGED <<pidFile, process, python, cache, headless, stray, used>>

\* install_wheels: a wheel that was cut off while it was downloaded fails
\* this install and every later one.
Wheels(o) ==
  /\ At(o, "wheels")
  /\ \/ cache = "whole" /\ env # "none" /\ Finish(o) /\ env' = "whole"
     \/ Abort(o) /\ env' \in Damaged("deps")
  /\ UNCHANGED <<pidFile, process, python, cache, headless, stray, used>>

----------------------------------------------------------------------------
(* doctor --fix: dead central corpses                                      *)

\* find_dead_central_corpses: a plain .venv is one.
Examine(o) ==
  /\ Doing(o, "doctor")
  /\ IF env = "none" THEN Finish(o) ELSE Go(o, "remove", None)
  /\ UNCHANGED <<pidFile, process, python, env, cache, headless, stray, used>>

\* remove_dead_central_corpses: rmtree, or an OSError half way.
RemoveCorpse(o) ==
  /\ At(o, "remove")
  /\ env' \in {"none"} \cup Damaged("bare")
  /\ Finish(o)
  /\ UNCHANGED <<pidFile, process, python, cache, headless, stray, used>>

----------------------------------------------------------------------------
(* What may happen to them                                                 *)

\* Ctrl-C, a logoff: a download leaves the part of the file it has written,
\* a daemon that was just spawned has no pid file.
CutOff(o) ==
  /\ ~At(o, "idle") /\ used < MaxDisturbances
  /\ Abort(o)
  /\ cache' \in {cache} \cup (IF At(o, "fetch") /\ cache = "none" THEN {"cut"} ELSE {})
  /\ stray' = IF At(o, "record") /\ process[command[o].pid] = "daemon"
                THEN stray \cup {command[o].pid} ELSE stray
  /\ used' = used + 1
  /\ UNCHANGED <<pidFile, process, python, env, headless>>

ProcessEnds(p) ==
  /\ process[p] # "free"
  /\ process' = [process EXCEPT ![p] = "free"]
  /\ stray' = stray \ {p} /\ headless' = headless \ {p}
  /\ UNCHANGED <<pidFile, python, env, cache, command, used>>

\* The system gives the pid to a process that is no daemon.
PidReused(p) ==
  /\ process[p] = "free" /\ used < MaxDisturbances
  /\ process' = [process EXCEPT ![p] = "stranger"]
  /\ used' = used + 1
  /\ UNCHANGED <<pidFile, python, env, cache, command, headless, stray>>

Next ==
  \/ \E o \in Operator :
       \/ \E name \in DOMAIN Steps : Invoke(o, name)
       \/ StartBegin(o) \/ Spawn(o) \/ Record(o)
       \/ StopBegin(o) \/ Kill(o) \/ KillSurvived(o) \/ StatusBegin(o) \/ Forget(o)
       \/ InstallBegin(o) \/ Fetch(o) \/ Create(o) \/ Require(o) \/ Wheels(o)
       \/ Examine(o) \/ RemoveCorpse(o) \/ CutOff(o)
  \/ SvcDoRun
  \/ \E p \in Pid : ProcessEnds(p) \/ PidReused(p)

Spec == Init /\ [][Next]_vars

----------------------------------------------------------------------------
(* Properties.                                                             *)

\* Every daemon is one that `daemon stop` can find: daemon.pid names it or the
\* command that spawned it is about to write it. No command whose last look at
\* daemon.pid still holds loses a daemon, whatever others do meanwhile. What
\* stop cannot find is the Windows service's daemon, and one that was lost: by a
\* command that wrote daemon.pid on a look another command's write had made
\* stale, by a start cut off between Popen and write_pid, or as it outlived the
\* kill.
OneDaemon ==
  \A p \in Pid : process[p] = "daemon" =>
    pidFile = p \/ Recorded(p) \/ p \in headless \/ p \in stray

\* remove_dead_central_corpses: ".venv that is currently in use is a
\* symlink/junction, not a plain directory, so the detector never returns
\* it". A daemon keeps the environment it runs from.
LiveVenvIsKept ==
  \A p \in Pid : process[p] = "daemon" /\ python[p] = "venv" => env # "none"
=============================================================================
