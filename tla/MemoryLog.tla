----------------------------- MODULE MemoryLog -----------------------------
(***************************************************************************)
(* One day of the memory compiler (src/memory-compiler): the SessionEnd    *)
(* and PreCompact hooks write the context of a conversation to a file and  *)
(* spawn flush.py, which asks a model for a summary, appends it to the     *)
(* daily log and, in the evening, spawns compile.py, which turns the log   *)
(* into articles. Every hook, flush and compilation is a process of its    *)
(* own and they share files without locks. Of what an entry says only this *)
(* is kept: whether it is the model's answer or the text of an error.      *)
(***************************************************************************)
EXTENDS Naturals

CONSTANTS
  Context,    \* the firings of a hook whose transcript had turns to keep
  Session,
  None,       \* no session, nothing ingested
  MaxCrashes  \* bound: how many flushes or compilations end half way

VARIABLES
  session,    \* the session of each context that a hook has written
  file,       \* context files on disk
  flush,      \* where the flush of each context is
  last,       \* last-flush.json: the session, and whether it is a minute old
  header,     \* the daily log exists
  log,        \* the contexts that have an entry in it
  failed,     \* those whose entry is a FLUSH_ERROR: the query raised
  evening,    \* past COMPILE_AFTER_HOUR
  compile,    \* where the compilation a flush has spawned is
  seen,       \* the log as each compilation read it
  ingested,   \* the log whose hash state.json holds
  knowledge,  \* contexts that articles were written from
  skipped, truncated,  \* monitors, see the actions that assign them
  crashes

flushVars == <<session, file, flush, last, header, log, failed, skipped, truncated>>
compileVars == <<compile, seen, ingested, knowledge>>
vars == <<flushVars, compileVars, evening, crashes>>

Init ==
  /\ session = [c \in Context |-> None]
  /\ file = {} /\ flush = [c \in Context |-> "none"]
  /\ last = [session |-> None, recent |-> FALSE]
  /\ header = FALSE /\ log = {} /\ failed = {}
  /\ evening = FALSE
  /\ compile = [c \in Context |-> "none"] /\ seen = [c \in Context |-> {}]
  /\ ingested = None /\ knowledge = {}
  /\ skipped = {} /\ truncated = {}
  /\ crashes = 0

Move(c, from, to) == flush[c] = from /\ flush' = [flush EXCEPT ![c] = to]

----------------------------------------------------------------------------
(* The hooks                                                               *)

\* The context is written; Popen may fail, which leaves the file.
Hook(c, s) ==
  /\ session' = [session EXCEPT ![c] = s]
  /\ file' = file \cup {c}
  /\ \E next \in {"start", "stranded"} : Move(c, "none", next)
  /\ UNCHANGED <<last, header, log, failed, skipped, truncated, compileVars, evening, crashes>>

----------------------------------------------------------------------------
(* flush.py                                                                *)

\* A context of the session that was flushed last, less than a minute ago,
\* counts as a duplicate whatever it holds.
Start(c) ==
  /\ LET duplicate == last.recent /\ last.session = session[c] IN
     /\ Move(c, "start", IF duplicate THEN "done" ELSE "asking")
     /\ file' = IF duplicate THEN file \ {c} ELSE file
     /\ skipped' = IF duplicate THEN skipped \cup {c} ELSE skipped
  /\ UNCHANGED <<session, last, header, log, failed, truncated, compileVars, evening, crashes>>

\* Mutant: the context is removed as soon as there is an answer.
ReplyUnlinking(c) ==
  /\ Move(c, "asking", IF header THEN "append" ELSE "create")
  /\ failed' \in {failed, failed \cup {c}}
  /\ file' = file \ {c}
  /\ UNCHANGED <<session, last, header, log, skipped, truncated, compileVars, evening, crashes>>

\* The model answers, or the error becomes the answer; append_to_daily_log
\* looks whether the log exists.
Reply(c) ==
  /\ Move(c, "asking", IF header THEN "append" ELSE "create")
  /\ failed' \in {failed, failed \cup {c}}
  /\ UNCHANGED <<session, file, last, header, log, skipped, truncated, compileVars,
                 evening, crashes>>

\* ... and writes it anew, over what another flush has put there since.
Create(c) ==
  /\ Move(c, "create", "append")
  /\ header' = TRUE /\ log' = {}
  /\ truncated' = truncated \cup log
  /\ UNCHANGED <<session, file, last, failed, skipped, compileVars, evening, crashes>>

Append(c) ==
  /\ Move(c, "append", "mark")
  /\ log' = log \cup {c}
  /\ UNCHANGED <<session, file, last, header, failed, skipped, truncated, compileVars,
                 evening, crashes>>

\* save_flush_state
Mark(c) ==
  /\ Move(c, "mark", "unlink")
  /\ last' = [session |-> session[c], recent |-> TRUE]
  /\ UNCHANGED <<session, file, header, log, failed, skipped, truncated, compileVars,
                 evening, crashes>>

Unlink(c) ==
  /\ Move(c, "unlink", "trigger")
  /\ file' = file \ {c}
  /\ UNCHANGED <<session, last, header, log, failed, skipped, truncated, compileVars,
                 evening, crashes>>

\* maybe_trigger_compilation: in the evening, unless the log is as ingested.
Trigger(c) ==
  /\ Move(c, "trigger", "done")
  /\ compile' = IF evening /\ ingested # log THEN [compile EXCEPT ![c] = "start"] ELSE compile
  /\ UNCHANGED <<session, file, last, header, log, failed, skipped, truncated, seen, ingested,
                 knowledge, evening, crashes>>

----------------------------------------------------------------------------
(* compile.py                                                              *)

\* The log is read, unless another compilation has ingested it since.
CompileStart(c) ==
  /\ compile[c] = "start"
  /\ IF ingested = log
       THEN compile' = [compile EXCEPT ![c] = "none"] /\ UNCHANGED seen
       ELSE compile' = [compile EXCEPT ![c] = "asking"] /\ seen' = [seen EXCEPT ![c] = log]
  /\ UNCHANGED <<flushVars, ingested, knowledge, evening, crashes>>

\* The query ends or raises. When it ends, the log as it is now is hashed and
\* recorded, with what was appended since it was read and whatever the query
\* said: the result is not looked at, be it an error or the turn limit.
CompileEnd(c) ==
  /\ compile[c] = "asking"
  /\ compile' = [compile EXCEPT ![c] = "none"] /\ seen' = [seen EXCEPT ![c] = {}]
  /\ ingested' \in {ingested, log}
  /\ knowledge' \in {knowledge, knowledge \cup seen[c]}
  /\ UNCHANGED <<flushVars, evening, crashes>>

----------------------------------------------------------------------------
MinutePasses ==
  /\ last.recent
  /\ last' = [last EXCEPT !.recent = FALSE]
  /\ UNCHANGED <<session, file, flush, header, log, failed, skipped, truncated, compileVars,
                 evening, crashes>>

EveningComes ==
  /\ ~evening /\ evening' = TRUE
  /\ UNCHANGED <<flushVars, compileVars, crashes>>

\* A flush or a compilation ends where it is; nothing starts it again.
Crash(c) ==
  /\ crashes < MaxCrashes /\ crashes' = crashes + 1
  /\ \/ /\ flush[c] \notin {"none", "stranded", "done"}
        /\ flush' = [flush EXCEPT ![c] = "stranded"]
        /\ UNCHANGED <<compile, seen>>
     \/ /\ compile[c] # "none"
        /\ compile' = [compile EXCEPT ![c] = "none"] /\ seen' = [seen EXCEPT ![c] = {}]
        /\ UNCHANGED flush
  /\ UNCHANGED <<session, file, last, header, log, failed, skipped, truncated, ingested,
                 knowledge, evening>>

Next ==
  \/ \E c \in Context :
       \/ \E s \in Session : Hook(c, s)
       \/ Start(c) \/ Reply(c) \/ Create(c) \/ Append(c) \/ Mark(c) \/ Unlink(c) \/ Trigger(c)
       \/ CompileStart(c) \/ CompileEnd(c) \/ Crash(c)
  \/ MinutePasses \/ EveningComes

Spec == Init /\ [][Next]_vars

----------------------------------------------------------------------------
(* Properties.                                                             *)

\* A context whose summary is in no log, and why: the query raised and its
\* entry says so, it was skipped for another entry of its session, or its
\* entry was overwritten by a flush that created the log at the same moment.
LostButTold(c) ==
  \/ c \in log \cap failed
  \/ c \in truncated
  \/ c \in skipped /\ \E d \in log \cup truncated : d # c /\ session[d] = session[c]

\* What a hook has written is in its context file until its summary is in the
\* daily log, whoever crashes, but for the three ways the code has to lose it.
NothingIsForgotten ==
  \A c \in Context : session[c] # None =>
    c \in file \cup (log \ failed) \/ LostButTold(c)
=============================================================================
