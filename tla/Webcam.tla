------------------------------- MODULE Webcam -------------------------------
(***************************************************************************)
(* The webcam endpoint: captures and listings asked for by agents, a lock  *)
(* for each camera, and the threads of asyncio's pool in which the camera  *)
(* driver is called. A thread cannot be cancelled: when a capture times    *)
(* out its thread goes on, and holds a place in the pool as long.          *)
(***************************************************************************)
EXTENDS Naturals, Sequences, FiniteSets, FiniteSetsExt

CONSTANTS
  Caller, Camera,
  Workers,     \* threads of the default executor
  MaxMishaps   \* bound: cameras that hang, writes that fail

VARIABLES
  call,     \* what each caller waits for; "idle" when it has its answer
  wants,    \* the camera it asked for
  line,     \* the callers at the lock of each camera, the first one holds it
  job,      \* the caller's function in the pool: "none", "queued", "running"
  orphans,  \* of each camera: threads whose capture timed out
  hung,     \* cameras whose driver does not answer
  used

vars == <<call, wants, line, job, orphans, hung, used>>

Mishap == used < MaxMishaps /\ used' = used + 1

Busy == Cardinality({c \in Caller : job[c] = "running"})
        + FoldSet(LAMBDA m, n : n + orphans[m], 0, Camera)

Init ==
  /\ call = [c \in Caller |-> "idle"]
  /\ wants \in [Caller -> Camera]
  /\ line = [m \in Camera |-> <<>>]
  /\ job = [c \in Caller |-> "none"]
  /\ orphans = [m \in Camera |-> 0]
  /\ hung = {} /\ used = 0

\* The caller's next function goes to the pool.
Submit(c, at) == call' = [call EXCEPT ![c] = at] /\ job' = [job EXCEPT ![c] = "queued"]

Answer(c) == call' = [call EXCEPT ![c] = "idle"] /\ job' = [job EXCEPT ![c] = "none"]

----------------------------------------------------------------------------
(* Calls                                                                   *)

\* The lock of the camera is a queue. A call that is refused, since the
\* endpoint is disabled or the resolution too large, changes nothing.
Ask(c, m) ==
  /\ call[c] = "idle"
  /\ wants' = [wants EXCEPT ![c] = m]
  /\ line' = [line EXCEPT ![m] = Append(@, c)]
  /\ call' = [call EXCEPT ![c] = "waiting"]
  /\ UNCHANGED <<job, orphans, hung, used>>

AskList(c) ==
  /\ call[c] = "idle"
  /\ Submit(c, "listing")
  /\ UNCHANGED <<wants, line, orphans, hung, used>>

Locks(c) ==
  /\ call[c] = "waiting" /\ Head(line[wants[c]]) = c
  /\ Submit(c, "capturing")
  /\ UNCHANGED <<wants, line, orphans, hung, used>>

ThreadStarts(c) ==
  /\ job[c] = "queued" /\ Busy < Workers
  /\ job' = [job EXCEPT ![c] = "running"]
  /\ UNCHANGED <<call, wants, line, orphans, hung, used>>

Unlock(c) == line' = [line EXCEPT ![wants[c]] = Tail(@)]

\* The thread is done: there is a frame, or an error to be explained with the
\* list of cameras, or one that nobody explains. A camera somebody else has
\* open cannot be opened, or read.
CaptureEnds(c) ==
  /\ call[c] = "capturing" /\ job[c] = "running" /\ wants[c] \notin hung
  /\ Unlock(c)
  /\ \/ orphans[wants[c]] = 0 /\ Submit(c, "naming")
     \/ Submit(c, "explaining")
     \/ Answer(c)
  /\ UNCHANGED <<wants, orphans, hung, used>>

\* Mutant: the answer waits for the thread.
CaptureTimesOutWithThread(c) ==
  /\ call[c] = "capturing" /\ job[c] = "queued"
  /\ Unlock(c)
  /\ Answer(c)
  /\ UNCHANGED <<wants, orphans, hung, used>>

\* wait_for: what was not started is cancelled, what runs is left to itself.
\* The time in the pool's queue counts.
CaptureTimesOut(c) ==
  /\ call[c] = "capturing"
  /\ Unlock(c)
  /\ orphans' = IF job[c] = "running" THEN [orphans EXCEPT ![wants[c]] = @ + 1] ELSE orphans
  /\ Answer(c)
  /\ UNCHANGED <<wants, hung, used>>

\* list_cameras opens every camera, and has no timeout. The frame's camera is
\* found by its name, and the frame is saved or not; a call that was to be
\* explained or was for the list has its answer.
ListEnds(c) ==
  /\ call[c] \in {"naming", "explaining", "listing"} /\ job[c] = "running" /\ hung = {}
  /\ \/ call[c] = "naming" /\ Submit(c, "writing")
     \/ Answer(c)
  /\ UNCHANGED <<wants, line, orphans, hung, used>>

\* Also when it fails: an OSError is told as one.
WriteEnds(c) ==
  /\ call[c] = "writing" /\ job[c] = "running"
  /\ Answer(c)
  /\ UNCHANGED <<wants, line, orphans, hung, used>>

----------------------------------------------------------------------------
(* Cameras                                                                 *)

OrphanEnds(m) ==
  /\ orphans[m] > 0 /\ m \notin hung
  /\ orphans' = [orphans EXCEPT ![m] = @ - 1]
  /\ UNCHANGED <<call, wants, line, job, hung, used>>

Hangs(m) ==
  /\ m \notin hung /\ Mishap
  /\ hung' = hung \cup {m}
  /\ UNCHANGED <<call, wants, line, job, orphans>>

Recovers(m) ==
  /\ m \in hung
  /\ hung' = hung \ {m}
  /\ UNCHANGED <<call, wants, line, job, orphans, used>>

CallStep(c) == Locks(c) \/ CaptureEnds(c) \/ CaptureTimesOut(c) \/ ListEnds(c) \/ WriteEnds(c)

Next ==
  \/ \E c \in Caller :
       \/ AskList(c) \/ CallStep(c) \/ ThreadStarts(c)
       \/ \E m \in Camera : Ask(c, m)
  \/ \E m \in Camera : OrphanEnds(m) \/ Hangs(m) \/ Recovers(m)

Spec == Init /\ [][Next]_vars

\* Timers run out, driver calls that can return do, threads are handed out.
\* No camera need recover.
Fairness ==
  /\ \A c \in Caller : WF_vars(CallStep(c)) /\ SF_vars(ThreadStarts(c))
  /\ \A m \in Camera : WF_vars(OrphanEnds(m))

----------------------------------------------------------------------------
(* Properties                                                              *)

\* A capture gets its turn at the camera, however many reads before it never
\* returned, and with every thread of the pool among them.
TurnComes == \A c \in Caller : call[c] = "waiting" ~> call[c] # "waiting"

\* Every call is answered unless a camera hangs: listing the cameras then
\* hangs as well, and nothing limits it.
IsAnswered == \A c \in Caller : call[c] # "idle" ~> (call[c] = "idle" \/ hung # {})

AnswersCome == TurnComes /\ IsAnswered
=============================================================================
