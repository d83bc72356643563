------------------------------- MODULE Voice -------------------------------
(***************************************************************************)
(* The voice endpoint's requests: deliver() acknowledges a                 *)
(* SynthesisRequest first and then spawns a task, which synthesises in a   *)
(* thread, writes the audio and answers with a SynthesisReady or a         *)
(* SynthesisFailed of its own. The endpoint runs under the bus, which      *)
(* delivers again what is not acknowledged, and may run deliver() for one  *)
(* envelope twice: calls and tasks of a request are counted.               *)
(*                                                                         *)
(* Left out: the audio itself, its retention and the audit of              *)
(* synthesize_safe(), which no request comes through.                      *)
(***************************************************************************)
EXTENDS Naturals

CONSTANTS
  Request,      \* envelopes in the mailbox
  Malformed,    \* those SynthesisRequestPayload rejects
  Voiceless,    \* those of agents no voice is registered for
  Misfit,       \* those with options that int() or Spec rejects
  MaxDisturbances  \* bound: stops, crashes, deliveries once too often, and
                   \* calls of the bus that raise

VARIABLES
  mail,      \* requests neither acknowledged nor being delivered
  handling,  \* how many deliver() calls of a request are at each stage
  task,      \* how many of its spawned tasks are at each stage
  answers,   \* how many answers it has
  again,     \* how often the bus delivered it once too often (history)
  doubled,   \* how often a Ready was stored although its publish raised (history)
  lost,      \* requests a stop, a crash or a publish that raised left unanswered
  died,      \* a task's death is with the supervisor
  up,        \* _handle is set
  used       \* disturbances so far

vars == <<mail, handling, task, answers, again, doubled, lost, died, up, used>>

WellFormed == Request \ Malformed

Call == {"rejecting", "acking"}
Stage == {"starting", "synthesising", "writing", "announcing", "failing"}
NoCalls == [c \in Call |-> 0]
NoTasks == [s \in Stage |-> 0]

Disturbed == used < MaxDisturbances /\ used' = used + 1

Init ==
  /\ mail = Request
  /\ handling = [r \in Request |-> NoCalls]
  /\ task = [r \in Request |-> NoTasks]
  /\ answers = [r \in Request |-> 0]
  /\ again = [r \in Request |-> 0] /\ doubled = [r \in Request |-> 0]
  /\ lost = {}
  /\ up = TRUE /\ died = FALSE
  /\ used = 0

----------------------------------------------------------------------------
(* deliver                                                                 *)

Called(r) ==
  handling' = [handling EXCEPT ![r][IF r \in Malformed THEN "rejecting" ELSE "acking"] = @ + 1]

Returned(r, c) == handling[r][c] > 0 /\ handling' = [handling EXCEPT ![r][c] = @ - 1]

Deliver(r) ==
  /\ up /\ r \in mail
  /\ mail' = mail \ {r}
  /\ Called(r)
  /\ UNCHANGED <<task, answers, again, doubled, lost, died, up, used>>

\* The publisher and a loop dispatch one row at once, or a late requeue brings
\* back a row that was acknowledged (see Bus).
DeliverAgain(r) ==
  /\ up /\ r \notin mail /\ Disturbed
  /\ again' = [again EXCEPT ![r] = @ + 1]
  /\ Called(r)
  /\ UNCHANGED <<mail, task, answers, doubled, lost, died, up>>

\* _publish_failed for a malformed request; without a handle it only logs.
Reject(r) ==
  /\ handling[r]["rejecting"] > 0
  /\ answers' = [answers EXCEPT ![r] = @ + (IF up THEN 1 ELSE 0)]
  /\ lost' = IF up THEN lost ELSE lost \cup {r}
  /\ handling' = [handling EXCEPT ![r]["rejecting"] = @ - 1, ![r]["acking"] = @ + 1]
  /\ UNCHANGED <<mail, task, again, doubled, died, up, used>>

Spawned(r) == task' = [task EXCEPT ![r]["starting"] = @ + 1]

\* Mutant: the task is spawned first, and the ack may not come.
AckReturnsLast(r) ==
  /\ Returned(r, "acking")
  /\ IF up /\ r \in WellFormed THEN Spawned(r) ELSE UNCHANGED task
  /\ lost' = IF up \/ r \in Malformed THEN lost ELSE lost \cup {r}
  /\ mail' \in {mail, mail \cup {r}}
  /\ UNCHANGED <<answers, again, doubled, died, up, used>>

\* The handle was set when the call began; stop() may have come since, and then
\* the assertion before the spawn fails for a request that is acknowledged.
AckReturns(r) ==
  /\ Returned(r, "acking")
  /\ IF up /\ r \in WellFormed THEN Spawned(r) ELSE UNCHANGED task
  /\ lost' = IF up \/ r \in Malformed THEN lost ELSE lost \cup {r}
  /\ UNCHANGED <<mail, answers, again, doubled, died, up, used>>

\* publish() or ack() raises, or the assertion fails for want of a handle: the
\* bus dead-letters the envelope.
DeliverRaises(r) ==
  /\ \E c \in Call : Returned(r, c)
  /\ IF up THEN Disturbed ELSE r \in WellFormed /\ used' = used
  /\ lost' = lost \cup {r}
  /\ UNCHANGED <<mail, task, answers, again, doubled, died, up>>

\* Without a handle a malformed request is not acknowledged: the redelivery
\* sweep brings it again.
NotAcked(r) ==
  /\ r \in Malformed /\ ~up
  /\ Returned(r, "acking")
  /\ mail' = mail \cup {r}
  /\ UNCHANGED <<task, answers, again, doubled, lost, died, up, used>>

----------------------------------------------------------------------------
(* _handle_synthesis_request                                               *)

Moves(r, from, to) ==
  /\ task[r][from] > 0
  /\ task' = [task EXCEPT ![r][from] = @ - 1, ![r][to] = @ + 1]

Ends(r, from) == task[r][from] > 0 /\ task' = [task EXCEPT ![r][from] = @ - 1]

Goes(r, from, to) ==
  /\ Moves(r, from, to)
  /\ UNCHANGED <<mail, handling, answers, again, doubled, lost, died, up, used>>

\* The voice is looked up before the options are read.
Unfit(r) == r \in Misfit \ Voiceless

Begin(r) ==
  /\ ~Unfit(r)
  /\ Goes(r, "starting", IF r \in Voiceless THEN "failing" ELSE "synthesising")

\* int(options["seed"]) or Spec(...) raises outside any try: the task dies
\* without an answer, and the supervisor is told.
BeginRaises(r) ==
  /\ Unfit(r)
  /\ Ends(r, "starting")
  /\ died' = TRUE
  /\ UNCHANGED <<mail, handling, answers, again, doubled, lost, up, used>>

Synthesised(r) == Goes(r, "synthesising", "writing")

\* Mutant: a timeout ends the task.
TimesOutSilently(r) ==
  /\ Ends(r, "synthesising")
  /\ UNCHANGED <<mail, handling, answers, again, doubled, lost, died, up, used>>

\* The wait is over; the thread works on.
TimesOut(r) == Goes(r, "synthesising", "failing")

SynthesisFails(r) == Goes(r, "synthesising", "failing")

\* Transcoding and the content-addressed write.
Written(r) == Goes(r, "writing", "announcing")

WriteFails(r) == Goes(r, "writing", "failing")

Answered(r) == answers' = [answers EXCEPT ![r] = @ + 1]

\* publish() of the Ready or the Failed. (Without a handle it would be dropped,
\* but no task outlives its endpoint.)
Answer(r) ==
  /\ \E s \in {"announcing", "failing"} : Ends(r, s)
  /\ Answered(r)
  /\ UNCHANGED <<mail, handling, again, doubled, lost, died, up, used>>

\* publish() of the Ready, or the look at its file, raises.
ReadyFails(r) == Goes(r, "announcing", "failing")

\* It raises after it has stored the Ready: Bus dispatches in the publisher's
\* task, and there a hook or the store may fail. A Failed follows.
ReadyFailsLate(r) ==
  /\ Disturbed
  /\ Moves(r, "announcing", "failing")
  /\ Answered(r)
  /\ doubled' = [doubled EXCEPT ![r] = @ + 1]
  /\ UNCHANGED <<mail, handling, again, lost, died, up>>

\* publish() of the Failed raises, and the task dies of it.
FailedFails(r) ==
  /\ Disturbed
  /\ Ends(r, "failing")
  /\ lost' = lost \cup {r}
  /\ died' = TRUE
  /\ UNCHANGED <<mail, handling, answers, again, doubled, up>>

----------------------------------------------------------------------------
(* Stop, start, crash                                                      *)

Tasks == {r \in Request : task[r] # NoTasks}

\* After stop() the bus cancels the tasks of the handle; deliver() goes on. A
\* task's death makes the supervisor restart the endpoint.
Stop ==
  /\ up
  /\ IF died THEN used' = used ELSE Disturbed
  /\ up' = FALSE /\ died' = FALSE
  /\ lost' = lost \cup Tasks
  /\ task' = [r \in Request |-> NoTasks]
  /\ UNCHANGED <<mail, handling, answers, again, doubled>>

\* The backend and the voices are prepared before mail is drained.
Start ==
  /\ ~up
  /\ up' = TRUE
  /\ UNCHANGED <<mail, handling, task, answers, again, doubled, lost, died, used>>

\* What deliver() had not acknowledged is redelivered.
Crash ==
  /\ Disturbed
  /\ up' = FALSE /\ died' = FALSE
  /\ mail' = mail \cup {r \in Request : handling[r] # NoCalls}
  /\ handling' = [r \in Request |-> NoCalls]
  /\ lost' = lost \cup Tasks
  /\ task' = [r \in Request |-> NoTasks]
  /\ UNCHANGED <<answers, again, doubled>>

Step(r) ==
  \/ Deliver(r) \/ Reject(r) \/ AckReturns(r) \/ DeliverRaises(r) \/ NotAcked(r)
  \/ Begin(r) \/ BeginRaises(r) \/ Synthesised(r) \/ TimesOut(r) \/ SynthesisFails(r)
  \/ Written(r) \/ WriteFails(r) \/ Answer(r) \/ ReadyFails(r) \/ ReadyFailsLate(r)
  \/ FailedFails(r)

Next == Stop \/ Start \/ Crash \/ \E r \in Request : Step(r) \/ DeliverAgain(r)

Spec == Init /\ [][Next]_vars

\* Synthesis has a timeout, the rest ends by itself, the daemon is kept up.
Fairness == WF_vars(Start) /\ \A r \in Request : WF_vars(Step(r))

----------------------------------------------------------------------------
(* Properties                                                              *)

\* A request is synthesised and answered once, and once more only for each time
\* the bus delivered it once too often: the acknowledgement comes before the
\* task, so no crash and no failing call repeats an answer. (A malformed one is
\* answered before it is acknowledged and may be answered again; a Ready whose
\* publish raised although it was stored is followed by a Failed.)
OneAnswer == \A r \in WellFormed : answers[r] <= 1 + again[r] + doubled[r]

\* Every request is answered in the end, whatever goes wrong with its
\* synthesis, unless a stop or a crash or a failing bus took the answer, or its
\* options are such that the task raises before it begins: nobody answers that.
RequestIsAnswered == \A r \in Request : <>(Unfit(r) \/ answers[r] > 0 \/ r \in lost)
=============================================================================
