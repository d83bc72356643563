----------------------------- MODULE WakeTimer -----------------------------
(***************************************************************************)
(* The debounce of ClaudeCodeMCPEndpoint._notify_mail_arrived: arrivals of *)
(* different urgency share one timer. Times are counted down from now, in  *)
(* a unit that keeps the order of the delays.                              *)
(***************************************************************************)
EXTENDS Naturals

CONSTANTS
  Urgency,  \* "red", "yellow", "green"
  Delay     \* _notify_debounce_seconds_by_urgency

VARIABLES
  task,     \* _debounce_task: "none", "sleeping", "pushing"
  left,     \* what is left until _debounce_deadline
  promised  \* what is left until the earliest wake an arrival was promised

vars == <<task, left, promised>>

\* No arrival waits: later than any delay.
Never == 1 + CHOOSE d \in {Delay[u] : u \in Urgency} : \A u \in Urgency : Delay[u] <= d

Least(a, b) == IF a < b THEN a ELSE b

Init == task = "none" /\ left = 0 /\ promised = Never

\* Mutant: every arrival starts the delay anew.
KeepsNever(u) == FALSE

\* The task sleeps and its deadline is no later: return early.
Keeps(u) == task = "sleeping" /\ Delay[u] >= left

\* _notify_mail_arrived; a task that sleeps or pushes is cancelled otherwise.
Arrive(u) ==
  /\ promised' = Least(promised, Delay[u])
  /\ IF Keeps(u)
     THEN UNCHANGED <<task, left>>
     ELSE task' = "sleeping" /\ left' = Delay[u]

\* Time passes; the loop runs a timer that is due before time goes on.
Tick ==
  /\ task = "sleeping" /\ left > 0
  /\ left' = left - 1
  /\ promised' = IF promised = Never THEN Never ELSE promised - 1
  /\ UNCHANGED task

\* _fire_after_debounce publishes and goes on to push to the sessions.
Fire ==
  /\ task = "sleeping" /\ left = 0
  /\ task' \in {"pushing", "none"} /\ promised' = Never
  /\ UNCHANGED left

Pushed ==
  /\ task = "pushing"
  /\ task' = "none"
  /\ UNCHANGED <<left, promised>>

\* stop() cancels the task and forgets the deadline.
Stop ==
  /\ task' = "none" /\ left' = 0 /\ promised' = Never

Next == (\E u \in Urgency : Arrive(u)) \/ Tick \/ Fire \/ Pushed \/ Stop

Spec == Init /\ [][Next]_vars

\* A less urgent arrival never delays an urgent wake, and a burst of arrivals
\* does not postpone it: each arrival has its wake within its own delay.
OnTime == promised # Never => task = "sleeping" /\ left <= promised
=============================================================================
