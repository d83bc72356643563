--------------------------- MODULE AgentSessions ---------------------------
(***************************************************************************)
(* The session registry of ClaudeCodeMCPEndpoint: SessionRegistry claims a *)
(* session on its first message by a task in the session's task group;     *)
(* the task registers it, sleeps, and unregisters it when the stream       *)
(* closes. A failed push and stop() unregister sessions behind its back.   *)
(***************************************************************************)
CONSTANTS Session  \* values of mcp-session-id

VARIABLES
  open,      \* sessions whose stream is open
  claimed,   \* _spawned_for
  task,      \* the claim task: "none", "scheduled", "sleeping", "cancelled"
  sessions,  \* _sessions of the endpoint
  started,
  muted      \* sessions taken off it by a push or by stop() since their claim
             \* (history)

vars == <<open, claimed, task, sessions, started, muted>>

Init ==
  /\ open = {} /\ claimed = {} /\ sessions = {} /\ muted = {}
  /\ task = [s \in Session |-> "none"]
  /\ started = TRUE

Connect(s) ==
  /\ s \notin open
  /\ open' = open \cup {s}
  /\ UNCHANGED <<claimed, task, sessions, started, muted>>

\* on_message: between taking the lock and releasing it nothing awaits.
Message(s) ==
  /\ s \in open /\ s \notin claimed
  /\ claimed' = claimed \cup {s}
  /\ task' = [task EXCEPT ![s] = "scheduled"]
  /\ UNCHANGED <<open, sessions, started, muted>>

\* _claim_session up to sleep_forever.
ClaimRuns(s) ==
  /\ task[s] = "scheduled"
  /\ task' = [task EXCEPT ![s] = "sleeping"]
  /\ sessions' = sessions \cup {s}
  /\ UNCHANGED <<open, claimed, started, muted>>

\* The stream closes and its task group is cancelled. A task that has not run
\* yet is still entered, registers, and is cancelled at its first await.
Close(s) ==
  /\ s \in open
  /\ open' = open \ {s}
  /\ task' = [task EXCEPT ![s] = IF @ = "none" THEN "none" ELSE "cancelled"]
  /\ UNCHANGED <<claimed, sessions, started, muted>>

\* Mutant: the id stays claimed.
ClaimEndsForgetful(s) ==
  /\ task[s] = "cancelled"
  /\ task' = [task EXCEPT ![s] = "none"]
  /\ sessions' = sessions \ {s}
  /\ muted' = muted \ {s}
  /\ UNCHANGED <<open, claimed, started>>

\* The finally of _claim_session.
ClaimEnds(s) ==
  /\ task[s] = "cancelled"
  /\ task' = [task EXCEPT ![s] = "none"]
  /\ sessions' = sessions \ {s}
  /\ claimed' = claimed \ {s}
  /\ muted' = muted \ {s}
  /\ UNCHANGED <<open, started>>

\* A push raises (_fire_after_debounce, _notify_tools_list_changed).
PushFails(s) ==
  /\ s \in sessions
  /\ sessions' = sessions \ {s}
  /\ muted' = muted \cup {s}
  /\ UNCHANGED <<open, claimed, task, started>>

\* stop() of a supervisor restart: the streams stay open.
Stop ==
  /\ started
  /\ started' = FALSE /\ sessions' = {}
  /\ muted' = muted \cup sessions
  /\ UNCHANGED <<open, claimed, task>>

Start ==
  /\ ~started
  /\ started' = TRUE
  /\ UNCHANGED <<open, claimed, task, sessions, muted>>

Next ==
  \/ Stop \/ Start
  \/ \E s \in Session :
       \/ Connect(s) \/ Message(s) \/ ClaimRuns(s) \/ Close(s) \/ ClaimEnds(s) \/ PushFails(s)

Spec == Init /\ [][Next]_vars

\* An id stays claimed exactly as long as a task will give it back, and such a
\* task is waiting only on an open stream: closing the stream always frees the
\* id. While the task waits its session is pushed to unless a push to it failed
\* or stop() took it off; then the claim keeps it from being registered again,
\* whatever it sends, until its stream closes.
ClaimIsHeld ==
  \A s \in Session :
    /\ s \in claimed <=> task[s] # "none"
    /\ task[s] \in {"scheduled", "sleeping"} => s \in open
    /\ s \in sessions => task[s] \in {"sleeping", "cancelled"}
    /\ task[s] = "sleeping" => (s \in sessions <=> s \notin muted)
=============================================================================
