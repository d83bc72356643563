----------------------------- MODULE AgentSide -----------------------------
(***************************************************************************)
(* The parts of an agent's side that share no variable with its mailbox:   *)
(* the registry of outbounds with its timers, the debounce of wakes, the   *)
(* registry of sessions, and the relay's rendering. Each is a specification*)
(* of its own; here they are put side by side, so that one module can      *)
(* state, check and prove what is claimed of them.                         *)
(***************************************************************************)
EXTENDS Naturals

CONSTANTS
  \* Outbounds
  MaxTracked, MaxSent, MaxStops,
  \* WakeTimer
  Urgency, Delay,
  \* AgentSessions
  Session,
  \* Channel
  Envelope, Sender, Size, Failure, Plain, Layers, Default, Capacity,
  MaxQueued, MaxShown, MaxMishaps

VARIABLES
  phase, sent, awaiting, tracked, stale, timers, acking, answered, failed, alarmed, stops,
  task, left, promised,
  open, claimed, claimTask, sessions, up, muted,
  channel, config, queue, snapshot, tracker, counts, heard, mishaps

\* A cap on the registry and on the tracker, and a delay for each urgency, one of
\* them the longest.
ASSUME AgentSideAssumption ==
  /\ MaxTracked \in Nat /\ Capacity \in Nat
  /\ Delay \in [Urgency -> Nat]
  /\ \E u \in Urgency : \A v \in Urgency : Delay[v] <= Delay[u]

O == INSTANCE Outbounds
W == INSTANCE WakeTimer
S == INSTANCE AgentSessions WITH task <- claimTask, started <- up
C == INSTANCE Channel WITH relay <- channel, used <- mishaps

outboundsVars ==
  <<phase, sent, awaiting, tracked, stale, timers, acking, answered, failed, alarmed, stops>>
timerVars == <<task, left, promised>>
sessionVars == <<open, claimed, claimTask, sessions, up, muted>>
channelVars == <<channel, config, queue, snapshot, tracker, counts, heard, mishaps>>

----------------------------------------------------------------------------
(* Properties, each stated and explained in its component's module         *)

\* The agent is never woken for an outbound that was acknowledged or never
\* published: Outbounds.
NoFalseAlarm == O!NoFalseAlarm

\* Each arrival has its wake within its own delay: WakeTimer.
OnTime == W!OnTime

\* Closing its stream always frees a session's id; until then it is pushed to
\* unless a push failed or stop() took it off: AgentSessions.
ClaimIsHeld == S!ClaimIsHeld

\* A session is told what it was shown before: Channel.
ResendIsMarked == C!ResendIsMarked
=============================================================================
