----------------------------- MODULE Outbounds -----------------------------
(***************************************************************************)
(* The missing-ack registry of ClaudeCodeMCPEndpoint: _recent_outbound_ids *)
(* and _missing_ack_tasks. send() and reply() register an outbound and     *)
(* start its timer before they publish; an acknowledgment, a publish that  *)
(* fails, the TTL, the cap and stop() take it out again; a timer that ends *)
(* while its outbound is registered wakes the agent.                       *)
(***************************************************************************)
EXTENDS Naturals, FiniteSets

CONSTANTS
  MaxTracked,  \* max_tracked_outbounds
  MaxSent,     \* bound: envelopes the agent sends
  MaxStops     \* bound: how often the endpoint is stopped

VARIABLES
  phase,    \* the endpoint: "up", "stopping" (stop() awaits the timers), "down"
  sent,     \* ids 1..sent were made, in this order: uuid4, never used again
  awaiting, \* outbounds whose publish is under way
  tracked,  \* _recent_outbound_ids
  stale,    \* those of tracked that are older than the TTL
  timers,   \* _missing_ack_tasks that sleep
  acking,   \* outbounds whose routine ack is being acked by deliver()
  answered, \* outbounds that were acknowledged
  failed,   \* outbounds whose publish raised
  alarmed,  \* outbounds whose timer woke the agent
  stops

registry == <<tracked, stale, timers>>
vars == <<phase, sent, awaiting, registry, acking, answered, failed, alarmed, stops>>

Sent == 1..sent

Init ==
  /\ phase = "up" /\ sent = 0 /\ awaiting = {}
  /\ tracked = {} /\ stale = {} /\ timers = {}
  /\ acking = {} /\ answered = {} /\ failed = {} /\ alarmed = {}
  /\ stops = 0

\* What the registry holds afterwards: outbounds kept, and perhaps a new one.
\* Whatever is evicted loses its timer.
Retain(kept, new) ==
  /\ tracked' = kept \cup new
  /\ timers' = (timers \ (tracked \ kept)) \cup new
  /\ stale' = {}

\* _evict_stale_outbounds: first by age, then the oldest beyond the cap.
Kept == LET fresh == tracked \ stale
        IN {o \in fresh : Cardinality({p \in fresh : p > o}) < MaxTracked}

\* _recent_outbound_ids.pop and _cancel_missing_ack.
Release(o) ==
  /\ tracked' = tracked \ {o}
  /\ stale' = stale \ {o}
  /\ timers' = timers \ {o}

\* _register_outbound_sent, then handle.publish.
Send ==
  /\ phase # "down" /\ sent < MaxSent
  /\ sent' = sent + 1
  /\ Retain(Kept, {sent + 1})
  /\ awaiting' = awaiting \cup {sent + 1}
  /\ UNCHANGED <<phase, acking, answered, failed, alarmed, stops>>

\* Mutant: registers after the publish, when the ack may have come already.
PublishReturnsRegistering(o) ==
  /\ o \in awaiting
  /\ awaiting' = awaiting \ {o}
  /\ Retain(Kept, {o})
  /\ UNCHANGED <<phase, sent, acking, answered, failed, alarmed, stops>>

PublishReturns(o) ==
  /\ o \in awaiting
  /\ awaiting' = awaiting \ {o}
  /\ UNCHANGED <<phase, sent, registry, acking, answered, failed, alarmed, stops>>

PublishRaises(o) ==
  /\ o \in awaiting
  /\ awaiting' = awaiting \ {o}
  /\ failed' = failed \cup {o}
  /\ Release(o)
  /\ UNCHANGED <<phase, sent, acking, answered, alarmed, stops>>

\* deliver() of a routine green ack, up to its await. The recipient may have
\* the envelope before publish returns, and also when publish raised.
RoutineAckArrives(o) ==
  /\ o \in Sent \ acking /\ phase # "down"
  /\ Retain(Kept, {})
  /\ acking' = acking \cup {o}
  /\ UNCHANGED <<phase, sent, awaiting, answered, failed, alarmed, stops>>

\* handle.ack returned. The await may have outlived a stop().
RoutineAckDone(o) ==
  /\ o \in acking
  /\ acking' = acking \ {o}
  /\ answered' = answered \cup {o}
  /\ Release(o)
  /\ UNCHANGED <<phase, sent, awaiting, failed, alarmed, stops>>

\* Any other delivery, also to a stopped endpoint, where a routine ack raises.
OtherDelivery ==
  /\ tracked # {}
  /\ Retain(Kept, {})
  /\ UNCHANGED <<phase, sent, awaiting, acking, answered, failed, alarmed, stops>>

\* The agent settled an acknowledgment that was queued for it (an error, say):
\* _release_outbound_registry_for_ack_envelope.
QueuedAckSettled(o) ==
  /\ o \in Sent \ answered
  /\ answered' = answered \cup {o}
  /\ Release(o)
  /\ UNCHANGED <<phase, sent, awaiting, acking, failed, alarmed, stops>>

\* _fire, then _missing_ack_outbound: a wake, if the outbound is registered.
TimerFires(o) ==
  /\ o \in timers
  /\ timers' = timers \ {o}
  /\ tracked' = tracked \ {o} /\ stale' = stale \ {o}
  /\ alarmed' = alarmed \cup (tracked \cap {o})
  /\ UNCHANGED <<phase, sent, awaiting, acking, answered, failed, stops>>

\* The TTL passes.
Age(o) ==
  /\ o \in tracked \ stale
  /\ stale' = stale \cup {o}
  /\ UNCHANGED <<phase, sent, awaiting, tracked, timers, acking, answered, failed, alarmed, stops>>

\* stop() cancels the timers and awaits them; _handle is still set.
StopBegin ==
  /\ phase = "up" /\ stops < MaxStops
  /\ phase' = "stopping" /\ stops' = stops + 1
  /\ timers' = {}
  /\ UNCHANGED <<sent, awaiting, tracked, stale, acking, answered, failed, alarmed>>

\* The registry is cleared. The timer of an outbound that was registered
\* during the await keeps running.
StopEnd ==
  /\ phase = "stopping"
  /\ phase' = "down"
  /\ tracked' = {} /\ stale' = {}
  /\ UNCHANGED <<sent, awaiting, timers, acking, answered, failed, alarmed, stops>>

Start ==
  /\ phase = "down"
  /\ phase' = "up"
  /\ UNCHANGED <<sent, awaiting, registry, acking, answered, failed, alarmed, stops>>

Next ==
  \/ Send \/ OtherDelivery \/ StopBegin \/ StopEnd \/ Start
  \/ \E o \in Sent :
       \/ PublishReturns(o) \/ PublishRaises(o)
       \/ RoutineAckArrives(o) \/ RoutineAckDone(o) \/ QueuedAckSettled(o)
       \/ TimerFires(o) \/ Age(o)

Spec == Init /\ [][Next]_vars

----------------------------------------------------------------------------
(* Properties                                                              *)

\* Every variable has its type.
TypeOK ==
  /\ phase \in {"up", "stopping", "down"}
  /\ sent \in Nat /\ stops \in Nat
  /\ awaiting \subseteq Sent /\ tracked \subseteq Sent /\ timers \subseteq Sent
  /\ stale \subseteq tracked
  /\ acking \subseteq Sent /\ answered \subseteq Sent
  /\ failed \subseteq Sent /\ alarmed \subseteq Sent

\* No outbound is watched for ever: whatever is registered has a timer that
\* runs, but for the moment in which stop() has cancelled them; and sends that
\* are never acknowledged do not fill the registry beyond the cap and the one
\* that was just added (_evict_stale_outbounds runs before the insertion).
TrackedIsWatched ==
  /\ phase # "stopping" => tracked \subseteq timers
  /\ Cardinality(tracked) <= MaxTracked + 1

\* No phantom wake: the agent is never woken for an outbound that was already
\* acknowledged, or that was never published (send() registers before it
\* publishes for this reason).
NoFalseAlarm == [][\A o \in alarmed' \ alarmed : o \notin answered \cup failed]_vars
=============================================================================
