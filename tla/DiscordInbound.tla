--------------------------- MODULE DiscordInbound ---------------------------
(***************************************************************************)
(* The Discord endpoint's way in: on_message puts the ack reaction on a    *)
(* message, publishes it to the agent and shows that the agent is typing.  *)
(* The reaction comes off when the agent has replied, when there are too   *)
(* many of them, or when it is too old.                                    *)
(*                                                                         *)
(* Left out: attachments and their transcription, which can only make the  *)
(* handler wait, the handlers that only publish an event, and the caches   *)
(* from which a reply's channel is found.                                  *)
(***************************************************************************)
EXTENDS Naturals, Sequences, SequencesExt, FiniteSets

CONSTANTS
  Message,
  MaxAcks,         \* pending_acks_max
  MaxDisturbances  \* bound: stops, crashes and calls of Discord or the bus that fail

VARIABLES
  hand,      \* where on_message is
  eyes,      \* messages that carry the ack reaction
  tracked,   \* _pending_acks, the oldest first
  removing,  \* reactions being taken off
  awaiting,  \* _awaiting_reply_ids
  typing,    \* messages with a typing loop
  left,      \* reactions a failure, a stop or a crash leaves behind
  up,
  used       \* disturbances so far

vars == <<hand, eyes, tracked, removing, awaiting, typing, left, up, used>>

Disturbed == used < MaxDisturbances /\ used' = used + 1

Init ==
  /\ hand = [m \in Message |-> "new"]
  /\ eyes = {} /\ tracked = <<>> /\ removing = {}
  /\ awaiting = {} /\ typing = {} /\ left = {}
  /\ up = TRUE /\ used = 0

----------------------------------------------------------------------------
(* on_message                                                              *)

\* gate_message lets it pass; with no ack reaction in the access file the
\* handler goes on at once.
Receive(m, reacts) ==
  /\ up /\ hand[m] = "new"
  /\ hand' = [hand EXCEPT ![m] = IF reacts THEN "reacting" ELSE "reading"]
  /\ UNCHANGED <<eyes, tracked, removing, awaiting, typing, left, up, used>>

\* Mutant: what is evicted is forgotten, on Discord it stays.
TrackForgetting(m) ==
  /\ tracked' = LET t == Append(tracked, m) IN IF Len(t) > MaxAcks THEN Tail(t) ELSE t
  /\ UNCHANGED <<awaiting, removing, left>>

\* _track_pending_ack: the oldest is evicted, and its reaction taken off by a
\* task of the handle; with no handle that fails.
Track(m) ==
  LET t == Append(tracked, m) IN
  IF Len(t) <= MaxAcks
  THEN tracked' = t /\ UNCHANGED <<awaiting, removing, left>>
  ELSE /\ tracked' = Tail(t)
       /\ awaiting' = awaiting \ {Head(t)}
       /\ IF up THEN removing' = removing \cup {Head(t)} /\ UNCHANGED left
                ELSE left' = left \cup {Head(t)} /\ UNCHANGED removing

\* Discord shows the reaction before add_reaction() returns.
ReactionShows(m) ==
  /\ hand[m] = "reacting" /\ m \notin eyes
  /\ eyes' = eyes \cup {m}
  /\ UNCHANGED <<hand, tracked, removing, awaiting, typing, left, up, used>>

Reacted(m) ==
  /\ hand[m] = "reacting" /\ m \in eyes
  /\ hand' = [hand EXCEPT ![m] = IF up \/ Len(tracked) < MaxAcks THEN "reading" ELSE "done"]
  /\ Track(m)
  /\ UNCHANGED <<eyes, typing, up, used>>

\* add_reaction() raises: not tracked, shown or not.
ReactionFails(m) ==
  /\ hand[m] = "reacting" /\ Disturbed
  /\ hand' = [hand EXCEPT ![m] = "reading"]
  /\ left' = left \cup (eyes \cap {m})
  /\ UNCHANGED <<eyes, tracked, removing, awaiting, typing, up>>

\* The attachments are in; publish() begins. Without a handle the handler ends.
Publish(m) ==
  /\ hand[m] = "reading"
  /\ hand' = [hand EXCEPT ![m] = IF up THEN "publishing" ELSE "done"]
  /\ awaiting' = IF up THEN awaiting \cup {m} ELSE awaiting
  /\ UNCHANGED <<eyes, tracked, removing, typing, left, up, used>>

Published(m) ==
  /\ hand[m] = "publishing" /\ up
  /\ hand' = [hand EXCEPT ![m] = "done"]
  /\ typing' = typing \cup {m}
  /\ UNCHANGED <<eyes, tracked, removing, awaiting, left, up, used>>

\* publish() raises, or the spawn finds no handle.
PublishFails(m) ==
  /\ hand[m] = "publishing"
  /\ IF up THEN Disturbed ELSE used' = used
  /\ hand' = [hand EXCEPT ![m] = "done"]
  /\ awaiting' = awaiting \ {m}
  /\ UNCHANGED <<eyes, tracked, removing, typing, left, up>>

----------------------------------------------------------------------------
(* How a reaction comes off                                                *)

\* _clear_pending_ack, after a reply to m went out: the agent has the message
\* from the moment it is being published.
Replied(m) ==
  /\ up /\ hand[m] \in {"publishing", "done"}
  /\ awaiting' = awaiting \ {m}
  /\ IF m \in ToSet(tracked)
     THEN /\ \E i \in DOMAIN tracked : tracked[i] = m /\ tracked' = RemoveAt(tracked, i)
          /\ removing' = removing \cup {m}
     ELSE UNCHANGED <<tracked, removing>>
  /\ UNCHANGED <<hand, eyes, typing, left, up, used>>

\* _sweep_pending_acks_once: the oldest is too old.
Expire ==
  /\ up /\ tracked # <<>>
  /\ tracked' = Tail(tracked)
  /\ awaiting' = awaiting \ {Head(tracked)}
  /\ removing' = removing \cup {Head(tracked)}
  /\ UNCHANGED <<hand, eyes, typing, left, up, used>>

Removed(m) ==
  /\ m \in removing
  /\ removing' = removing \ {m}
  /\ eyes' = eyes \ {m}
  /\ UNCHANGED <<hand, tracked, awaiting, typing, left, up, used>>

\* The failure is swallowed and the message no longer tracked.
RemovalFails(m) ==
  /\ m \in removing /\ Disturbed
  /\ removing' = removing \ {m}
  /\ left' = left \cup {m}
  /\ UNCHANGED <<hand, eyes, tracked, awaiting, typing, up>>

----------------------------------------------------------------------------
(* _typing_while_pending                                                   *)

TypingEnds(m) ==
  /\ m \in typing /\ m \notin awaiting
  /\ typing' = typing \ {m}
  /\ UNCHANGED <<hand, eyes, tracked, removing, awaiting, left, up, used>>

\* _TYPING_TTL_SECONDS have passed.
TypingExpires(m) ==
  /\ m \in typing /\ m \in awaiting
  /\ typing' = typing \ {m}
  /\ awaiting' = awaiting \ {m}
  /\ UNCHANGED <<hand, eyes, tracked, removing, left, up, used>>

----------------------------------------------------------------------------
(* Stop, start, crash                                                      *)

\* The tasks of the handle are cancelled; the reactions stay tracked.
Stop ==
  /\ up /\ Disturbed
  /\ up' = FALSE
  /\ awaiting' = {} /\ typing' = {}
  /\ left' = left \cup removing /\ removing' = {}
  /\ UNCHANGED <<hand, eyes, tracked>>

\* The gateway is ready within 30 s and the sweeps run; a start that fails is
\* rolled back to what stop() leaves.
Start ==
  /\ ~up
  /\ up' = TRUE
  /\ UNCHANGED <<hand, eyes, tracked, removing, awaiting, typing, left, used>>

Crash ==
  /\ Disturbed
  /\ up' = FALSE
  /\ hand' = [m \in Message |-> IF hand[m] = "new" THEN "new" ELSE "done"]
  /\ left' = left \cup eyes
  /\ tracked' = <<>> /\ removing' = {} /\ awaiting' = {} /\ typing' = {}
  /\ UNCHANGED eyes

OnMessage(m) ==
  \/ \E reacts \in BOOLEAN : Receive(m, reacts)
  \/ ReactionShows(m) \/ Reacted(m) \/ ReactionFails(m)
  \/ Publish(m) \/ Published(m) \/ PublishFails(m)

Step(m) ==
  \/ OnMessage(m)
  \/ Replied(m) \/ Removed(m) \/ RemovalFails(m)
  \/ TypingEnds(m) \/ TypingExpires(m)

Next == Expire \/ Stop \/ Start \/ Crash \/ \E m \in Message : Step(m)

Spec == Init /\ [][Next]_vars

----------------------------------------------------------------------------
(* Properties                                                              *)

\* A reaction on a message is one the endpoint still knows of: it is being put
\* on, tracked or being taken off; only a call that failed, a stop or a crash
\* leaves one behind, however many messages come in and however they overlap.
NoEyesLeft ==
  eyes \subseteq ToSet(tracked) \cup removing \cup left \cup {m \in Message : hand[m] = "reacting"}
=============================================================================
