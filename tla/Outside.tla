------------------------------ MODULE Outside ------------------------------
(***************************************************************************)
(* The parts between the bus and the outside, where something is handed    *)
(* over once: webhooks coming in, Discord in both directions, and the      *)
(* splitting of a text. They share no variable; here they are put side by  *)
(* side, so that one module can state, check and prove what is claimed of  *)
(* them.                                                                   *)
(***************************************************************************)
EXTENDS Naturals

CONSTANTS
  \* Inbound
  Event, DedupeCapacity, RateLimit, Window, MaxTime, MaxLog,
  \* DiscordOutbound
  Envelope, PostParts, Refusable, MaxTries, MaxDeliveries, OutboundDisturbances,
  \* DiscordInbound
  Message, MaxAcks, InboundDisturbances,
  \* Chunking
  Glyph, MaxText, ChunkTarget, TailSearch, HardLimit, Fence, MaxChunks

VARIABLES
  now, file, rules, mtime, open, seen, stamps, log,
  row, run, posted, told, doubtful, sending, outboundUsed,
  hand, eyes, tracked, removing, awaiting, typing, left, receiving, inboundUsed,
  text, pos, parts, outcome

\* The caps of a deduper, a rate limit and its window, at least one part, and a
\* window for the cuts that something fits into.
ASSUME OutsideAssumption ==
  /\ DedupeCapacity \in Nat /\ RateLimit \in Nat /\ Window \in Nat
  /\ PostParts \in Nat \ {0}
  /\ MaxText \in Nat /\ ChunkTarget \in Nat \ {0} /\ TailSearch \in Nat /\ Fence \in Nat

I == INSTANCE Inbound WITH
  Capacity <- DedupeCapacity, Limit <- RateLimit, up <- open

O == INSTANCE DiscordOutbound WITH
  Parts <- PostParts, MaxDisturbances <- OutboundDisturbances,
  odd <- doubtful, up <- sending, used <- outboundUsed

D == INSTANCE DiscordInbound WITH
  MaxDisturbances <- InboundDisturbances, up <- receiving, used <- inboundUsed

C == INSTANCE Chunking WITH Limit <- ChunkTarget

inboundVars == <<now, file, rules, mtime, open, seen, stamps, log>>
outboundVars == <<row, run, posted, told, doubtful, sending, outboundUsed>>
messageVars ==
  <<hand, eyes, tracked, removing, awaiting, typing, left, receiving, inboundUsed>>
textVars == <<text, pos, parts, outcome>>

----------------------------------------------------------------------------
(* Properties, each stated and explained in its component's module         *)

\* An event is handed on once, and no more of them than the limit: Inbound.
AdmittedRightly == I!AdmittedRightly

\* Posts are made once and the sender is told the truth: DiscordOutbound.
PostsAreRight == O!PostsAreRight

\* No reaction stays on a message that is over: DiscordInbound.
NoEyesLeft == D!NoEyesLeft

\* The parts of a text are the text: Chunking.
NothingLost == C!NothingLost
=============================================================================
