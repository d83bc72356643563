------------------------------- MODULE MCBus -------------------------------
(***************************************************************************)
(* Small instances of the bus for TLC.                                     *)
(***************************************************************************)
EXTENDS Bus, TLC

CONSTANTS a, b, ghost, p1

\* Everything the environment may do a bounded number of times.
Limits(crash, stop, restart, fault, nack, replay) ==
  [k \in Kinds |-> CASE k = "crash" -> crash [] k = "stop" -> stop
                     [] k = "restart" -> restart [] k = "fault" -> fault
                     [] k = "nack" -> nack [] k = "replay" -> replay]

\* 1 goes to a and 2 to a name nobody registered.
GhostTo == (1 :> a) @@ (2 :> ghost)
\* Two envelopes in two mailboxes.
SplitTo == (1 :> a) @@ (2 :> b)

NoLimit   == Limits(0, 0, 0, 0, 0, 0)
FullLimit == Limits(1, 0, 1, 1, 1, 1)
LiveLimit == Limits(1, 1, 0, 1, 0, 0)
=============================================================================
