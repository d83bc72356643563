------------------------------ MODULE Mailbox ------------------------------
(***************************************************************************)
(* What the bus promises about an accepted envelope, whatever its tasks    *)
(* do: delivery is at least once, so an envelope may be tried again and    *)
(* even come back after it was settled, but only while somebody (a task    *)
(* that listed it, or the endpoint that received it) still has it in its   *)
(* custody.  Custody begins only while the envelope is owed.  Out of       *)
(* custody, a settled envelope changes by the operator's hand alone.       *)
(***************************************************************************)
EXTENDS Naturals

CONSTANT Envs

VARIABLES
  status,    \* status[e]: "absent", "owed", a settled state or "purged"
  attempts,  \* attempts[e]: deliveries begun since it was accepted or replayed
  held       \* the envelopes in somebody's custody

vars == <<status, attempts, held>>

Settled == {"acked", "dead_letter", "expired"}
Known   == {"owed"} \cup Settled

TypeOK ==
  /\ status \in [Envs -> {"absent", "purged"} \cup Known]
  /\ attempts \in [Envs -> Nat]
  /\ held \subseteq Envs

Init ==
  /\ status = [e \in Envs |-> "absent"]
  /\ attempts = [e \in Envs |-> 0]
  /\ held = {}

\* Custody may be dropped at any time and begins only on what is owed.
Custody == held' \subseteq held \cup {e \in Envs : status[e] = "owed"}

Becomes(e, s, n) == /\ status' = [status EXCEPT ![e] = s]
                    /\ attempts' = [attempts EXCEPT ![e] = n]

Accept(e) == /\ status[e] = "absent"
             /\ Becomes(e, "owed", 0)
             /\ held' \subseteq held \cup {e}

\* Whoever has custody may begin a delivery, settle it or put it back.
Attempt(e) == /\ e \in held /\ status[e] \in Known
              /\ Becomes(e, "owed", attempts[e] + 1)
              /\ Custody

Settle(e, s) == /\ e \in held /\ status[e] \in Known
                /\ Becomes(e, s, attempts[e])
                /\ Custody

PutBack(e) == /\ e \in held /\ status[e] \in Known
              /\ Becomes(e, "owed", attempts[e])
              /\ Custody

\* The operator replays or purges dead letters.
Replay(e) == /\ status[e] = "dead_letter"
             /\ Becomes(e, "owed", 0)
             /\ Custody

Purge(old) == /\ \A e \in old : status[e] = "dead_letter"
              /\ status' = [e \in Envs |-> IF e \in old THEN "purged" ELSE status[e]]
              /\ attempts' = [e \in Envs |-> IF e \in old THEN 0 ELSE attempts[e]]
              /\ Custody

HandOver == Custody /\ UNCHANGED <<status, attempts>>

Next ==
  \/ \E e \in Envs : \/ Accept(e) \/ Attempt(e) \/ PutBack(e) \/ Replay(e)
                     \/ \E s \in Settled : Settle(e, s)
  \/ \E old \in SUBSET Envs : Purge(old)
  \/ HandOver

Spec == Init /\ [][Next]_vars
=============================================================================
