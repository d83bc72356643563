-------------------------- MODULE DiscordOutbound --------------------------
(***************************************************************************)
(* The Discord endpoint's way out: deliver() turns an envelope into posts, *)
(* part by part, with retries of its own, tells the sender the outcome in  *)
(* an Acknowledgment and acknowledges the envelope. The bus delivers again *)
(* what is unavailable, and what stays in flight too long, even while the  *)
(* first delivery is still on its way.                                     *)
(*                                                                         *)
(* A post whose answer is lost may have been made. What a part, an embed   *)
(* or a tool's arguments say is left out.                                  *)
(***************************************************************************)
EXTENDS Naturals, Sequences

CONSTANTS
  Envelope,
  Parts,          \* posts an envelope is split into (smart_chunk_discord)
  Refusable,      \* envelopes whose shape, tool or arguments are not accepted
  MaxTries,       \* tries of one post (DISCORD_SEND_MAX_ATTEMPTS)
  MaxDeliveries,  \* max_delivery_attempts of the bus
  MaxDisturbances \* bound: stops, crashes, lost answers, stale deliveries, failed acks

VARIABLES
  row,     \* the envelope's row in the bus
  run,     \* its deliveries, in order
  posted,  \* how often Discord has made each post
  told,    \* notes sent to the senders
  odd,     \* envelopes whose posts nobody can know, or that run twice
  up,      \* _handle is set
  used     \* disturbances so far

vars == <<row, run, posted, told, odd, up, used>>

Part == 1..Parts

Disturbed == used < MaxDisturbances /\ used' = used + 1

Running(e) == {d \in DOMAIN run[e] : run[e][d].at # "done"}

\* Delivery d of e, and no other, becomes r.
Becomes(e, d, r) == run' = [run EXCEPT ![e] = [run[e] EXCEPT ![d] = r]]

Ends(e, d) == Becomes(e, d, [run[e][d] EXCEPT !.at = "done"])

Init ==
  /\ row = [e \in Envelope |-> "pending"]
  /\ run = [e \in Envelope |-> <<>>]
  /\ posted = [e \in Envelope |-> [i \in Part |-> 0]]
  /\ told = {} /\ odd = {}
  /\ up = TRUE /\ used = 0

----------------------------------------------------------------------------
(* The bus                                                                 *)

Requeued(e) == IF Len(run[e]) < MaxDeliveries THEN "pending" ELSE "dead"

\* An endpoint that is not started raises EndpointUnavailable at once.
Deliver(e) ==
  /\ row[e] = "pending"
  /\ LET d == [at |-> IF up THEN "posting" ELSE "unavailable", part |-> 1, try |-> 1, note |-> ""]
     IN run' = [run EXCEPT ![e] = Append(run[e], d)]
  /\ row' = [row EXCEPT ![e] = "in_flight"]
  /\ UNCHANGED <<posted, told, odd, up, used>>

\* deliver() has raised EndpointUnavailable.
Unavailable(e, d) ==
  /\ run[e][d].at = "unavailable"
  /\ row' = [row EXCEPT ![e] = Requeued(e)]
  /\ Ends(e, d)
  /\ UNCHANGED <<posted, told, odd, up, used>>

\* The redelivery sweep: more than redelivery_timeout_seconds in flight.
Stale(e) ==
  /\ row[e] = "in_flight"
  /\ IF Running(e) = {} THEN used' = used ELSE Disturbed
  /\ odd' = odd \cup {e}
  /\ row' = [row EXCEPT ![e] = Requeued(e)]
  /\ UNCHANGED <<run, posted, told, up>>

----------------------------------------------------------------------------
(* The posts                                                               *)

\* An unrecognized shape, an unknown tool, no channel, a bad argument.
Refuse(e, d) ==
  /\ run[e][d].at = "posting" /\ run[e][d].part = 1 /\ run[e][d].try = 1
  /\ e \in Refusable
  /\ Becomes(e, d, [run[e][d] EXCEPT !.at = "replying", !.note = "error"])
  /\ UNCHANGED <<row, posted, told, odd, up, used>>

\* The next part, or, after the last one, the note that all was sent.
NextPart(r) ==
  IF r.part < Parts THEN [r EXCEPT !.part = r.part + 1, !.try = 1]
                    ELSE [r EXCEPT !.at = "replying", !.note = "sent"]

\* Discord makes the post.
Made(e, i) == posted' = [posted EXCEPT ![e] = [posted[e] EXCEPT ![i] = posted[e][i] + 1]]

Post(e, d) ==
  /\ run[e][d].at = "posting" /\ e \notin Refusable
  /\ Made(e, run[e][d].part)
  /\ Becomes(e, d, NextPart(run[e][d]))
  /\ UNCHANGED <<row, told, odd, up, used>>

\* Mutant: a transient error is handed to the bus whatever has been posted.
GiveUpUnavailable(r, transient) ==
  IF transient THEN [r EXCEPT !.at = "unavailable"]
  ELSE [r EXCEPT !.at = "replying", !.note = IF r.part > 1 THEN "partial" ELSE "error"]

\* With parts posted the note is "partial" and nothing is redelivered; with
\* none, a transient error is handed to the bus.
GiveUp(r, transient) ==
  IF r.part > 1 THEN [r EXCEPT !.at = "replying", !.note = "partial"]
  ELSE IF transient THEN [r EXCEPT !.at = "unavailable"]
  ELSE [r EXCEPT !.at = "replying", !.note = "error"]

\* 429, 5xx, 408, a timeout or a reset connection are tried again.
AfterTransient(r) == IF r.try < MaxTries THEN [r EXCEPT !.try = r.try + 1] ELSE GiveUp(r, TRUE)

PostFails(e, d, transient) ==
  /\ run[e][d].at = "posting" /\ e \notin Refusable
  /\ Becomes(e, d, IF transient THEN AfterTransient(run[e][d]) ELSE GiveUp(run[e][d], FALSE))
  /\ UNCHANGED <<row, posted, told, odd, up, used>>

\* Discord has made the post and the answer is lost.
AnswerLost(e, d) ==
  /\ run[e][d].at = "posting" /\ e \notin Refusable
  /\ Disturbed
  /\ Made(e, run[e][d].part)
  /\ odd' = odd \cup {e}
  /\ Becomes(e, d, AfterTransient(run[e][d]))
  /\ UNCHANGED <<row, told, up>>

----------------------------------------------------------------------------
(* The reply and the acknowledgment                                        *)

\* A publish that fails is logged.
Reply(e, d) ==
  /\ run[e][d].at = "replying" /\ up
  /\ told' \in {told, told \cup {[env |-> e, note |-> run[e][d].note]}}
  /\ Becomes(e, d, [run[e][d] EXCEPT !.at = "acking"])
  /\ UNCHANGED <<row, posted, odd, up, used>>

Ack(e, d) ==
  /\ run[e][d].at = "acking" /\ up
  /\ row' = [row EXCEPT ![e] = "acked"]
  /\ Ends(e, d)
  /\ UNCHANGED <<posted, told, odd, up, used>>

\* The handle is gone, or ack() raises: the bus dead-letters the envelope.
DeliverRaises(e, d) ==
  /\ run[e][d].at \in {"replying", "acking"}
  /\ IF up THEN run[e][d].at = "acking" /\ Disturbed ELSE used' = used
  /\ row' = [row EXCEPT ![e] = "dead"]
  /\ Ends(e, d)
  /\ UNCHANGED <<posted, told, odd, up>>

----------------------------------------------------------------------------
(* Stop, start, crash                                                      *)

\* Deliveries run on; their client is closed and their handle is gone.
Stop == up /\ Disturbed /\ up' = FALSE /\ UNCHANGED <<row, run, posted, told, odd>>

Start == ~up /\ up' = TRUE /\ UNCHANGED <<row, run, posted, told, odd, used>>

Crash ==
  /\ Disturbed
  /\ up' = FALSE
  /\ run' = [e \in Envelope |-> [d \in DOMAIN run[e] |-> [run[e][d] EXCEPT !.at = "done"]]]
  /\ odd' = odd \cup {e \in Envelope : Running(e) # {}}
  /\ UNCHANGED <<row, posted, told>>

DeliveryStep(e, d) ==
  \/ Unavailable(e, d) \/ Refuse(e, d) \/ Post(e, d) \/ AnswerLost(e, d)
  \/ Reply(e, d) \/ Ack(e, d) \/ DeliverRaises(e, d)
  \/ \E transient \in BOOLEAN : PostFails(e, d, transient)

Next ==
  \/ Stop \/ Start \/ Crash
  \/ \E e \in Envelope : Deliver(e) \/ Stale(e) \/ \E d \in DOMAIN run[e] : DeliveryStep(e, d)

Spec == Init /\ [][Next]_vars

----------------------------------------------------------------------------
(* Properties                                                              *)

\* Between the retries of the endpoint and the redelivery of the bus nothing is
\* posted twice, unless an answer was lost or a delivery was cut off or doubled.
PostedOnce == \A e \in Envelope \ odd, i \in Part : posted[e][i] <= 1

\* The note the sender gets is true: "sent" means every part is in the channel,
\* "partial" that the first is and the last is not, "error" that none is.
NoteIsTrue ==
  \A t \in told :
    /\ t.note = "sent" => \A i \in Part : posted[t.env][i] > 0
    /\ t.note = "partial" => posted[t.env][1] > 0
    /\ t.note = "partial" /\ t.env \notin odd => posted[t.env][Parts] = 0
    /\ t.note = "error" /\ t.env \notin odd => \A i \in Part : posted[t.env][i] = 0

\* Both, of the same posts.
PostsAreRight == PostedOnce /\ NoteIsTrue
=============================================================================
