---------------------------- MODULE AgentMailbox ----------------------------
(***************************************************************************)
(* ClaudeCodeMCPEndpoint as one agent sees it: the pickup queue, the tools *)
(* that empty it one awaited ack at a time, the debounced wake, the        *)
(* NotificationBroker queue behind /notify and the channel relay at its    *)
(* other end. The bus is its promise (Mailbox): it delivers what is owed,  *)
(* and what it had in hand may be delivered after it was settled.          *)
(*                                                                         *)
(* A wake says "go and look" and nothing else, so announcing mail and      *)
(* seeing it are different things.                                         *)
(***************************************************************************)
EXTENDS Naturals, FiniteSets

CONSTANTS
  Mail,      \* ids of the envelopes sent to the agent
  Rank,      \* Rank[e]: _URGENCY_RANK of e, 0 for red, 1 yellow, 2 green
  Callers,   \* tool calls that may be under way at once
  QueueMax,  \* queue_max of the broker
  MaxDisturbances  \* bound on nacks, failing calls, broken streams, restarts,
                   \* crashes and missing acknowledgments taken together

ASSUME AgentMailboxAssumption ==
  /\ Rank \in [Mail -> 0..2]
  /\ QueueMax \in Nat \ {0}
  /\ MaxDisturbances \in Nat

VARIABLES
  row,       \* state of each envelope's row on the bus
  listed,    \* envelopes a task of the bus is about to deliver
  pending,   \* _pending
  call,      \* the tool calls in progress
  started,   \* _handle is set
  attached,  \* _sessions is not empty
  wake,      \* _debounce_task: "idle", "waiting" or "pushing"
  relay,     \* where the channel relay is
  inbox,     \* events in the relay's queue at the broker
  news,      \* arrivals since the last announcement: "none", "due", "cancelled"
  overdue,   \* a missing acknowledgment the agent was not told of
  known,     \* envelopes the agent was told of
  cutOff,    \* acked, and still in the queue when the process ended
  used       \* disturbances so far

bus      == <<row, listed>>
timer    == <<wake, news>>
sidecar  == <<relay, inbox>>
monitors == <<known, cutOff>>
vars == <<bus, pending, call, started, attached, timer, sidecar, overdue, monitors, used>>

NoCall == [tool |-> "none", ids |-> {}, todo |-> {}]

Disturbed == used < MaxDisturbances /\ used' = used + 1

Init ==
  /\ row = [e \in Mail |-> "none"] /\ listed = {}
  /\ pending = {}
  /\ call = [c \in Callers |-> NoCall]
  /\ started = TRUE /\ attached = FALSE
  /\ wake = "idle" /\ news = "none"
  /\ relay = "off" /\ inbox = 0
  /\ overdue = FALSE
  /\ known = {} /\ cutOff = {}
  /\ used = 0

----------------------------------------------------------------------------
(* The wake                                                                *)

\* Mutant: returns for any task that is not done, one that is pushing too.
RearmUnlessBusy == wake' = IF wake = "idle" THEN "waiting" ELSE wake

\* _notify_mail_arrived: a task that is waiting goes on waiting or is replaced
\* by one with an earlier deadline (WakeTimer has the deadlines); a task that
\* is pushing has no deadline any more and is cancelled and replaced.
Rearm == wake' = "waiting"

NotifyMailArrived == Rearm /\ news' = "due"

Subscribed == relay # "off"

\* broker.publish: a full queue drops the event.
Publish == inbox' = IF Subscribed /\ inbox < QueueMax THEN inbox + 1 ELSE inbox

\* _fire_after_debounce up to the first push to a session.
DebounceElapses ==
  /\ wake = "waiting"
  /\ Publish
  /\ news' = "none"
  /\ wake' = IF attached THEN "pushing" ELSE "idle"
  /\ UNCHANGED <<bus, pending, call, started, attached, relay, overdue, monitors, used>>

\* send_message returns: the agent has its wake.
PushReturns ==
  /\ wake = "pushing"
  /\ wake' = "idle" /\ overdue' = FALSE
  /\ UNCHANGED <<bus, pending, call, started, attached, news, sidecar, monitors, used>>

\* It raises: the session is unregistered.
PushFails ==
  /\ wake = "pushing"
  /\ wake' = "idle" /\ attached' = FALSE
  /\ UNCHANGED <<bus, pending, call, started, news, sidecar, overdue, monitors, used>>

\* A missing-ack timer fired for an outbound that is still registered.
MissingAckOutbound ==
  /\ Disturbed
  /\ overdue' = TRUE
  /\ NotifyMailArrived
  /\ UNCHANGED <<bus, pending, call, started, attached, sidecar, monitors>>

----------------------------------------------------------------------------
(* The bus                                                                 *)

Accept(e) ==
  /\ row[e] = "none"
  /\ row' = [row EXCEPT ![e] = "owed"]
  /\ UNCHANGED <<listed, pending, call, started, attached, timer, sidecar, overdue, monitors, used>>

List(e) ==
  /\ row[e] = "owed" /\ e \notin listed
  /\ listed' = listed \cup {e}
  /\ UNCHANGED <<row, pending, call, started, attached, timer, sidecar, overdue, monitors, used>>

\* A dead letter, or expired.
GiveUp(e) ==
  /\ row[e] = "owed"
  /\ row' = [row EXCEPT ![e] = "dropped"]
  /\ UNCHANGED <<listed, pending, call, started, attached, timer, sidecar, overdue, monitors, used>>

\* Mutant: queue_for_pickup's test for a duplicate made at the top of deliver().
DeliverOnlyNew(e) ==
  /\ e \in listed
  /\ listed' = listed \ {e}
  /\ IF e \in pending
     THEN UNCHANGED <<pending, wake, news>>
     ELSE pending' = pending \cup {e} /\ NotifyMailArrived
  /\ UNCHANGED <<row, call, started, attached, sidecar, overdue, monitors, used>>

\* deliver() of mail that is no routine ack: queue_for_pickup, which passes
\* over an envelope that is queued already, and the wake. Returning and raising
\* EndpointUnavailable both leave the row owed.
Deliver(e) ==
  /\ e \in listed
  /\ listed' = listed \ {e}
  /\ pending' = pending \cup {e}
  /\ NotifyMailArrived
  /\ UNCHANGED <<row, call, started, attached, sidecar, overdue, monitors, used>>

----------------------------------------------------------------------------
(* The tools                                                               *)

Begin(c, tool, ids) ==
  /\ started
  /\ call[c] = NoCall
  /\ call' = [call EXCEPT ![c] = [tool |-> tool, ids |-> ids, todo |-> ids]]

\* The first items of the queue in presentation order: red before yellow
\* before green. max_items may cut the list anywhere.
Presented(ids) == \A e \in ids, f \in pending \ ids : Rank[e] <= Rank[f]

\* list_pending, peek, or consume(auto_ack=False).
ListPending ==
  /\ known' = known \cup pending
  /\ UNCHANGED <<bus, pending, call, started, attached, timer, sidecar, overdue, cutOff, used>>

\* Mutant: takes the items out of the queue before they are acked.
ConsumeDroppingFirst(c) ==
  /\ \E ids \in SUBSET pending \ {{}} :
       Presented(ids) /\ Begin(c, "consume", ids) /\ pending' = pending \ ids
  /\ UNCHANGED <<bus, started, attached, timer, sidecar, overdue, monitors, used>>

Consume(c) ==
  /\ \E ids \in SUBSET pending \ {{}} : Presented(ids) /\ Begin(c, "consume", ids)
  /\ UNCHANGED <<bus, pending, started, attached, timer, sidecar, overdue, monitors, used>>

\* handle, ack and nack take any id the agent has come to know.
Settle(c) ==
  /\ \E e \in known, tool \in {"ack", "nack"} :
       /\ Begin(c, tool, {e})
       /\ IF tool = "nack" THEN Disturbed ELSE used' = used
  /\ UNCHANGED <<bus, pending, started, attached, timer, sidecar, overdue, monitors>>

\* reply() publishes first. Whether an inbound that has left the queue is still
\* among the recent ones, or reply() raises, is left open.
Reply(c) ==
  /\ \E e \in known : Begin(c, "publishing", {e})
  /\ UNCHANGED <<bus, pending, started, attached, timer, sidecar, overdue, monitors, used>>

\* handle.publish returns, the ack comes next.
ReplyPublished(c) ==
  /\ call[c].tool = "publishing"
  /\ call' = [call EXCEPT ![c].tool = "reply"]
  /\ UNCHANGED <<bus, pending, started, attached, timer, sidecar, overdue, monitors, used>>

\* One await of handle.ack or handle.nack: no look at the row's state.
AckOne(c) ==
  /\ call[c].tool \in {"consume", "ack", "nack", "reply"}
  /\ \E e \in call[c].todo :
       /\ row' = [row EXCEPT ![e] = IF call[c].tool = "nack" THEN "owed" ELSE "settled"]
       /\ call' = [call EXCEPT ![c].todo = @ \ {e}]
  /\ UNCHANGED <<listed, pending, started, attached, timer, sidecar, overdue, monitors, used>>

\* publish, ack or nack raises: the call ends with an error and the queue is
\* as it was, whatever was acked before.
CallFails(c) ==
  /\ call[c] # NoCall /\ call[c].todo # {}
  /\ Disturbed
  /\ call' = [call EXCEPT ![c] = NoCall]
  /\ UNCHANGED <<bus, pending, started, attached, timer, sidecar, overdue, monitors>>

Done(c) == call[c].tool \in {"consume", "ack", "nack", "reply"} /\ call[c].todo = {}

\* All acked: the queue is filtered, and the agent gets its answer.
CallReturns(c) ==
  /\ Done(c)
  /\ pending' = pending \ call[c].ids
  /\ known' = known \cup call[c].ids
  /\ call' = [call EXCEPT ![c] = NoCall]
  /\ UNCHANGED <<bus, started, attached, timer, sidecar, overdue, cutOff, used>>

----------------------------------------------------------------------------
(* The relay: sse_client and process_wake_event                            *)

\* broker.subscribe comes before the snapshot is taken.
Subscribe ==
  /\ relay = "off"
  /\ relay' = "subscribed"
  /\ UNCHANGED <<bus, pending, call, started, attached, timer, inbox, overdue, monitors, used>>

\* The snapshot is the stream's first event, and as good as a wake.
ReadSnapshot ==
  /\ relay = "subscribed"
  /\ relay' = "looking"
  /\ UNCHANGED <<bus, pending, call, started, attached, timer, inbox, overdue, monitors, used>>

ReadEvent ==
  /\ relay = "idle" /\ inbox > 0
  /\ relay' = "looking" /\ inbox' = inbox - 1
  /\ UNCHANGED <<bus, pending, call, started, attached, timer, overdue, monitors, used>>

\* consume_no_ack answers with a queue that is not empty: the agent is
\* notified, with the envelopes inline or with a bare wake.
Look ==
  /\ relay = "looking" /\ started /\ pending # {}
  /\ relay' = "idle"
  /\ known' = known \cup pending /\ overdue' = FALSE
  /\ UNCHANGED <<bus, pending, call, started, attached, timer, inbox, cutOff, used>>

\* Nothing is pending: the wake is taken for a phantom and suppressed.
LookAtNothing ==
  /\ relay = "looking" /\ started /\ pending = {}
  /\ relay' = "idle"
  /\ UNCHANGED <<bus, pending, call, started, attached, timer, inbox, overdue, monitors, used>>

\* consume_no_ack raises (at a stopped endpoint it must): a bare wake, on
\* which the agent is to look for itself.
LookFails ==
  /\ relay = "looking"
  /\ IF started THEN Disturbed ELSE used' = used
  /\ relay' = "idle"
  /\ known' = known \cup pending /\ overdue' = FALSE
  /\ UNCHANGED <<bus, pending, call, started, attached, timer, inbox, cutOff>>

\* The stream breaks: unsubscribe, and the events in the queue are gone.
Disconnect ==
  /\ Subscribed /\ Disturbed
  /\ relay' = "off" /\ inbox' = 0
  /\ UNCHANGED <<bus, pending, call, started, attached, timer, overdue, monitors>>

----------------------------------------------------------------------------
(* Sessions, restarts, crashes                                             *)

Attach ==
  /\ ~attached /\ started
  /\ attached' = TRUE
  /\ UNCHANGED <<bus, pending, call, started, timer, sidecar, overdue, monitors, used>>

Detach ==
  /\ attached
  /\ attached' = FALSE
  /\ UNCHANGED <<bus, pending, call, started, timer, sidecar, overdue, monitors, used>>

\* stop(): the wake is cancelled, the queue is kept.
Stop ==
  /\ started /\ Disturbed
  /\ started' = FALSE /\ attached' = FALSE
  /\ wake' = "idle"
  /\ news' = IF news = "due" THEN "cancelled" ELSE news
  /\ UNCHANGED <<bus, pending, call, sidecar, overdue, monitors>>

Start ==
  /\ ~started
  /\ started' = TRUE
  /\ UNCHANGED <<bus, pending, call, attached, timer, sidecar, overdue, monitors, used>>

\* The process ends: rows remain.
Crash ==
  /\ Disturbed
  /\ cutOff' = cutOff \cup {e \in pending : row[e] = "settled"}
  /\ listed' = {} /\ pending' = {}
  /\ call' = [c \in Callers |-> NoCall]
  /\ started' = FALSE /\ attached' = FALSE
  /\ wake' = "idle" /\ news' = "none"
  /\ relay' = "off" /\ inbox' = 0 /\ overdue' = FALSE
  /\ UNCHANGED <<row, known>>

----------------------------------------------------------------------------
BusStep == \E e \in Mail : Accept(e) \/ List(e) \/ GiveUp(e) \/ Deliver(e)

WakeStep == DebounceElapses \/ PushReturns \/ PushFails \/ MissingAckOutbound

CallStep(c) == ReplyPublished(c) \/ AckOne(c) \/ CallReturns(c)

ToolStep == \E c \in Callers : Consume(c) \/ Settle(c) \/ Reply(c) \/ CallFails(c) \/ CallStep(c)

RelayStep == Subscribe \/ ReadSnapshot \/ ReadEvent \/ Look \/ LookAtNothing \/ LookFails

Environment == Disconnect \/ Attach \/ Detach \/ Stop \/ Start \/ Crash

Next == BusStep \/ WakeStep \/ ListPending \/ ToolStep \/ RelayStep \/ Environment

Spec == Init /\ [][Next]_vars

\* The bus redelivers what is owed, time passes, calls that are under way go
\* on, the relay reconnects and reads, and a stopped endpoint is started again.
\* A push may hang for ever; no agent need ever call a tool.
Fairness ==
  /\ \A e \in Mail : WF_vars(List(e)) /\ WF_vars(Deliver(e))
  /\ WF_vars(DebounceElapses)
  /\ \A c \in Callers : WF_vars(CallStep(c))
  /\ WF_vars(RelayStep)
  /\ WF_vars(Start)

FairSpec == Spec /\ Fairness

----------------------------------------------------------------------------
(* Properties                                                              *)

Calls == [tool : {"none", "consume", "ack", "nack", "publishing", "reply"},
          ids : SUBSET Mail, todo : SUBSET Mail]

\* Every variable has its type.
TypeOK ==
  /\ row \in [Mail -> {"none", "owed", "dropped", "settled"}]
  /\ listed \subseteq Mail /\ pending \subseteq Mail
  /\ call \in [Callers -> Calls]
  /\ started \in BOOLEAN /\ attached \in BOOLEAN /\ overdue \in BOOLEAN
  /\ wake \in {"idle", "waiting", "pushing"}
  /\ news \in {"none", "due", "cancelled"}
  /\ relay \in {"off", "subscribed", "looking", "idle"}
  /\ inbox \in 0..QueueMax
  /\ known \subseteq Mail /\ cutOff \subseteq Mail
  /\ used \in Nat

\* An arrival is owed a wake that is still to come, unless stop() cancelled it;
\* and a relay that is connected, has read all its events and is at rest has
\* shown the agent everything that was announced, although its queue drops
\* events when it is full (_notify_mail_arrived, NotificationBroker.publish).
NothingUnannounced ==
  /\ news = "due" => wake = "waiting"
  /\ relay = "idle" /\ inbox = 0 /\ news = "none" => pending \subseteq known

\* No silent loss: an envelope that is settled on the bus is still in the
\* queue, or the agent was given it, or the process ended while consume() had
\* acked but not returned it (the order in consume(), "ack everything FIRST").
SettledIsSeen ==
  \A e \in Mail : row[e] = "settled" => e \in pending \cup known \cup cutOff

\* Mail that is queued and owed is brought to the agent's notice, through
\* restarts, cancelled wakes, dropped events and broken streams, also while a
\* push to a session hangs. (Mail that a failing consume() acked is the agent's
\* to ask for again: the bus does not deliver it a second time.)
QueuedIsNoticed ==
  \A e \in Mail :
    (e \in pending /\ row[e] = "owed") ~> (e \in known \/ e \notin pending \/ row[e] # "owed")

\* What the endpoint tells the agent of itself ("You see only failures ... and
\* missing-ack timeouts"): a timeout reaches the agent.
TimeoutIsNoticed == overdue ~> ~overdue
=============================================================================
