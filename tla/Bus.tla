-------------------------------- MODULE Bus --------------------------------
(***************************************************************************)
(* The in-process message bus of packages/core/src/agent_core/bus: the     *)
(* durable mailbox (persistence.py), publishing and fan-out, dispatch, the *)
(* boot drain, the redelivery and TTL sweeps, endpoint ack / nack, the     *)
(* operator's replay and purge, and crashes and restarts of the daemon.    *)
(*                                                                         *)
(* All tasks run on one asyncio loop, so the code between two awaits is    *)
(* atomic and every await is a point where another task may run.  Each     *)
(* Persistence method is one SQLite statement and one step here; what a    *)
(* task read before an await is kept in plan, todo and attempt.            *)
(*                                                                         *)
(* Wall-clock comparisons are abstracted to what they decide: a row's      *)
(* deadline has lapsed or not, its backoff is due or not, its expiry is    *)
(* past or not, and the environment lets time pass row by row.             *)
(***************************************************************************)
EXTENDS Naturals, FiniteSets

CONSTANTS
  Envs,         \* envelope ids, numbered in the order of created_at
  To,           \* To[e]: the endpoint name in envelope.to
  Endpoints,    \* names registered on the bus
  Publishers,   \* tasks of endpoints that call BusHandle.publish
  Expiring,     \* envelopes published with an expires_at
  Poison,       \* envelopes on which a pre_deliver hook always raises
  MaxAttempts,  \* BusConfig.max_delivery_attempts
  MaxPending,   \* BusConfig.max_pending_per_endpoint
  Limit         \* Limit[k]: how often the environment may do k

Loops == {"sweep", "drain", "ttl"}
Tasks == Publishers \cup Loops

\* What the environment does only a bounded number of times.
Kinds == {"crash", "stop", "restart", "fault", "nack", "replay"}

ASSUME BusAssumption ==
  /\ Envs \subseteq Nat
  /\ Publishers \cap Loops = {}
  /\ Expiring \subseteq Envs
  /\ Poison \subseteq Envs
  /\ MaxAttempts \in Nat \ {0}
  /\ MaxPending \in Nat \ {0}
  /\ Limit \in [Kinds -> Nat]

VARIABLES
  phase,    \* "down", "booting", "up" or "stopping": where the daemon is
  row,      \* row[e]: the row of the envelopes table, the durable state
  pc,       \* pc[t]: the await task t is at
  plan,     \* plan[t]: envelopes in the list t is working through
  todo,     \* todo[t]: recipients to check, or endpoints to visit
  attempt,  \* attempt[t]: the delivery_count t last read
  inbox,    \* envelopes that an endpoint, or the agent behind it, may settle
  used      \* used[k]: how often k has happened

locals == <<pc, plan, todo, attempt>>
vars == <<phase, row, pc, plan, todo, attempt, inbox, used>>

Stored  == {"pending", "in_flight", "acked", "dead_letter", "expired"}
Owed    == {"pending", "in_flight"}

Rows == [state : {"absent", "purged"} \cup Stored,
         count : Nat,                        \* delivery_count
         ifu   : {"null", "set", "lapsed"},  \* in_flight_until
         nat   : {"null", "set", "due"},     \* next_attempt_at
         ttl   : {"none", "open", "past"}]   \* expires_at

NoRow == [state |-> "absent", count |-> 0, ifu |-> "null", nat |-> "null",
          ttl |-> "none"]

----------------------------------------------------------------------------
(* The store: Persistence.  An UPDATE of a row that is gone changes        *)
(* nothing, and no UPDATE but reset_for_replay looks at the state.         *)

Present(e) == row[e].state \in Stored

Store(e, r) == row' = IF Present(e) THEN [row EXCEPT ![e] = r] ELSE row

Insert(e) == row' = [row EXCEPT ![e] =
  [NoRow EXCEPT !.state = "pending", !.ttl = IF e \in Expiring THEN "open" ELSE "none"]]

MarkInFlight(e) == Store(e, [row[e] EXCEPT !.state = "in_flight",
                                           !.count = @ + 1, !.ifu = "set"])

MarkAcked(e)      == Store(e, [row[e] EXCEPT !.state = "acked"])
MarkDeadLetter(e) == Store(e, [row[e] EXCEPT !.state = "dead_letter"])
Expire(e)         == Store(e, [row[e] EXCEPT !.state = "expired"])

Requeue(e) == Store(e, [row[e] EXCEPT !.state = "pending", !.ifu = "null",
                                      !.nat = "null"])

RequeueWithBackoff(e) == Store(e, [row[e] EXCEPT !.state = "pending",
                                      !.ifu = "null", !.nat = "set"])

\* Mutant: list_pending without its condition on the state.
PendingInAnyState(ep) == {e \in Envs : Present(e) /\ To[e] = ep}

Pending(ep) == {e \in Envs : row[e].state = "pending" /\ To[e] = ep}

\* Mutant: without "next_attempt_at IS NULL OR".
DueByTimerOnly(ep) == {e \in Pending(ep) : row[e].nat = "due"}

DueNow(ep)  == {e \in Pending(ep) : row[e].nat \in {"null", "due"}}
Stale       == {e \in Envs : row[e].state = "in_flight" /\ row[e].ifu = "lapsed"}
Expired     == {e \in Envs : row[e].state \in Owed /\ row[e].ttl = "past"}

----------------------------------------------------------------------------
(* Tasks.  A task works through its list in the order of created_at.       *)

Current(t, e) == e \in plan[t] /\ \A f \in plan[t] : e <= f

\* The envelopes some task is awaiting endpoint.deliver() for.
Delivering == {e \in Envs : \E t \in Tasks : pc[t] = "deliver" /\ Current(t, e)}

Goto(t, where) == pc' = [pc EXCEPT ![t] = where]

\* Next envelope of the list, or back to where the list came from.
Advance(t, e, again, done) ==
  /\ plan' = [plan EXCEPT ![t] = @ \ {e}]
  /\ Goto(t, IF plan[t] = {e} THEN done ELSE again)

\* A list has been read: work through it, or do without.
Begin(t, list, first, done) ==
  /\ plan' = [plan EXCEPT ![t] = list]
  /\ Goto(t, IF list = {} THEN done ELSE first)

AgainFor(t) == IF t \in Publishers THEN "insert" ELSE "dispatch"
DoneFor(t)  == IF t \in Publishers THEN "idle" ELSE "visit"

Spend(k) == /\ used[k] < Limit[k]
            /\ used' = [used EXCEPT ![k] = @ + 1]

Init ==
  /\ phase = "down"
  /\ row = [e \in Envs |-> NoRow]
  /\ pc = [t \in Tasks |-> "idle"]
  /\ plan = [t \in Tasks |-> {}]
  /\ todo = [t \in Tasks |-> {}]
  /\ attempt = [t \in Tasks |-> 0]
  /\ inbox = {}
  /\ used = [k \in Kinds |-> 0]

----------------------------------------------------------------------------
(* Publishing: Bus._enqueue.                                               *)

Unused == {e \in Envs : row[e].state = "absent"}
          \ UNION {plan[p] : p \in Publishers}

\* A publish gets past the pre_publish hooks with one fresh id per recipient.
Publish(p, batch) ==
  /\ phase # "down"
  /\ pc[p] = "idle"
  /\ batch # {} /\ batch \subseteq Unused
  /\ plan' = [plan EXCEPT ![p] = batch]
  /\ todo' = [todo EXCEPT ![p] = {To[e] : e \in batch}]
  /\ Goto(p, "check")
  /\ UNCHANGED <<phase, row, attempt, inbox, used>>

\* Mutant: the recipient is not looked up.
AcceptsAnyName(r) == Cardinality(Pending(r)) < MaxPending

\* One recipient is validated: registered, and count_pending below the cap.
Accepts(r) == r \in Endpoints /\ Cardinality(Pending(r)) < MaxPending

CheckRecipient(p, r) ==
  /\ pc[p] = "check"
  /\ r \in todo[p]
  /\ IF Accepts(r)
       THEN /\ todo' = [todo EXCEPT ![p] = @ \ {r}]
            /\ Goto(p, IF todo[p] = {r} THEN "insert" ELSE "check")
            /\ UNCHANGED plan
       ELSE /\ todo' = [todo EXCEPT ![p] = {}]   \* ValueError or MailboxFull
            /\ plan' = [plan EXCEPT ![p] = {}]
            /\ Goto(p, "idle")
  /\ UNCHANGED <<phase, row, attempt, inbox, used>>

InsertRow(p, e) ==
  /\ pc[p] = "insert"
  /\ Current(p, e)
  /\ Insert(e)
  /\ Goto(p, "dispatch")
  /\ UNCHANGED <<phase, plan, todo, attempt, inbox, used>>

----------------------------------------------------------------------------
(* Dispatching one envelope: Bus._dispatch, on behalf of any task.         *)

\* The pre_deliver hooks let it through and the row goes in flight.
DispatchMark(t, e) ==
  /\ pc[t] = "dispatch" /\ Current(t, e) /\ e \notin Poison
  /\ MarkInFlight(e)
  /\ Goto(t, "deliver")
  /\ UNCHANGED <<phase, plan, todo, attempt, inbox, used>>

\* A pre_deliver hook drops it.
DispatchDrop(t, e) ==
  /\ pc[t] = "dispatch" /\ Current(t, e) /\ e \notin Poison
  /\ MarkDeadLetter(e)
  /\ Advance(t, e, AgainFor(t), DoneFor(t))
  /\ UNCHANGED <<phase, todo, attempt, inbox, used>>

\* deliver() returns.
DeliverOk(t, e) ==
  /\ pc[t] = "deliver" /\ Current(t, e)
  /\ Advance(t, e, AgainFor(t), DoneFor(t))
  /\ UNCHANGED <<phase, row, todo, attempt, inbox, used>>

\* deliver() raises EndpointUnavailable and the bus reads the row back.
DeliverUnavailable(t, e) ==
  /\ pc[t] = "deliver" /\ Current(t, e)
  /\ IF Present(e)
       THEN /\ attempt' = [attempt EXCEPT ![t] = row[e].count]
            /\ Goto(t, "settle")
            /\ UNCHANGED plan
       ELSE /\ Advance(t, e, AgainFor(t), DoneFor(t))
            /\ UNCHANGED attempt
  /\ UNCHANGED <<phase, row, todo, inbox, used>>

\* deliver() raises anything else.
DeliverError(t, e) ==
  /\ pc[t] = "deliver" /\ Current(t, e)
  /\ MarkDeadLetter(e)
  /\ Advance(t, e, AgainFor(t), DoneFor(t))
  /\ UNCHANGED <<phase, todo, attempt, inbox, used>>

\* Mutant: one attempt too many.
ExhaustedOneLate(t) == attempt[t] > MaxAttempts

\* Give up or retry later, by the count read one await ago.
Exhausted(t) == attempt[t] >= MaxAttempts

DeadLetterOrBackoff(t, e) ==
  IF Exhausted(t) THEN MarkDeadLetter(e) ELSE RequeueWithBackoff(e)

Settle(t, e) ==
  /\ pc[t] = "settle" /\ Current(t, e)
  /\ DeadLetterOrBackoff(t, e)
  /\ attempt' = [attempt EXCEPT ![t] = 0]
  /\ Advance(t, e, AgainFor(t), DoneFor(t))
  /\ UNCHANGED <<phase, todo, inbox, used>>

----------------------------------------------------------------------------
(* The redelivery loop: Bus.run_redelivery_sweep_once, then the            *)
(* supervisor's tick in the same task, then sleep.                         *)

SweepBegin ==
  /\ phase = "up"
  /\ pc["sweep"] = "idle" /\ pc["drain"] = "idle"
  /\ Begin("sweep", Stale, "stale", "visit")
  /\ todo' = [todo EXCEPT !["sweep"] = Endpoints]
  /\ UNCHANGED <<phase, row, attempt, inbox, used>>

\* Part 1: a stale in-flight row is read back ...
StaleRead(e) ==
  /\ pc["sweep"] = "stale" /\ Current("sweep", e)
  /\ IF Present(e)
       THEN /\ attempt' = [attempt EXCEPT !["sweep"] = row[e].count]
            /\ Goto("sweep", "stale_settle")
            /\ UNCHANGED plan
       ELSE /\ Advance("sweep", e, "stale", "visit")
            /\ UNCHANGED attempt
  /\ UNCHANGED <<phase, row, todo, inbox, used>>

\* ... and given up or requeued with backoff.
StaleSettle(e) ==
  /\ pc["sweep"] = "stale_settle" /\ Current("sweep", e)
  /\ DeadLetterOrBackoff("sweep", e)
  /\ attempt' = [attempt EXCEPT !["sweep"] = 0]
  /\ Advance("sweep", e, "stale", "visit")
  /\ UNCHANGED <<phase, todo, inbox, used>>

\* Part 2: the envelopes of one endpoint whose backoff has elapsed.
SweepVisit(ep) ==
  /\ pc["sweep"] = "visit" /\ ep \in todo["sweep"]
  /\ todo' = [todo EXCEPT !["sweep"] = @ \ {ep}]
  /\ Begin("sweep", DueNow(ep), "dispatch", "visit")
  /\ UNCHANGED <<phase, row, attempt, inbox, used>>

\* The sweep returns; the tick finds the endpoints in due to be restarted.
SweepEnd(due) ==
  /\ pc["sweep"] = "visit" /\ todo["sweep"] = {}
  /\ IF due = {} THEN UNCHANGED used ELSE Spend("restart")
  /\ todo' = [todo EXCEPT !["drain"] = due]
  /\ pc' = [pc EXCEPT !["sweep"] = "idle",
                      !["drain"] = IF due = {} THEN "idle" ELSE "visit"]
  /\ UNCHANGED <<phase, row, plan, attempt, inbox>>

----------------------------------------------------------------------------
(* Bus.start, Bus._restart_endpoint and Bus.drain_for: endpoints are       *)
(* (re)started one after the other and their mailboxes drained.            *)

\* A new process opens the store.
Boot ==
  /\ phase = "down"
  /\ phase' = "booting"
  /\ Goto("drain", "visit")
  /\ todo' = [todo EXCEPT !["drain"] = Endpoints]
  /\ UNCHANGED <<row, plan, attempt, inbox, used>>

\* Mutant: a mailbox is drained until it is empty.
LeftToVisitUntilEmpty(ep) ==
  IF Pending(ep) = {} THEN todo["drain"] \ {ep} ELSE todo["drain"]

\* Each endpoint is started once and its mailbox listed once.
LeftToVisit(ep) == todo["drain"] \ {ep}

\* One endpoint is started, or fails to and is left to the supervisor.  A
\* restart stops it first: that cancels its spawned tasks (gone) and may
\* empty its memory (lost).  drain_for ignores next_attempt_at.
StartEndpoint(ep, started, gone, lost) ==
  /\ pc["drain"] = "visit" /\ ep \in todo["drain"]
  /\ phase = "booting" => gone = {} /\ lost = {}
  /\ LET list == IF started THEN Pending(ep) ELSE {}
     IN /\ plan' = [t \in Tasks |-> IF t = "drain" THEN list
                                    ELSE IF t \in gone THEN {} ELSE plan[t]]
        /\ pc' = [t \in Tasks |-> IF t = "drain"
                                    THEN IF list = {} THEN "visit" ELSE "dispatch"
                                  ELSE IF t \in gone THEN "idle" ELSE pc[t]]
  /\ todo' = [t \in Tasks |-> IF t = "drain" THEN LeftToVisit(ep)
                              ELSE IF t \in gone THEN {} ELSE todo[t]]
  /\ attempt' = [t \in Tasks |-> IF t \in gone THEN 0 ELSE attempt[t]]
  /\ inbox' = inbox \ lost
  /\ UNCHANGED <<phase, row, used>>

Memories(ep) == {{}, {e \in inbox : To[e] = ep}}

\* The boot is complete and the loops start, or the tick is over.
DrainEnd ==
  /\ pc["drain"] = "visit" /\ todo["drain"] = {}
  /\ Goto("drain", "idle")
  /\ phase' = "up"
  /\ UNCHANGED <<row, plan, todo, attempt, inbox, used>>

----------------------------------------------------------------------------
(* The TTL loop: Bus.run_ttl_sweep_once.                                   *)

TtlBegin ==
  /\ phase = "up"
  /\ pc["ttl"] = "idle" /\ Expired # {}
  /\ Begin("ttl", Expired, "expire", "idle")
  /\ UNCHANGED <<phase, row, todo, attempt, inbox, used>>

TtlExpire(e) ==
  /\ pc["ttl"] = "expire" /\ Current("ttl", e)
  /\ Expire(e)
  /\ Advance("ttl", e, "expire", "idle")
  /\ UNCHANGED <<phase, todo, attempt, inbox, used>>

----------------------------------------------------------------------------
(* Endpoints keep what they are handed, whether deliver() then returns,    *)
(* raises or is cancelled, and settle it by Bus._ack and Bus._nack from    *)
(* within deliver() or later.  Neither asks whether the envelope has been  *)
(* settled before, and an agent outlives the daemon: what it has received  *)
(* it may settle twice, and after a restart.                               *)

Receive(e) ==
  /\ e \in Delivering \ inbox
  /\ inbox' = inbox \cup {e}
  /\ UNCHANGED <<phase, row, locals, used>>

Forget(some) == \E gone \in SUBSET some : inbox' = inbox \ gone

Ack(e) ==
  /\ phase # "down" /\ e \in inbox
  /\ MarkAcked(e)
  /\ Forget({e})
  /\ UNCHANGED <<phase, locals, used>>

Nack(e, requeue) ==
  /\ phase # "down" /\ e \in inbox
  /\ IF requeue THEN Requeue(e) /\ Spend("nack")
                ELSE MarkDeadLetter(e) /\ UNCHANGED used
  /\ Forget({e})
  /\ UNCHANGED <<phase, locals>>

----------------------------------------------------------------------------
(* Exceptions.  A poisoned hook raises every time; a store operation may   *)
(* fail (fault) without effect.  The exception ends a publish and a TTL    *)
(* sweep, ends the list of one endpoint in part 2 and in a drain, and      *)
(* skips one envelope in part 1.                                           *)

Raise(t) ==
  /\ \/ /\ pc[t] = "dispatch" /\ \E e \in Poison : Current(t, e)
        /\ UNCHANGED used
     \/ /\ pc[t] \notin {"idle", "visit"}
        /\ Spend("fault")
  /\ IF pc[t] \in {"stale", "stale_settle"}
       THEN /\ \E e \in plan[t] : Current(t, e) /\ Advance(t, e, "stale", "visit")
            /\ UNCHANGED todo
       ELSE /\ plan' = [plan EXCEPT ![t] = {}]
            /\ Goto(t, IF t \in {"sweep", "drain"} THEN "visit" ELSE "idle")
            /\ todo' = [todo EXCEPT ![t] = IF t \in Publishers THEN {} ELSE @]
  /\ attempt' = [attempt EXCEPT ![t] = 0]
  /\ UNCHANGED <<phase, row, inbox>>

----------------------------------------------------------------------------
(* Time, the operator's CLI, and the daemon's life.                        *)

\* in_flight_until, next_attempt_at or expires_at passes.
DeadlineLapses(e) ==
  /\ row[e].state = "in_flight" /\ row[e].ifu = "set"
  /\ row' = [row EXCEPT ![e].ifu = "lapsed"]
  /\ UNCHANGED <<phase, locals, inbox, used>>

BackoffElapses(e) ==
  /\ row[e].state = "pending" /\ row[e].nat = "set"
  /\ row' = [row EXCEPT ![e].nat = "due"]
  /\ UNCHANGED <<phase, locals, inbox, used>>

ExpiryPasses(e) ==
  /\ row[e].state \in Owed /\ row[e].ttl = "open"
  /\ row' = [row EXCEPT ![e].ttl = "past"]
  /\ UNCHANGED <<phase, locals, inbox, used>>

\* agent-core bus replay, in a process of its own.
ResetForReplay(e) ==
  /\ row[e].state = "dead_letter"
  /\ Spend("replay")
  /\ row' = [row EXCEPT ![e] = [NoRow EXCEPT !.state = "pending", !.ttl = row[e].ttl]]
  /\ UNCHANGED <<phase, locals, inbox>>

\* agent-core bus dlq purge: the dead letters older than a cutoff.
PurgeDlq(old) ==
  /\ old # {} /\ \A e \in old : row[e].state = "dead_letter"
  /\ row' = [e \in Envs |-> IF e \in old THEN [NoRow EXCEPT !.state = "purged"]
                                         ELSE row[e]]
  /\ UNCHANGED <<phase, locals, inbox, used>>

\* Every task is gone, and what the endpoints held in memory.
Vanish ==
  /\ phase' = "down"
  /\ pc' = [t \in Tasks |-> "idle"]
  /\ plan' = [t \in Tasks |-> {}]
  /\ todo' = [t \in Tasks |-> {}]
  /\ attempt' = [t \in Tasks |-> 0]
  /\ Forget(inbox)
  /\ UNCHANGED row

Crash == phase # "down" /\ Spend("crash") /\ Vanish

\* SIGTERM: the loops are cancelled at once, then bus.stop() ends the
\* endpoints and their tasks and closes the store.
Shutdown ==
  /\ phase = "up" /\ Spend("stop")
  /\ phase' = "stopping"
  /\ pc' = [t \in Tasks |-> IF t \in Loops THEN "idle" ELSE pc[t]]
  /\ plan' = [t \in Tasks |-> IF t \in Loops THEN {} ELSE plan[t]]
  /\ todo' = [t \in Tasks |-> IF t \in Loops THEN {} ELSE todo[t]]
  /\ attempt' = [t \in Tasks |-> IF t \in Loops THEN 0 ELSE attempt[t]]
  /\ UNCHANGED <<row, inbox>>

Close == phase = "stopping" /\ Vanish /\ UNCHANGED used

----------------------------------------------------------------------------
Dispatch(t, e) ==
  \/ DispatchMark(t, e) \/ DispatchDrop(t, e)
  \/ DeliverOk(t, e) \/ DeliverUnavailable(t, e) \/ DeliverError(t, e)
  \/ Settle(t, e)

PublisherStep(p) ==
  \/ \E r \in todo[p] : CheckRecipient(p, r)
  \/ \E e \in Envs : InsertRow(p, e) \/ Dispatch(p, e)

RedeliveryStep ==
  \/ SweepBegin
  \/ \E e \in Envs : StaleRead(e) \/ StaleSettle(e) \/ Dispatch("sweep", e)
  \/ \E ep \in Endpoints : SweepVisit(ep)
  \/ \E due \in SUBSET Endpoints : SweepEnd(due)

DrainStep ==
  \/ \E ep \in Endpoints : \E started \in BOOLEAN, gone \in SUBSET Publishers,
        lost \in Memories(ep) : StartEndpoint(ep, started, gone, lost)
  \/ \E e \in Envs : Dispatch("drain", e)
  \/ DrainEnd

TtlStep == TtlBegin \/ \E e \in Envs : TtlExpire(e)

EndpointStep ==
  \/ \E p \in Publishers : \E batch \in SUBSET Unused : Publish(p, batch)
  \/ \E e \in Envs : Receive(e) \/ Ack(e) \/ \E requeue \in BOOLEAN : Nack(e, requeue)

Clock(e) == DeadlineLapses(e) \/ BackoffElapses(e) \/ ExpiryPasses(e)

OperatorStep ==
  \/ \E e \in Envs : ResetForReplay(e)
  \/ \E old \in SUBSET Envs : PurgeDlq(old)

Next ==
  \/ \E p \in Publishers : PublisherStep(p)
  \/ RedeliveryStep
  \/ DrainStep
  \/ TtlStep
  \/ EndpointStep
  \/ \E t \in Tasks : Raise(t)
  \/ \E e \in Envs : Clock(e)
  \/ OperatorStep
  \/ Boot \/ Crash \/ Shutdown \/ Close

Spec == Init /\ [][Next]_vars

\* asyncio runs every ready task and deliver() returns, as its contract
\* says; time passes; a service manager boots the daemon again.  Nothing
\* makes a publisher publish or an endpoint ack.
Fairness ==
  /\ \A p \in Publishers : WF_vars(PublisherStep(p) \/ Raise(p))
  /\ WF_vars(RedeliveryStep \/ Raise("sweep"))
  /\ WF_vars(DrainStep \/ Raise("drain"))
  /\ WF_vars(TtlStep)
  /\ \A e \in Envs : WF_vars(DeadlineLapses(e)) /\ WF_vars(BackoffElapses(e))
  /\ WF_vars(Boot) /\ WF_vars(Close)

FairSpec == Spec /\ Fairness

----------------------------------------------------------------------------
(* Properties.                                                             *)

TypeOK ==
  /\ phase \in {"down", "booting", "up", "stopping"}
  /\ row \in [Envs -> Rows]
  /\ pc \in [Tasks -> {"idle", "check", "insert", "dispatch", "deliver",
                       "settle", "visit", "stale", "stale_settle", "expire"}]
  /\ plan \in [Tasks -> SUBSET Envs]
  /\ todo \in [Tasks -> SUBSET (Endpoints \cup {To[e] : e \in Envs})]
  /\ attempt \in [Tasks -> Nat]
  /\ inbox \in SUBSET Envs
  /\ used \in [Kinds -> Nat]

\* Every owed envelope stays within reach of the sweeps, through crashes,
\* failed store operations and races: it sits in the mailbox of a registered
\* endpoint, and if it is in flight it has a deadline that can lapse.
NothingStranded ==
  \A e \in Envs : row[e].state \in Owed =>
    /\ To[e] \in Endpoints
    /\ row[e].state = "in_flight" => row[e].ifu # "null"

\* Bus._dispatch and the sweep decide on a delivery_count read one await
\* earlier, and an envelope may be dispatched by its publisher and by the
\* loop at once; the count still passes max_delivery_attempts by one at
\* most, plus one for each nack(requeue=True), which has no limit.
AttemptsBounded ==
  \A e \in Envs : row[e].count <= MaxAttempts + 1 + used["nack"]

\* An endpoint may be in the middle of deliver() for one envelope twice (for
\* its publisher and for a loop), never three times.
AtMostTwoDeliveries ==
  \A e \in Envs : \A t, u, v \in Tasks :
    (\A w \in {t, u, v} : pc[w] = "deliver" /\ Current(w, e))
      => t = u \/ u = v \/ t = v

\* Neither the count nor the overlap of the deliveries of one envelope runs
\* away.
DeliveriesBounded == AttemptsBounded /\ AtMostTwoDeliveries

\* What Mailbox sees of the bus.
Status   == [e \in Envs |-> IF row[e].state \in Owed THEN "owed" ELSE row[e].state]
Attempts == [e \in Envs |-> row[e].count]
Custody  == {e \in Envs : Present(e) /\ (e \in inbox \/ \E t \in Tasks : e \in plan[t])}

Promise == INSTANCE Mailbox WITH status <- Status, attempts <- Attempts, held <- Custody

\* The bus keeps the promise of Mailbox: see there.
MailboxSpec == Promise!Spec

\* Every accepted envelope is settled at last, whatever its endpoint does,
\* unless a hook raises on an envelope of the same mailbox: that one keeps
\* the others behind it, but not those of other endpoints.
Blocked(e) == \E f \in Poison : To[f] = To[e]

EventuallySettled ==
  \A e \in Envs : ~Blocked(e) =>
    (row[e].state \in Owed ~> row[e].state \notin Owed)

\* The daemon comes up, whatever the mailboxes it drains hold.
BootCompletes == phase = "booting" ~> phase \in {"up", "down"}

----------------------------------------------------------------------------
(* What the documentation and comments claim and the code does not do.     *)

\* docs/reference/bus-config.md, max_delivery_attempts: "Maximum number of
\* delivery attempts per envelope."
NeverMoreThanMaxAttempts == \A e \in Envs : row[e].count <= MaxAttempts

\* Bus._enqueue: "This makes fan-out atomic: either all recipients are
\* accepted, or none."  A publish that ends has inserted all or nothing.
FanOutAtomic ==
  [][\A p \in Publishers :
       (pc[p] \in {"dispatch", "deliver", "settle"} /\ pc'[p] = "idle")
         => (phase' = "down" \/ \A e \in plan[p] : row[e].state # "absent")]_vars

=============================================================================
