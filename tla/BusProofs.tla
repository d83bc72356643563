----------------------------- MODULE BusProofs -----------------------------
(***************************************************************************)
(* Proofs about the bus, for every set of envelopes, endpoints, publishers *)
(* and hooks, every max_delivery_attempts and every mailbox cap.           *)
(***************************************************************************)
EXTENDS Bus, TLAPS

Places == {"idle", "check", "insert", "dispatch", "deliver", "settle", "visit",
           "stale", "stale_settle", "expire"}

Names == Endpoints \cup {To[e] : e \in Envs}

----------------------------------------------------------------------------
(* The store and the task operators keep their types.                      *)

LEMMA StoreType ==
  ASSUME TypeOK, NEW e \in Envs, NEW r \in Rows, Store(e, r)
  PROVE  row' \in [Envs -> Rows]
  BY DEF TypeOK, Store

LEMMA MarkType ==
  ASSUME TypeOK, NEW e \in Envs,
         \/ MarkInFlight(e) \/ MarkAcked(e) \/ MarkDeadLetter(e) \/ Expire(e)
         \/ Requeue(e) \/ RequeueWithBackoff(e) \/ Insert(e)
  PROVE  row' \in [Envs -> Rows]
<1>1. row[e] \in Rows
  BY DEF TypeOK
<1>2. CASE Insert(e)
  BY <1>2 DEF TypeOK, Insert, NoRow, Rows, Stored
<1>3. CASE MarkInFlight(e)
  <2>1. row[e].count + 1 \in Nat
    BY <1>1 DEF Rows
  <2>2. [row[e] EXCEPT !.state = "in_flight", !.count = @ + 1, !.ifu = "set"] \in Rows
    BY <1>1, <2>1 DEF Rows, Stored
  <2> QED  BY <1>3, <2>2, StoreType DEF MarkInFlight
<1>4. CASE MarkAcked(e)
  <2>1. [row[e] EXCEPT !.state = "acked"] \in Rows
    BY <1>1 DEF Rows, Stored
  <2> QED  BY <1>4, <2>1, StoreType DEF MarkAcked
<1>5. CASE MarkDeadLetter(e)
  <2>1. [row[e] EXCEPT !.state = "dead_letter"] \in Rows
    BY <1>1 DEF Rows, Stored
  <2> QED  BY <1>5, <2>1, StoreType DEF MarkDeadLetter
<1>6. CASE Expire(e)
  <2>1. [row[e] EXCEPT !.state = "expired"] \in Rows
    BY <1>1 DEF Rows, Stored
  <2> QED  BY <1>6, <2>1, StoreType DEF Expire
<1>7. CASE Requeue(e)
  <2>1. [row[e] EXCEPT !.state = "pending", !.ifu = "null", !.nat = "null"] \in Rows
    BY <1>1 DEF Rows, Stored
  <2> QED  BY <1>7, <2>1, StoreType DEF Requeue
<1>8. CASE RequeueWithBackoff(e)
  <2>1. [row[e] EXCEPT !.state = "pending", !.ifu = "null", !.nat = "set"] \in Rows
    BY <1>1 DEF Rows, Stored
  <2> QED  BY <1>8, <2>1, StoreType DEF RequeueWithBackoff
<1> QED  BY <1>2, <1>3, <1>4, <1>5, <1>6, <1>7, <1>8

LEMMA AdvanceType ==
  ASSUME TypeOK, NEW t \in Tasks, NEW e \in Envs, NEW again \in Places,
         NEW done \in Places, Advance(t, e, again, done)
  PROVE  plan' \in [Tasks -> SUBSET Envs] /\ pc' \in [Tasks -> Places]
  BY DEF TypeOK, Advance, Goto, Places

LEMMA BeginType ==
  ASSUME TypeOK, NEW t \in Tasks, NEW list \in SUBSET Envs, NEW first \in Places,
         NEW done \in Places, Begin(t, list, first, done)
  PROVE  plan' \in [Tasks -> SUBSET Envs] /\ pc' \in [Tasks -> Places]
  BY DEF TypeOK, Begin, Goto, Places

LEMMA SpendType ==
  ASSUME TypeOK, NEW k \in Kinds, Spend(k)
  PROVE  used' \in [Kinds -> Nat]
  BY DEF TypeOK, Spend

----------------------------------------------------------------------------
(* Type correctness.                                                       *)

LEMMA DispatchType ==
  ASSUME TypeOK, NEW t \in Tasks, NEW e \in Envs, Dispatch(t, e)
  PROVE  TypeOK'
<1>1. AgainFor(t) \in Places /\ DoneFor(t) \in Places
  BY DEF AgainFor, DoneFor, Places
<1>2. CASE DispatchMark(t, e)
  <2>1. row' \in [Envs -> Rows]
    BY <1>2, MarkType DEF DispatchMark
  <2> QED  BY <1>2, <2>1 DEF DispatchMark, TypeOK, Goto
<1>3. CASE DispatchDrop(t, e)
  <2>1. row' \in [Envs -> Rows]
    BY <1>3, MarkType DEF DispatchDrop
  <2> QED  BY <1>1, <1>3, <2>1, AdvanceType DEF DispatchDrop, TypeOK, Places
<1>4. CASE DeliverOk(t, e)
  BY <1>1, <1>4, AdvanceType DEF DeliverOk, TypeOK, Places
<1>5. CASE DeliverUnavailable(t, e)
  <2>1. row[e].count \in Nat
    BY DEF TypeOK, Rows
  <2>2. CASE Present(e)
    BY <1>5, <2>1, <2>2 DEF DeliverUnavailable, TypeOK, Goto
  <2>3. CASE ~Present(e)
    BY <1>1, <1>5, <2>3, AdvanceType DEF DeliverUnavailable, TypeOK, Places
  <2> QED  BY <2>2, <2>3
<1>6. CASE DeliverError(t, e)
  <2>1. row' \in [Envs -> Rows]
    BY <1>6, MarkType DEF DeliverError
  <2> QED  BY <1>1, <1>6, <2>1, AdvanceType DEF DeliverError, TypeOK, Places
<1>7. CASE Settle(t, e)
  <2>1. row' \in [Envs -> Rows]
    BY <1>7, MarkType DEF Settle, DeadLetterOrBackoff
  <2> QED  BY <1>1, <1>7, <2>1, AdvanceType DEF Settle, TypeOK, Places
<1> QED  BY <1>2, <1>3, <1>4, <1>5, <1>6, <1>7 DEF Dispatch

LEMMA PublisherType ==
  ASSUME TypeOK, NEW p \in Publishers, PublisherStep(p)
  PROVE  TypeOK'
<1> p \in Tasks
  BY DEF Tasks
<1>1. ASSUME NEW r \in todo[p], CheckRecipient(p, r)  PROVE TypeOK'
  BY <1>1 DEF CheckRecipient, Goto, TypeOK
<1>2. ASSUME NEW e \in Envs, InsertRow(p, e)  PROVE TypeOK'
  <2>1. row' \in [Envs -> Rows]
    BY <1>2, MarkType DEF InsertRow
  <2> QED  BY <1>2, <2>1 DEF InsertRow, Goto, TypeOK
<1>3. ASSUME NEW e \in Envs, Dispatch(p, e)  PROVE TypeOK'
  BY <1>3, DispatchType
<1> QED  BY <1>1, <1>2, <1>3 DEF PublisherStep

LEMMA RedeliveryType ==
  ASSUME TypeOK, RedeliveryStep
  PROVE  TypeOK'
<1> "sweep" \in Tasks /\ "drain" \in Tasks /\ "restart" \in Kinds
  BY DEF Tasks, Loops, Kinds
<1>1. CASE SweepBegin
  <2>1. Stale \in SUBSET Envs
    BY DEF Stale
  <2> QED  BY <1>1, <2>1, BeginType DEF SweepBegin, TypeOK, Places
<1>2. ASSUME NEW e \in Envs, StaleRead(e)  PROVE TypeOK'
  <2>1. row[e].count \in Nat
    BY DEF TypeOK, Rows
  <2>2. CASE Present(e)
    BY <1>2, <2>1, <2>2 DEF StaleRead, TypeOK, Goto
  <2>3. CASE ~Present(e)
    BY <1>2, <2>3, AdvanceType DEF StaleRead, TypeOK, Places
  <2> QED  BY <2>2, <2>3
<1>3. ASSUME NEW e \in Envs, StaleSettle(e)  PROVE TypeOK'
  <2>1. row' \in [Envs -> Rows]
    BY <1>3, MarkType DEF StaleSettle, DeadLetterOrBackoff
  <2> QED  BY <1>3, <2>1, AdvanceType DEF StaleSettle, TypeOK, Places
<1>4. ASSUME NEW e \in Envs, Dispatch("sweep", e)  PROVE TypeOK'
  BY <1>4, DispatchType
<1>5. ASSUME NEW ep \in Endpoints, SweepVisit(ep)  PROVE TypeOK'
  <2>1. DueNow(ep) \in SUBSET Envs
    BY DEF DueNow, Pending
  <2> QED  BY <1>5, <2>1, BeginType DEF SweepVisit, TypeOK, Places
<1>6. ASSUME NEW due \in SUBSET Endpoints, SweepEnd(due)  PROVE TypeOK'
  <2>1. used' \in [Kinds -> Nat]
    BY <1>6, SpendType DEF SweepEnd, TypeOK
  <2> QED  BY <1>6, <2>1 DEF SweepEnd, TypeOK
<1> QED  BY <1>1, <1>2, <1>3, <1>4, <1>5, <1>6 DEF RedeliveryStep

LEMMA DrainType ==
  ASSUME TypeOK, DrainStep
  PROVE  TypeOK'
<1> "drain" \in Tasks
  BY DEF Tasks, Loops
<1>1. ASSUME NEW ep \in Endpoints, NEW started \in BOOLEAN, NEW gone \in SUBSET Publishers,
             NEW lost \in Memories(ep), StartEndpoint(ep, started, gone, lost)
      PROVE  TypeOK'
  <2>1. Pending(ep) \in SUBSET Envs
    BY DEF Pending
  <2>2. plan' \in [Tasks -> SUBSET Envs]
    BY <1>1, <2>1 DEF StartEndpoint, TypeOK
  <2>3. pc' \in [Tasks -> Places]
    BY <1>1 DEF StartEndpoint, TypeOK, Places
  <2>4. todo' \in [Tasks -> SUBSET Names]
    BY <1>1 DEF StartEndpoint, LeftToVisit, TypeOK, Names
  <2>5. attempt' \in [Tasks -> Nat]
    BY <1>1 DEF StartEndpoint, TypeOK
  <2> QED  BY <1>1, <2>2, <2>3, <2>4, <2>5 DEF StartEndpoint, TypeOK, Names, Places
<1>2. ASSUME NEW e \in Envs, Dispatch("drain", e)  PROVE TypeOK'
  BY <1>2, DispatchType
<1>3. CASE DrainEnd
  BY <1>3 DEF DrainEnd, Goto, TypeOK
<1> QED  BY <1>1, <1>2, <1>3 DEF DrainStep

LEMMA TtlType ==
  ASSUME TypeOK, TtlStep
  PROVE  TypeOK'
<1> "ttl" \in Tasks
  BY DEF Tasks, Loops
<1>1. CASE TtlBegin
  <2>1. Expired \in SUBSET Envs
    BY DEF Expired
  <2> QED  BY <1>1, <2>1, BeginType DEF TtlBegin, TypeOK, Places
<1>2. ASSUME NEW e \in Envs, TtlExpire(e)  PROVE TypeOK'
  <2>1. row' \in [Envs -> Rows]
    BY <1>2, MarkType DEF TtlExpire
  <2> QED  BY <1>2, <2>1, AdvanceType DEF TtlExpire, TypeOK, Places
<1> QED  BY <1>1, <1>2 DEF TtlStep

LEMMA EndpointType ==
  ASSUME TypeOK, EndpointStep
  PROVE  TypeOK'
<1>1. ASSUME NEW p \in Publishers, NEW batch \in SUBSET Unused, Publish(p, batch)
      PROVE  TypeOK'
  <2>1. batch \in SUBSET Envs /\ p \in Tasks
    BY DEF Unused, Tasks
  <2> QED  BY <1>1, <2>1 DEF Publish, Goto, TypeOK
<1>2. ASSUME NEW e \in Envs, Ack(e)  PROVE TypeOK'
  <2>1. row' \in [Envs -> Rows]
    BY <1>2, MarkType DEF Ack
  <2> QED  BY <1>2, <2>1 DEF Ack, Forget, locals, TypeOK
<1>3. ASSUME NEW e \in Envs, NEW requeue \in BOOLEAN, Nack(e, requeue)  PROVE TypeOK'
  <2>1. row' \in [Envs -> Rows]
    BY <1>3, MarkType DEF Nack
  <2>2. used' \in [Kinds -> Nat]
    BY <1>3, SpendType DEF Nack, TypeOK, Kinds
  <2> QED  BY <1>3, <2>1, <2>2 DEF Nack, Forget, locals, TypeOK
<1>4. ASSUME NEW e \in Envs, Receive(e)  PROVE TypeOK'
  BY <1>4 DEF Receive, locals, TypeOK
<1> QED  BY <1>1, <1>2, <1>3, <1>4 DEF EndpointStep

LEMMA RaiseType ==
  ASSUME TypeOK, NEW t \in Tasks, Raise(t)
  PROVE  TypeOK'
<1>1. used' \in [Kinds -> Nat]
  BY SpendType DEF Raise, TypeOK, Kinds
<1>2. plan' \in [Tasks -> SUBSET Envs] /\ pc' \in [Tasks -> Places]
  <2>1. CASE pc[t] \in {"stale", "stale_settle"}
    <3>1. PICK e \in plan[t] : Advance(t, e, "stale", "visit")
      BY <2>1 DEF Raise
    <3>2. e \in Envs
      BY <3>1 DEF TypeOK
    <3> QED  BY <3>1, <3>2, AdvanceType DEF Places
  <2>2. CASE pc[t] \notin {"stale", "stale_settle"}
    BY <2>2 DEF Raise, Goto, TypeOK, Places
  <2> QED  BY <2>1, <2>2
<1>3. todo' \in [Tasks -> SUBSET Names]
  BY DEF Raise, TypeOK, Names
<1> QED  BY <1>1, <1>2, <1>3 DEF Raise, TypeOK, Places, Names

LEMMA ClockType ==
  ASSUME TypeOK, NEW e \in Envs, Clock(e)
  PROVE  TypeOK'
<1>1. row' \in [Envs -> Rows]
  BY DEF Clock, DeadlineLapses, BackoffElapses, ExpiryPasses, TypeOK, Rows
<1> QED  BY <1>1 DEF Clock, DeadlineLapses, BackoffElapses, ExpiryPasses, locals, TypeOK

LEMMA OperatorType ==
  ASSUME TypeOK, OperatorStep
  PROVE  TypeOK'
<1>1. ASSUME NEW e \in Envs, ResetForReplay(e)  PROVE TypeOK'
  <2>1. row' \in [Envs -> Rows]
    BY <1>1 DEF ResetForReplay, TypeOK, NoRow, Rows, Stored
  <2>2. used' \in [Kinds -> Nat]
    BY <1>1, SpendType DEF ResetForReplay, Kinds
  <2> QED  BY <1>1, <2>1, <2>2 DEF ResetForReplay, locals, TypeOK
<1>2. ASSUME NEW old \in SUBSET Envs, PurgeDlq(old)  PROVE TypeOK'
  <2>1. row' \in [Envs -> Rows]
    BY <1>2 DEF PurgeDlq, TypeOK, NoRow, Rows, Stored
  <2> QED  BY <1>2, <2>1 DEF PurgeDlq, locals, TypeOK
<1> QED  BY <1>1, <1>2 DEF OperatorStep

LEMMA LifeType ==
  ASSUME TypeOK, Boot \/ Crash \/ Shutdown \/ Close
  PROVE  TypeOK'
<1>1. CASE Boot
  BY <1>1 DEF Boot, Goto, TypeOK
<1>2. CASE Crash
  BY <1>2, SpendType DEF Crash, Vanish, Forget, TypeOK, Kinds
<1>3. CASE Shutdown
  <2>1. used' \in [Kinds -> Nat]
    BY <1>3, SpendType DEF Shutdown, Kinds
  <2> QED  BY <1>3, <2>1 DEF Shutdown, TypeOK
<1>4. CASE Close
  BY <1>4 DEF Close, Vanish, Forget, TypeOK
<1> QED  BY <1>1, <1>2, <1>3, <1>4

LEMMA InitType == Init => TypeOK
  BY DEF Init, TypeOK, Rows, NoRow, Stored

LEMMA TypeStep == TypeOK /\ [Next]_vars => TypeOK'
<1> SUFFICES ASSUME TypeOK, [Next]_vars  PROVE TypeOK'
  OBVIOUS
<1>1. CASE Next
  BY <1>1, PublisherType, RedeliveryType, DrainType, TtlType, EndpointType,
     RaiseType, ClockType, OperatorType, LifeType DEF Next
<1>2. CASE UNCHANGED vars
  BY <1>2 DEF vars, TypeOK
<1> QED  BY <1>1, <1>2

\* Every variable keeps its type: in particular no operation leaves a row in
\* a state, or a task at an await, that the others do not know.
THEOREM TypeCorrect == Spec => []TypeOK
  BY InitType, TypeStep, PTL DEF Spec

----------------------------------------------------------------------------
(* The inductive invariants.                                               *)

\* Where a task can be; the sweep and the drain share the redelivery task.
TaskPlaces ==
  /\ \A p \in Publishers :
       pc[p] \in {"idle", "check", "insert", "dispatch", "deliver", "settle"}
  /\ pc["sweep"] \in {"idle", "visit", "stale", "stale_settle", "dispatch", "deliver",
                      "settle"}
  /\ pc["drain"] \in {"idle", "visit", "dispatch", "deliver", "settle"}
  /\ pc["ttl"] \in {"idle", "expire"}
  /\ pc["sweep"] = "idle" \/ pc["drain"] = "idle"
  /\ phase = "down" => \A t \in Tasks : pc[t] = "idle"

\* A publisher past the insertion of its current envelope.
Inserted(p) == pc[p] \in {"dispatch", "deliver", "settle"}

\* What publishers are about to insert is theirs alone and not in the table.
PlansFresh ==
  /\ \A p \in Publishers : pc[p] = "idle" => plan[p] = {}
  /\ \A p \in Publishers : \A e \in plan[p] :
       row[e].state = "absent" \/ (Inserted(p) /\ Current(p, e))
  /\ \A p, q \in Publishers : p # q => plan[p] \cap plan[q] = {}

\* What was checked, and so what is stored, is for registered endpoints; a
\* row in flight has a deadline.
Deposited ==
  /\ \A p \in Publishers : \A e \in plan[p] :
       To[e] \in Endpoints \/ (pc[p] = "check" /\ To[e] \in todo[p])
  /\ \A e \in Envs : Present(e) => To[e] \in Endpoints
  /\ \A e \in Envs : row[e].state = "in_flight" => row[e].ifu # "null"

\* Who may still raise the count of e.  Its publisher holds a token while it
\* has not marked e, and again while it is about to requeue e.
TokenOf(p, e) ==
  /\ Current(p, e)
  /\ pc[p] = "dispatch" \/ (pc[p] = "settle" /\ ~Exhausted(p))

Token(e) == \E p \in Publishers : TokenOf(p, e)

\* A loop has listed e and not marked it yet, or it is about to requeue e.
InLoop(t, e) ==
  \/ e \in plan[t] /\ pc[t] = "dispatch"
  \/ e \in plan[t] /\ pc[t] \in {"deliver", "settle"} /\ ~Current(t, e)
  \/ Current(t, e) /\ pc[t] \in {"settle", "stale_settle"} /\ ~Exhausted(t)

\* e is in the hands of a loop, or will be when a loop next lists it.
Open(e) == row[e].state = "pending" \/ \E t \in {"sweep", "drain"} : InLoop(t, e)

Budget == MaxAttempts + used["nack"]

\* The count passes the budget by one only when nobody can raise it again,
\* and two may raise it only below the budget.
CountsBudgeted ==
  \A e \in Envs :
    /\ row[e].count <= Budget + 1
    /\ row[e].count = Budget + 1 => ~Token(e) /\ ~Open(e)
    /\ Token(e) /\ Open(e) => row[e].count < Budget


----------------------------------------------------------------------------
(* TaskPlaces.                                                             *)

LEMMA TaskKinds ==
  /\ Publishers \subseteq Tasks
  /\ "sweep" \in Tasks /\ "drain" \in Tasks /\ "ttl" \in Tasks
  /\ \A p \in Publishers : p # "sweep" /\ p # "drain" /\ p # "ttl"
  BY BusAssumption DEF Tasks, Loops

LEMMA DispatchPlaces ==
  ASSUME TypeOK, TaskPlaces, NEW t \in Tasks, t # "ttl", NEW e \in Envs, Dispatch(t, e)
  PROVE  TaskPlaces'
<1>1. pc[t] # "idle" /\ phase' = phase
  BY DEF Dispatch, DispatchMark, DispatchDrop, DeliverOk, DeliverUnavailable, DeliverError,
         Settle
<1>2. \/ pc' = [pc EXCEPT ![t] = "deliver"]
      \/ pc' = [pc EXCEPT ![t] = "settle"]
      \/ pc' = [pc EXCEPT ![t] = AgainFor(t)]
      \/ pc' = [pc EXCEPT ![t] = DoneFor(t)]
  BY DEF Dispatch, DispatchMark, DispatchDrop, DeliverOk, DeliverUnavailable, DeliverError,
         Settle, Advance, Goto
<1>3. pc \in [Tasks -> Places]
  BY DEF TypeOK, Places
<1>4. t \in Publishers \/ t = "sweep" \/ t = "drain"
  BY DEF Tasks, Loops
<1> QED  BY <1>1, <1>2, <1>3, <1>4, TaskKinds DEF TaskPlaces, AgainFor, DoneFor

LEMMA PublisherPlaces ==
  ASSUME TypeOK, TaskPlaces, NEW p \in Publishers, PublisherStep(p)
  PROVE  TaskPlaces'
<1>1. ASSUME NEW r \in todo[p], CheckRecipient(p, r)  PROVE TaskPlaces'
  BY <1>1, TaskKinds DEF CheckRecipient, Goto, TypeOK, TaskPlaces
<1>2. ASSUME NEW e \in Envs, InsertRow(p, e)  PROVE TaskPlaces'
  BY <1>2, TaskKinds DEF InsertRow, Goto, TypeOK, TaskPlaces
<1>3. ASSUME NEW e \in Envs, Dispatch(p, e)  PROVE TaskPlaces'
  BY <1>3, DispatchPlaces, TaskKinds
<1> QED  BY <1>1, <1>2, <1>3 DEF PublisherStep

LEMMA RedeliveryPlaces ==
  ASSUME TypeOK, TaskPlaces, RedeliveryStep
  PROVE  TaskPlaces'
<1>1. CASE SweepBegin
  BY <1>1, TaskKinds DEF SweepBegin, Begin, Goto, TypeOK, TaskPlaces
<1>2. ASSUME NEW e \in Envs, StaleRead(e)  PROVE TaskPlaces'
  BY <1>2, TaskKinds DEF StaleRead, Advance, Goto, TypeOK, TaskPlaces
<1>3. ASSUME NEW e \in Envs, StaleSettle(e)  PROVE TaskPlaces'
  BY <1>3, TaskKinds DEF StaleSettle, Advance, Goto, TypeOK, TaskPlaces
<1>4. ASSUME NEW e \in Envs, Dispatch("sweep", e)  PROVE TaskPlaces'
  BY <1>4, DispatchPlaces, TaskKinds
<1>5. ASSUME NEW ep \in Endpoints, SweepVisit(ep)  PROVE TaskPlaces'
  BY <1>5, TaskKinds DEF SweepVisit, Begin, Goto, TypeOK, TaskPlaces
<1>6. ASSUME NEW due \in SUBSET Endpoints, SweepEnd(due)  PROVE TaskPlaces'
  BY <1>6, TaskKinds DEF SweepEnd, TypeOK, TaskPlaces
<1> QED  BY <1>1, <1>2, <1>3, <1>4, <1>5, <1>6 DEF RedeliveryStep

LEMMA DrainPlaces ==
  ASSUME TypeOK, TaskPlaces, DrainStep
  PROVE  TaskPlaces'
<1>1. ASSUME NEW ep \in Endpoints, NEW started \in BOOLEAN, NEW gone \in SUBSET Publishers,
             NEW lost \in Memories(ep), StartEndpoint(ep, started, gone, lost)
      PROVE  TaskPlaces'
  BY <1>1, TaskKinds DEF StartEndpoint, TypeOK, TaskPlaces
<1>2. ASSUME NEW e \in Envs, Dispatch("drain", e)  PROVE TaskPlaces'
  BY <1>2, DispatchPlaces, TaskKinds
<1>3. CASE DrainEnd
  BY <1>3, TaskKinds DEF DrainEnd, Goto, TypeOK, TaskPlaces
<1> QED  BY <1>1, <1>2, <1>3 DEF DrainStep

LEMMA RaisePlaces ==
  ASSUME TypeOK, TaskPlaces, NEW t \in Tasks, Raise(t)
  PROVE  TaskPlaces'
<1>1. pc[t] # "idle" /\ pc[t] # "visit" /\ phase' = phase
  BY DEF Raise
<1>2. \/ pc' = [pc EXCEPT ![t] = "visit"] /\ t \in {"sweep", "drain"}
      \/ pc' = [pc EXCEPT ![t] = "stale"] /\ pc[t] \in {"stale", "stale_settle"}
      \/ pc' = [pc EXCEPT ![t] = "visit"] /\ pc[t] \in {"stale", "stale_settle"}
      \/ pc' = [pc EXCEPT ![t] = "idle"]
  BY DEF Raise, Goto, Advance
<1>3. pc \in [Tasks -> Places]
  BY DEF TypeOK, Places
<1>4. t \in Publishers \/ t = "sweep" \/ t = "drain" \/ t = "ttl"
  BY DEF Tasks, Loops
<1> QED  BY <1>1, <1>2, <1>3, <1>4, TaskKinds DEF TaskPlaces

LEMMA OtherPlaces ==
  ASSUME TypeOK, TaskPlaces,
         \/ TtlStep \/ EndpointStep \/ (\E e \in Envs : Clock(e)) \/ OperatorStep
         \/ Boot \/ Crash \/ Shutdown \/ Close
  PROVE  TaskPlaces'
<1>1. CASE TtlStep
  BY <1>1, TaskKinds DEF TtlStep, TtlBegin, TtlExpire, Begin, Advance, Goto, TypeOK, TaskPlaces
<1>2. CASE EndpointStep
  <2>1. ASSUME NEW p \in Publishers, NEW batch \in SUBSET Unused, Publish(p, batch)
        PROVE  TaskPlaces'
    BY <2>1, TaskKinds DEF Publish, Goto, TypeOK, TaskPlaces
  <2>2. ASSUME NEW e \in Envs, Receive(e) \/ Ack(e) \/ \E requeue \in BOOLEAN : Nack(e, requeue)
        PROVE  TaskPlaces'
    BY <2>2 DEF Receive, Ack, Nack, locals, TaskPlaces
  <2> QED  BY <1>2, <2>1, <2>2 DEF EndpointStep
<1>3. CASE (\E e \in Envs : Clock(e)) \/ OperatorStep
  BY <1>3 DEF Clock, DeadlineLapses, BackoffElapses, ExpiryPasses, OperatorStep,
              ResetForReplay, PurgeDlq, locals, TaskPlaces
<1>4. CASE Boot
  BY <1>4, TaskKinds DEF Boot, Goto, TypeOK, TaskPlaces
<1>5. CASE Crash \/ Close
  BY <1>5, TaskKinds DEF Crash, Close, Vanish, TaskPlaces
<1>6. CASE Shutdown
  BY <1>6, TaskKinds DEF Shutdown, Loops, TypeOK, TaskPlaces
<1> QED  BY <1>1, <1>2, <1>3, <1>4, <1>5, <1>6

LEMMA PlacesStep == TypeOK /\ TaskPlaces /\ [Next]_vars => TaskPlaces'
<1> SUFFICES ASSUME TypeOK, TaskPlaces, [Next]_vars  PROVE TaskPlaces'
  OBVIOUS
<1>1. CASE Next
  BY <1>1, PublisherPlaces, RedeliveryPlaces, DrainPlaces, RaisePlaces, OtherPlaces DEF Next
<1>2. CASE UNCHANGED vars
  BY <1>2 DEF vars, TaskPlaces
<1> QED  BY <1>1, <1>2


----------------------------------------------------------------------------
(* What a step does to one row, and to what one publisher is doing.        *)

LEMMA CurrentUnique ==
  ASSUME TypeOK, NEW t \in Tasks, NEW e \in Envs, NEW f \in Envs, Current(t, e), Current(t, f)
  PROVE  e = f
<1>1. e \in Nat /\ f \in Nat /\ e <= f /\ f <= e
  BY BusAssumption DEF Current
<1> QED  BY <1>1

\* A row stays; or a publisher inserts it; or it was stored, and then a row
\* that ends in flight has a deadline if it had one.
RowMoves(e) ==
  \/ row'[e] = row[e]
  \/ /\ row'[e].state = "pending"
     /\ \E p \in Publishers : pc[p] = "insert" /\ Current(p, e) /\ pc'[p] = "dispatch"
  \/ /\ Present(e)
     /\ row'[e].state # "absent"
     /\ row'[e].state = "in_flight" =>
          \/ row'[e].ifu # "null"
          \/ row[e].state = "in_flight" /\ row'[e].ifu = row[e].ifu

LEMMA MarkMoves ==
  ASSUME TypeOK, NEW f \in Envs, NEW e \in Envs,
         \/ MarkInFlight(f) \/ MarkAcked(f) \/ MarkDeadLetter(f) \/ Expire(f)
         \/ Requeue(f) \/ RequeueWithBackoff(f)
  PROVE  RowMoves(e)
<1>1. row \in [Envs -> Rows] /\ row[f] \in Rows
  BY DEF TypeOK
<1>2. row'[e] # row[e] => e = f /\ Present(e)
  BY <1>1 DEF MarkInFlight, MarkAcked, MarkDeadLetter, Expire, Requeue, RequeueWithBackoff, Store
<1>3. row'[e] # row[e] =>
        /\ row'[e].state \in Stored
        /\ row'[e].state = "in_flight" => row'[e].ifu = "set"
  BY <1>1, <1>2 DEF MarkInFlight, MarkAcked, MarkDeadLetter, Expire, Requeue,
                    RequeueWithBackoff, Store, Rows, Stored
<1> QED  BY <1>2, <1>3 DEF RowMoves, Stored

LEMMA DispatchMoves ==
  ASSUME TypeOK, NEW t \in Tasks, NEW f \in Envs, Dispatch(t, f), NEW e \in Envs
  PROVE  RowMoves(e)
<1>1. CASE row' = row
  BY <1>1 DEF RowMoves
<1>2. row' = row \/ MarkInFlight(f) \/ MarkDeadLetter(f) \/ RequeueWithBackoff(f)
  BY DEF Dispatch, DispatchMark, DispatchDrop, DeliverOk, DeliverUnavailable, DeliverError,
         Settle, DeadLetterOrBackoff
<1> QED  BY <1>1, <1>2, MarkMoves

LEMMA RowStep ==
  ASSUME TypeOK, [Next]_vars, NEW e \in Envs
  PROVE  RowMoves(e)
<1> row \in [Envs -> Rows]
  BY DEF TypeOK
<1>1. CASE row' = row
  BY <1>1 DEF RowMoves
<1>2. ASSUME NEW p \in Publishers, PublisherStep(p)  PROVE RowMoves(e)
  <2>1. ASSUME NEW f \in Envs, InsertRow(p, f)  PROVE RowMoves(e)
    BY <2>1, TaskKinds DEF InsertRow, Insert, Goto, NoRow, RowMoves, TypeOK
  <2>2. ASSUME NEW f \in Envs, Dispatch(p, f)  PROVE RowMoves(e)
    BY <2>2, DispatchMoves, TaskKinds
  <2>3. ASSUME NEW r \in todo[p], CheckRecipient(p, r)  PROVE row' = row
    BY <2>3 DEF CheckRecipient
  <2> QED  BY <1>1, <1>2, <2>1, <2>2, <2>3 DEF PublisherStep
<1>3. CASE RedeliveryStep
  <2>1. ASSUME NEW f \in Envs, StaleSettle(f)  PROVE RowMoves(e)
    BY <2>1, MarkMoves DEF StaleSettle, DeadLetterOrBackoff
  <2>2. ASSUME NEW f \in Envs, Dispatch("sweep", f)  PROVE RowMoves(e)
    BY <2>2, DispatchMoves, TaskKinds
  <2> QED  BY <1>1, <1>3, <2>1, <2>2 DEF RedeliveryStep, SweepBegin, StaleRead, SweepVisit, SweepEnd
<1>4. CASE DrainStep
  <2>1. ASSUME NEW f \in Envs, Dispatch("drain", f)  PROVE RowMoves(e)
    BY <2>1, DispatchMoves, TaskKinds
  <2> QED  BY <1>1, <1>4, <2>1 DEF DrainStep, StartEndpoint, DrainEnd
<1>5. CASE TtlStep
  BY <1>1, <1>5, MarkMoves DEF TtlStep, TtlBegin, TtlExpire
<1>6. CASE EndpointStep
  BY <1>1, <1>6, MarkMoves DEF EndpointStep, Publish, Receive, Ack, Nack
<1>7. ASSUME NEW f \in Envs, Clock(f)  PROVE RowMoves(e)
  <2>1. row[f] \in Rows
    OBVIOUS
  <2> QED  BY <1>7, <2>1 DEF Clock, DeadlineLapses, BackoffElapses, ExpiryPasses, RowMoves,
                             Present, Stored, Owed, Rows
<1>8. CASE OperatorStep
  BY <1>8 DEF OperatorStep, ResetForReplay, PurgeDlq, RowMoves, Present, Stored, NoRow
<1>9. CASE (\E t \in Tasks : Raise(t)) \/ Boot \/ Crash \/ Shutdown \/ Close
  BY <1>1, <1>9 DEF Raise, Boot, Crash, Shutdown, Close, Vanish
<1>10. CASE UNCHANGED vars
  BY <1>1, <1>10 DEF vars
<1> QED  BY <1>2, <1>3, <1>4, <1>5, <1>6, <1>7, <1>8, <1>9, <1>10 DEF Next


\* A publisher stays as it is; or it is cut short; or it begins, checks a
\* recipient, inserts its current envelope, dispatches it or is done with it.
PublisherMoves(p) ==
  \/ plan'[p] = plan[p] /\ pc'[p] = pc[p] /\ todo'[p] = todo[p]
  \/ plan'[p] = {} /\ pc'[p] = "idle"
  \/ /\ pc[p] = "idle" /\ pc'[p] = "check"
     /\ plan'[p] \subseteq Unused /\ todo'[p] = {To[e] : e \in plan'[p]}
     /\ row' = row /\ \A q \in Publishers : q # p => plan'[q] = plan[q]
  \/ /\ pc[p] = "check" /\ plan'[p] = plan[p]
     /\ \E r \in Endpoints : /\ todo'[p] = todo[p] \ {r}
                             /\ pc'[p] = IF todo[p] = {r} THEN "insert" ELSE "check"
  \/ /\ pc[p] = "insert" /\ plan'[p] = plan[p] /\ pc'[p] = "dispatch"
     /\ \E e \in Envs : Current(p, e)
  \/ Inserted(p) /\ Inserted(p)' /\ plan'[p] = plan[p]
  \/ \E e \in Envs : /\ Inserted(p) /\ Current(p, e)
                     /\ plan'[p] = plan[p] \ {e}
                     /\ pc'[p] = IF plan[p] = {e} THEN "idle" ELSE "insert"

LEMMA DispatchMovesPublisher ==
  ASSUME TypeOK, NEW t \in Tasks, NEW e \in Envs, Dispatch(t, e), NEW p \in Publishers
  PROVE  PublisherMoves(p)
<1> p \in Tasks /\ plan \in [Tasks -> SUBSET Envs] /\ pc \in [Tasks -> Places]
  BY TaskKinds DEF TypeOK, Places
<1>1. CASE t # p
  BY <1>1 DEF Dispatch, DispatchMark, DispatchDrop, DeliverOk, DeliverUnavailable, DeliverError,
              Settle, Advance, Goto, PublisherMoves
<1>2. CASE t = p
  <2>1. /\ Inserted(p) /\ Current(p, e)
        /\ \/ Advance(p, e, AgainFor(p), DoneFor(p))
           \/ plan' = plan /\ \E where \in {"deliver", "settle"} : Goto(p, where)
    BY <1>2 DEF Dispatch, DispatchMark, DispatchDrop, DeliverOk, DeliverUnavailable,
                DeliverError, Settle, Inserted
  <2>2. AgainFor(p) = "insert" /\ DoneFor(p) = "idle"
    BY DEF AgainFor, DoneFor
  <2> QED  BY <2>1, <2>2 DEF Advance, Goto, Inserted, PublisherMoves
<1> QED  BY <1>1, <1>2

LEMMA PublisherOwnStep ==
  ASSUME TypeOK, NEW q \in Publishers, PublisherStep(q), NEW p \in Publishers
  PROVE  PublisherMoves(p)
<1> /\ p \in Tasks /\ q \in Tasks /\ plan \in [Tasks -> SUBSET Envs]
    /\ pc \in [Tasks -> Places] /\ todo \in [Tasks -> SUBSET Names]
  BY TaskKinds DEF TypeOK, Places, Names
<1>1. ASSUME NEW r \in todo[q], CheckRecipient(q, r)  PROVE PublisherMoves(p)
  <2>1. CASE p # q
    BY <1>1, <2>1 DEF CheckRecipient, Goto, PublisherMoves
  <2>2. CASE p = q /\ Accepts(r)
    BY <1>1, <2>2 DEF CheckRecipient, Accepts, Goto, PublisherMoves
  <2>3. CASE p = q /\ ~Accepts(r)
    BY <1>1, <2>3 DEF CheckRecipient, Goto, PublisherMoves
  <2> QED  BY <2>1, <2>2, <2>3
<1>2. ASSUME NEW e \in Envs, InsertRow(q, e)  PROVE PublisherMoves(p)
  BY <1>2 DEF InsertRow, Goto, PublisherMoves
<1>3. ASSUME NEW e \in Envs, Dispatch(q, e)  PROVE PublisherMoves(p)
  BY <1>3, DispatchMovesPublisher
<1> QED  BY <1>1, <1>2, <1>3 DEF PublisherStep

LEMMA PublisherMovesStep ==
  ASSUME TypeOK, TaskPlaces, [Next]_vars, NEW p \in Publishers
  PROVE  PublisherMoves(p)
<1> /\ p \in Tasks /\ plan \in [Tasks -> SUBSET Envs]
    /\ pc \in [Tasks -> Places] /\ todo \in [Tasks -> SUBSET Names]
    /\ p # "sweep" /\ p # "drain" /\ p # "ttl"
  BY TaskKinds DEF TypeOK, Places, Names
<1>1. ASSUME NEW q \in Publishers, PublisherStep(q)  PROVE PublisherMoves(p)
  BY <1>1, PublisherOwnStep
<1>2. CASE RedeliveryStep
  <2>1. ASSUME NEW e \in Envs, Dispatch("sweep", e)  PROVE PublisherMoves(p)
    BY <2>1, DispatchMovesPublisher, TaskKinds
  <2>2. CASE SweepBegin \/ (\E ep \in Endpoints : SweepVisit(ep))
    BY <2>2 DEF SweepBegin, SweepVisit, Begin, Goto, PublisherMoves
  <2>3. CASE \E e \in Envs : StaleRead(e) \/ StaleSettle(e)
    BY <2>3 DEF StaleRead, StaleSettle, Advance, Goto, PublisherMoves
  <2>4. CASE \E due \in SUBSET Endpoints : SweepEnd(due)
    BY <2>4 DEF SweepEnd, PublisherMoves
  <2> QED  BY <1>2, <2>1, <2>2, <2>3, <2>4 DEF RedeliveryStep
<1>3. CASE DrainStep
  <2>1. ASSUME NEW e \in Envs, Dispatch("drain", e)  PROVE PublisherMoves(p)
    BY <2>1, DispatchMovesPublisher, TaskKinds
  <2>2. ASSUME NEW ep \in Endpoints, NEW started \in BOOLEAN, NEW gone \in SUBSET Publishers,
               NEW lost \in Memories(ep), StartEndpoint(ep, started, gone, lost)
        PROVE  PublisherMoves(p)
    BY <2>2 DEF StartEndpoint, PublisherMoves
  <2>3. CASE DrainEnd
    BY <2>3 DEF DrainEnd, Goto, PublisherMoves
  <2> QED  BY <1>3, <2>1, <2>2, <2>3 DEF DrainStep
<1>4. CASE TtlStep
  BY <1>4 DEF TtlStep, TtlBegin, TtlExpire, Begin, Advance, Goto, PublisherMoves
<1>5. CASE EndpointStep
  <2>1. ASSUME NEW q \in Publishers, NEW batch \in SUBSET Unused, Publish(q, batch)
        PROVE  PublisherMoves(p)
    <3> q \in Tasks
      BY TaskKinds
    <3> QED  BY <2>1 DEF Publish, Goto, PublisherMoves
  <2>2. ASSUME NEW e \in Envs, Receive(e) \/ Ack(e) \/ \E requeue \in BOOLEAN : Nack(e, requeue)
        PROVE  PublisherMoves(p)
    BY <2>2 DEF Receive, Ack, Nack, locals, PublisherMoves
  <2> QED  BY <1>5, <2>1, <2>2 DEF EndpointStep
<1>6. ASSUME NEW t \in Tasks, Raise(t)  PROVE PublisherMoves(p)
  <2>1. CASE t = p
    <3>1. pc[p] \notin {"stale", "stale_settle"}
      BY DEF TaskPlaces
    <3> QED  BY <1>6, <2>1, <3>1 DEF Raise, Goto, PublisherMoves
  <2>2. CASE t # p
    BY <1>6, <2>2 DEF Raise, Goto, Advance, PublisherMoves
  <2> QED  BY <2>1, <2>2
<1>7. CASE (\E e \in Envs : Clock(e)) \/ OperatorStep
  BY <1>7 DEF Clock, DeadlineLapses, BackoffElapses, ExpiryPasses, OperatorStep,
              ResetForReplay, PurgeDlq, locals, PublisherMoves
<1>8. CASE Boot
  BY <1>8 DEF Boot, Goto, PublisherMoves
<1>9. CASE Crash \/ Close
  BY <1>9 DEF Crash, Close, Vanish, PublisherMoves
<1>10. CASE Shutdown
  BY <1>10 DEF Shutdown, Loops, PublisherMoves
<1>11. CASE UNCHANGED vars
  BY <1>11 DEF vars, PublisherMoves
<1> QED  BY <1>1, <1>2, <1>3, <1>4, <1>5, <1>6, <1>7, <1>8, <1>9, <1>10, <1>11 DEF Next


----------------------------------------------------------------------------
(* PlansFresh and Deposited.                                               *)

LEMMA PlansFreshStep ==
  ASSUME TypeOK, TaskPlaces, PlansFresh, [Next]_vars
  PROVE  PlansFresh'
<1> /\ Publishers \subseteq Tasks /\ plan \in [Tasks -> SUBSET Envs]
  BY TaskKinds DEF TypeOK
<1>1. ASSUME NEW p \in Publishers, pc'[p] = "idle"  PROVE plan'[p] = {}
  <2>1. PublisherMoves(p)
    BY PublisherMovesStep
  <2>2. pc[p] = "idle" => plan[p] = {}
    BY DEF PlansFresh
  <2> QED  BY <1>1, <2>1, <2>2 DEF PublisherMoves, Inserted
<1>2. ASSUME NEW p \in Publishers, NEW e \in plan'[p]
      PROVE  row'[e].state = "absent" \/ (Inserted(p) /\ Current(p, e))'
  <2>1. PublisherMoves(p)
    BY PublisherMovesStep
  <2>2. e \in Envs
    <3>1. TypeOK'
      BY TypeStep
    <3> QED  BY <3>1 DEF TypeOK
  <2>3. CASE pc[p] = "idle" /\ plan'[p] \subseteq Unused /\ row' = row
    BY <2>3 DEF Unused
  <2>4. CASE e \in plan[p]
    <3>1. row[e].state = "absent" \/ (Inserted(p) /\ Current(p, e))
      BY <2>4 DEF PlansFresh
    <3>2. ASSUME row[e].state = "absent", row'[e].state # "absent"
          PROVE  pc[p] = "insert" /\ Current(p, e) /\ pc'[p] = "dispatch"
      <4>1. RowMoves(e)
        BY <2>2, RowStep
      <4>2. PICK q \in Publishers : pc[q] = "insert" /\ Current(q, e) /\ pc'[q] = "dispatch"
        BY <3>2, <4>1 DEF RowMoves, Present, Stored
      <4>3. q = p
        BY <2>4, <4>2 DEF PlansFresh, Current
      <4> QED  BY <4>2, <4>3
    <3>3. CASE row[e].state = "absent" /\ row'[e].state # "absent"
      <4>1. plan'[p] = plan[p]
        BY <1>2, <2>1, <3>2, <3>3 DEF PublisherMoves, Inserted
      <4> QED  BY <3>2, <3>3, <4>1 DEF Inserted, Current
    <3>4. CASE Inserted(p) /\ Current(p, e)
      <4>1. CASE plan'[p] = plan[p] /\ Inserted(p)'
        BY <3>4, <4>1 DEF Inserted, Current
      <4>2. CASE ~(plan'[p] = plan[p] /\ Inserted(p)')
        <5>1. PICK f \in Envs : Current(p, f) /\ plan'[p] = plan[p] \ {f}
          BY <1>2, <2>1, <3>4, <4>2 DEF PublisherMoves, Inserted
        <5>2. e = f
          BY <2>2, <3>4, <5>1, CurrentUnique
        <5> QED  BY <1>2, <5>1, <5>2
      <4> QED  BY <4>1, <4>2
    <3> QED  BY <3>1, <3>3, <3>4
  <2> QED  BY <1>2, <2>1, <2>3, <2>4 DEF PublisherMoves
<1>3. ASSUME NEW p \in Publishers, NEW q \in Publishers, p # q
      PROVE  plan'[p] \cap plan'[q] = {}
  <2>1. PublisherMoves(p) /\ PublisherMoves(q)
    BY PublisherMovesStep
  <2>2. plan[p] \cap plan[q] = {}
    BY <1>3 DEF PlansFresh
  <2>3. CASE plan'[p] \subseteq plan[p] /\ plan'[q] \subseteq plan[q]
    BY <2>2, <2>3
  <2>4. CASE plan'[p] \subseteq Unused /\ plan'[q] = plan[q]
    BY <2>4 DEF Unused
  <2>5. CASE plan'[q] \subseteq Unused /\ plan'[p] = plan[p]
    BY <2>5 DEF Unused
  <2> QED  BY <1>3, <2>1, <2>3, <2>4, <2>5 DEF PublisherMoves
<1> QED  BY <1>1, <1>2, <1>3 DEF PlansFresh

LEMMA DepositedStep ==
  ASSUME TypeOK, TaskPlaces, Deposited, [Next]_vars
  PROVE  Deposited'
<1> /\ Publishers \subseteq Tasks /\ plan \in [Tasks -> SUBSET Envs]
  BY TaskKinds DEF TypeOK
<1>1. ASSUME NEW p \in Publishers, NEW e \in plan'[p]
      PROVE  To[e] \in Endpoints \/ (pc'[p] = "check" /\ To[e] \in todo'[p])
  <2>1. PublisherMoves(p)
    BY PublisherMovesStep
  <2>2. e \in plan[p] => To[e] \in Endpoints \/ (pc[p] = "check" /\ To[e] \in todo[p])
    BY DEF Deposited
  <2> QED  BY <1>1, <2>1, <2>2 DEF PublisherMoves, Inserted
<1>2. ASSUME NEW e \in Envs, Present(e)'  PROVE To[e] \in Endpoints
  <2>1. RowMoves(e)
    BY RowStep
  <2>2. CASE Present(e)
    BY <2>2 DEF Deposited
  <2>3. CASE ~Present(e)
    <3>1. PICK p \in Publishers : pc[p] = "insert" /\ Current(p, e)
      BY <1>2, <2>1, <2>3 DEF RowMoves, Present
    <3>2. e \in plan[p]
      BY <3>1 DEF Current
    <3> QED  BY <3>1, <3>2 DEF Deposited
  <2> QED  BY <2>2, <2>3
<1>3. ASSUME NEW e \in Envs, row'[e].state = "in_flight"  PROVE row'[e].ifu # "null"
  <2>1. RowMoves(e)
    BY RowStep
  <2> QED  BY <1>3, <2>1 DEF RowMoves, Deposited
<1> QED  BY <1>1, <1>2, <1>3 DEF Deposited

\* The invariant of tasks and rows that the theorems below rest on.
TaskInv == TypeOK /\ TaskPlaces /\ PlansFresh /\ Deposited

LEMMA TaskInvariant == Spec => []TaskInv
<1>1. Init => TaskInv
  <2>1. Init => TypeOK
    BY InitType
  <2>2. Init => TaskPlaces /\ PlansFresh /\ Deposited
    BY TaskKinds DEF Init, TaskPlaces, PlansFresh, Deposited, Present, Stored, NoRow
  <2> QED  BY <2>1, <2>2 DEF TaskInv
<1>2. TaskInv /\ [Next]_vars => TaskInv'
  BY TypeStep, PlacesStep, PlansFreshStep, DepositedStep DEF TaskInv
<1> QED  BY <1>1, <1>2, PTL DEF Spec

\* No envelope is ever out of the sweeps' reach: whatever is owed is in the
\* mailbox of a registered endpoint, which part 2 and every boot list, and
\* whatever is in flight has a deadline, which part 1 looks for.
THEOREM NeverStranded == Spec => []NothingStranded
<1>1. TaskInv => NothingStranded
  BY DEF TaskInv, Deposited, NothingStranded, Present, Owed, Stored
<1> QED  BY <1>1, TaskInvariant, PTL

\* At most two tasks are ever awaiting deliver() for one envelope: the one
\* publisher that inserted it and the one loop that runs at a time.
THEOREM NeverThreeDeliveries == Spec => []AtMostTwoDeliveries
<1>1. TaskInv => AtMostTwoDeliveries
  <2> SUFFICES ASSUME TaskInv, NEW e \in Envs, NEW t \in Tasks, NEW u \in Tasks,
                      NEW v \in Tasks,
                      \A w \in {t, u, v} : pc[w] = "deliver" /\ Current(w, e)
               PROVE  t = u \/ u = v \/ t = v
    BY DEF AtMostTwoDeliveries
  <2>1. \A w \in {t, u, v} : w \in Publishers \/ w = "sweep" \/ w = "drain"
    BY DEF TaskInv, TaskPlaces, Tasks, Loops
  <2>2. \A p, q \in {t, u, v} : p \in Publishers /\ q \in Publishers => p = q
    BY DEF TaskInv, PlansFresh, Current
  <2>3. ~("sweep" \in {t, u, v} /\ "drain" \in {t, u, v})
    BY DEF TaskInv, TaskPlaces
  <2> QED  BY <2>1, <2>2, <2>3
<1> QED  BY <1>1, TaskInvariant, PTL


----------------------------------------------------------------------------
(* CountsBudgeted.                                                         *)

\* What a step does to the count of e and to those who may raise it.
CountKept(e) ==
  /\ row'[e].count = row[e].count /\ Budget' = Budget
  /\ Token(e)' => Token(e) \/ row[e].count < MaxAttempts
  /\ Open(e)' => Open(e) \/ (Token(e) /\ ~Token(e)') \/ row[e].count < MaxAttempts

CountRaised(e) ==
  /\ row'[e].count = row[e].count + 1 /\ Budget' = Budget
  /\ Token(e)' => Token(e)
  /\ Open(e)' => Open(e)
  /\ (Token(e) /\ ~Token(e)') \/ (Open(e) /\ ~Open(e)')

CountReset(e) == row'[e].count = 0 /\ Budget' >= MaxAttempts

BudgetRaised(e) ==
  /\ row'[e].count = row[e].count /\ Budget' = Budget + 1
  /\ Token(e)' => Token(e)

CountMoves(e) == CountKept(e) \/ CountRaised(e) \/ CountReset(e) \/ BudgetRaised(e)

LEMMA CountMovesSuffice ==
  ASSUME TypeOK, TypeOK', CountsBudgeted, NEW e \in Envs, CountMoves(e)
  PROVE  /\ row'[e].count <= Budget' + 1
         /\ row'[e].count = Budget' + 1 => ~Token(e)' /\ ~Open(e)'
         /\ Token(e)' /\ Open(e)' => row'[e].count < Budget'
<1> DEFINE n == row[e].count
           m == row'[e].count
<1>1. n \in Nat /\ m \in Nat /\ Budget \in Nat /\ Budget' \in Nat
  BY BusAssumption DEF TypeOK, Rows, Budget, Kinds
<1>2. MaxAttempts \in Nat /\ MaxAttempts >= 1 /\ Budget >= MaxAttempts /\ Budget' >= MaxAttempts
  BY BusAssumption DEF TypeOK, Budget, Kinds
<1>3. /\ n <= Budget + 1
      /\ n = Budget + 1 => ~Token(e) /\ ~Open(e)
      /\ Token(e) /\ Open(e) => n < Budget
  BY DEF CountsBudgeted
<1> HIDE DEF n, m
<1>4. CASE CountKept(e)
  BY <1>1, <1>2, <1>3, <1>4 DEF CountKept, n, m
<1>5. CASE CountRaised(e)
  BY <1>1, <1>2, <1>3, <1>5 DEF CountRaised, n, m
<1>6. CASE CountReset(e)
  <2>1. m = 0 /\ 0 < Budget' /\ 0 # Budget' + 1 /\ 0 <= Budget' + 1
    BY <1>1, <1>2, <1>6 DEF CountReset, m
  <2> QED  BY <2>1 DEF m
<1>7. CASE BudgetRaised(e)
  BY <1>1, <1>2, <1>3, <1>7 DEF BudgetRaised, n, m
<1> QED  BY <1>4, <1>5, <1>6, <1>7 DEF CountMoves

\* A step of another task leaves the token and the list of t as they are.
LEMMA OthersKeep ==
  ASSUME NEW e, NEW t,
         pc'[t] = pc[t], plan'[t] = plan[t], attempt'[t] = attempt[t]
  PROVE  (TokenOf(t, e)' <=> TokenOf(t, e)) /\ (InLoop(t, e)' <=> InLoop(t, e))
  BY DEF TokenOf, InLoop, Current, Exhausted


\* Task t leaves the hands of e, in the cases where it holds nothing after.
LEMMA NothingHeld ==
  ASSUME NEW e, NEW t, pc'[t] \notin {"dispatch", "deliver", "settle", "stale_settle"}
  PROVE  ~TokenOf(t, e)' /\ ~InLoop(t, e)'
  BY DEF TokenOf, InLoop

\* Only t moves, and no row: t may take on e only below max_delivery_attempts.
LEMMA OnlyTaskMoves ==
  ASSUME NEW t \in Tasks, NEW e \in Envs, row'[e].count = row[e].count,
         \A u \in Tasks \ {t} : pc'[u] = pc[u] /\ plan'[u] = plan[u] /\ attempt'[u] = attempt[u],
         t \in Publishers /\ TokenOf(t, e)' => TokenOf(t, e) \/ row[e].count < MaxAttempts,
         InLoop(t, e)' => \/ InLoop(t, e) \/ row[e].count < MaxAttempts
                          \/ row[e].state = "pending",
         row'[e].state = "pending" =>
           \/ row[e].state = "pending"
           \/ InLoop(t, e) /\ t \in {"sweep", "drain"},
         Budget' = Budget
  PROVE  CountKept(e)
<1>1. \A u \in Tasks \ {t} : (TokenOf(u, e)' <=> TokenOf(u, e)) /\ (InLoop(u, e)' <=> InLoop(u, e))
  BY OthersKeep
<1>2. Token(e)' => Token(e) \/ row[e].count < MaxAttempts
  <2> SUFFICES ASSUME NEW p \in Publishers, TokenOf(p, e)'
               PROVE  Token(e) \/ row[e].count < MaxAttempts
    BY DEF Token
  <2> QED  BY <1>1, TaskKinds DEF Token
<1>3. Open(e)' => Open(e) \/ row[e].count < MaxAttempts
  <2>1. CASE row'[e].state = "pending"
    BY <2>1 DEF Open
  <2>2. ASSUME NEW u \in {"sweep", "drain"}, InLoop(u, e)'
        PROVE  Open(e) \/ row[e].count < MaxAttempts
    BY <1>1, <2>2, TaskKinds DEF Open
  <2> QED  BY <2>1, <2>2 DEF Open
<1> QED  BY <1>2, <1>3 DEF CountKept

\* A task is done with f: it takes on nothing it did not have.
LEMMA AdvanceHolds ==
  ASSUME TypeOK, TaskPlaces, NEW t \in Tasks, t # "ttl", NEW f \in Envs, NEW e \in Envs,
         pc[t] \in {"dispatch", "deliver", "settle"}, Current(t, f),
         Advance(t, f, AgainFor(t), DoneFor(t))
  PROVE  /\ t \in Publishers => ~TokenOf(t, e)'
         /\ InLoop(t, e)' => e # f /\ InLoop(t, e)
<1> /\ plan \in [Tasks -> SUBSET Envs] /\ pc \in [Tasks -> Places]
  BY DEF TypeOK, Places
<1>1. plan'[t] = plan[t] \ {f} /\ pc'[t] = IF plan[t] = {f} THEN DoneFor(t) ELSE AgainFor(t)
  BY DEF Advance, Goto
<1>2. CASE t \in Publishers
  BY <1>1, <1>2, NothingHeld DEF AgainFor, DoneFor
<1>3. CASE t \notin Publishers
  <2>1. t \in {"sweep", "drain"}
    BY <1>3 DEF Tasks, Loops
  <2>2. CASE plan[t] = {f}
    BY <1>1, <1>3, <2>2, NothingHeld DEF DoneFor
  <2>3. CASE plan[t] # {f}
    <3>1. pc'[t] = "dispatch"
      BY <1>1, <1>3, <2>3 DEF AgainFor
    <3>3. InLoop(t, e)' => e \in plan[t] /\ e # f
      BY <1>1, <3>1 DEF InLoop, Current
    <3>4. e \in plan[t] /\ e # f => ~Current(t, e)
      BY CurrentUnique
    <3> QED  BY <1>3, <3>3, <3>4 DEF InLoop
  <2> QED  BY <2>2, <2>3
<1> QED  BY <1>2, <1>3


LEMMA StoreKeepsCount ==
  ASSUME TypeOK, NEW f \in Envs, NEW e \in Envs, NEW r \in Rows, Store(f, r),
         r.count = row[f].count
  PROVE  /\ row'[e].count = row[e].count
         /\ e # f => row'[e] = row[e]
         /\ row'[e].state = row[e].state \/ (e = f /\ row'[e].state = r.state)
<1>1. row' = row \/ row' = [row EXCEPT ![f] = r]
  BY DEF Store
<1>2. row \in [Envs -> Rows]
  BY DEF TypeOK
<1>3. CASE row' = row
  BY <1>3
<1>4. CASE row' = [row EXCEPT ![f] = r]
  BY <1>2, <1>4
<1> QED  BY <1>1, <1>3, <1>4

\* Only mark_in_flight changes a count, and only a requeue leads to pending.
LEMMA SettlingKeepsCount ==
  ASSUME TypeOK, NEW f \in Envs, NEW e \in Envs,
         MarkAcked(f) \/ MarkDeadLetter(f) \/ Expire(f)
  PROVE  /\ row'[e].count = row[e].count
         /\ row'[e].state = "pending" => row[e].state = "pending"
<1>1. row[f] \in Rows
  BY DEF TypeOK
<1>2. CASE MarkAcked(f)
  <2> DEFINE r == [row[f] EXCEPT !.state = "acked"]
  <2>1. r \in Rows /\ r.count = row[f].count /\ r.state = "acked"
    BY <1>1 DEF Rows, Stored
  <2> HIDE DEF r
  <2>2. Store(f, r)
    BY <1>2 DEF MarkAcked, r
  <2> QED  BY <2>1, <2>2, StoreKeepsCount
<1>3. CASE MarkDeadLetter(f)
  <2> DEFINE r == [row[f] EXCEPT !.state = "dead_letter"]
  <2>1. r \in Rows /\ r.count = row[f].count /\ r.state = "dead_letter"
    BY <1>1 DEF Rows, Stored
  <2> HIDE DEF r
  <2>2. Store(f, r)
    BY <1>3 DEF MarkDeadLetter, r
  <2> QED  BY <2>1, <2>2, StoreKeepsCount
<1>4. CASE Expire(f)
  <2> DEFINE r == [row[f] EXCEPT !.state = "expired"]
  <2>1. r \in Rows /\ r.count = row[f].count /\ r.state = "expired"
    BY <1>1 DEF Rows, Stored
  <2> HIDE DEF r
  <2>2. Store(f, r)
    BY <1>4 DEF Expire, r
  <2> QED  BY <2>1, <2>2, StoreKeepsCount
<1> QED  BY <1>2, <1>3, <1>4

LEMMA RequeueKeepsCount ==
  ASSUME TypeOK, NEW f \in Envs, NEW e \in Envs, Requeue(f) \/ RequeueWithBackoff(f)
  PROVE  /\ row'[e].count = row[e].count
         /\ row'[e].state = "pending" => row[e].state = "pending" \/ e = f
<1>1. row[f] \in Rows
  BY DEF TypeOK
<1>2. CASE Requeue(f)
  <2> DEFINE r == [row[f] EXCEPT !.state = "pending", !.ifu = "null", !.nat = "null"]
  <2>1. r \in Rows /\ r.count = row[f].count
    BY <1>1 DEF Rows, Stored
  <2> HIDE DEF r
  <2>2. Store(f, r)
    BY <1>2 DEF Requeue, r
  <2> QED  BY <1>2, <2>1, <2>2, StoreKeepsCount
<1>3. CASE RequeueWithBackoff(f)
  <2> DEFINE r == [row[f] EXCEPT !.state = "pending", !.ifu = "null", !.nat = "set"]
  <2>1. r \in Rows /\ r.count = row[f].count
    BY <1>1 DEF Rows, Stored
  <2> HIDE DEF r
  <2>2. Store(f, r)
    BY <1>3 DEF RequeueWithBackoff, r
  <2> QED  BY <1>3, <2>1, <2>2, StoreKeepsCount
<1> QED  BY <1>2, <1>3

LEMMA DispatchCounts ==
  ASSUME TypeOK, TaskPlaces, PlansFresh, NEW t \in Tasks, t # "ttl", NEW f \in Envs,
         Dispatch(t, f), NEW e \in Envs
  PROVE  CountMoves(e)
<1> /\ plan \in [Tasks -> SUBSET Envs] /\ pc \in [Tasks -> Places] /\ row \in [Envs -> Rows]
    /\ attempt \in [Tasks -> Nat] /\ Publishers \subseteq Tasks
  BY TaskKinds DEF TypeOK, Places
<1>1. /\ Current(t, f) /\ pc[t] \in {"dispatch", "deliver", "settle"} /\ f \in plan[t]
      /\ Budget' = Budget
  BY DEF Dispatch, DispatchMark, DispatchDrop, DeliverOk, DeliverUnavailable, DeliverError,
         Settle, Current, Budget
<1>2. \A u \in Tasks \ {t} : pc'[u] = pc[u] /\ plan'[u] = plan[u] /\ attempt'[u] = attempt[u]
  BY DEF Dispatch, DispatchMark, DispatchDrop, DeliverOk, DeliverUnavailable, DeliverError,
         Settle, Advance, Goto
<1>3. e # f => row'[e] = row[e] /\ ~Current(t, e)
  <2>1. row' = row \/ row' = [row EXCEPT ![f] = row'[f]]
    BY DEF Dispatch, DispatchMark, DispatchDrop, DeliverOk, DeliverUnavailable, DeliverError,
           Settle, DeadLetterOrBackoff, MarkInFlight, MarkDeadLetter, RequeueWithBackoff, Store
  <2> QED  BY <1>1, <2>1, CurrentUnique
<1>4. t \in Publishers \/ t \in {"sweep", "drain"}
  BY DEF Tasks, Loops
<1>5. CASE DispatchMark(t, f)
  <2>1. plan'[t] = plan[t] /\ pc[t] = "dispatch" /\ pc'[t] = "deliver"
    BY <1>5 DEF DispatchMark, Goto
  <2>2. ~TokenOf(t, e)' /\ (InLoop(t, e)' <=> e \in plan[t] /\ e # f)
    <3>1. Current(t, e)' <=> Current(t, e)
      BY <2>1 DEF Current
    <3> QED  BY <1>1, <1>3, <2>1, <3>1 DEF TokenOf, InLoop
  <2>3. InLoop(t, e)' => InLoop(t, e)
    BY <2>1, <2>2 DEF InLoop
  <2>4. CASE e # f \/ row' = row
    <3>1. row'[e] = row[e]
      BY <1>3, <2>4
    <3> QED  BY <1>1, <1>2, <2>2, <2>3, <3>1, OnlyTaskMoves DEF CountMoves
  <2>5. CASE e = f /\ row' # row
    <3>1. row'[e].count = row[e].count + 1 /\ row'[e].state = "in_flight"
      BY <1>5, <2>5 DEF DispatchMark, MarkInFlight, Store, Rows
    <3>2. \A u \in Tasks \ {t} : (TokenOf(u, e)' <=> TokenOf(u, e)) /\ (InLoop(u, e)' <=> InLoop(u, e))
      BY <1>2, OthersKeep
    <3>3. (Token(e)' => Token(e)) /\ (Open(e)' => Open(e))
      BY <2>2, <2>5, <3>1, <3>2, TaskKinds DEF Token, Open
    <3>4. CASE t \in Publishers
      <4>1. TokenOf(t, e)
        BY <1>1, <2>1, <2>5 DEF TokenOf
      <4>2. \A p \in Publishers : p # t => ~TokenOf(p, e)
        BY <1>1, <2>5, <3>4 DEF TokenOf, Current, PlansFresh
      <4>3. Token(e) /\ ~Token(e)'
        BY <2>2, <3>2, <3>4, <4>1, <4>2, TaskKinds DEF Token
      <4> QED  BY <1>1, <3>1, <3>3, <4>3 DEF CountRaised, CountMoves
    <3>5. CASE t \in {"sweep", "drain"}
      <4>1. InLoop(t, e)
        BY <1>1, <2>1, <2>5 DEF InLoop
      <4>2. \A u \in {"sweep", "drain"} : u # t => ~InLoop(u, e)
        BY <2>1, <3>5 DEF TaskPlaces, InLoop
      <4>3. Open(e) /\ ~Open(e)'
        BY <2>2, <2>5, <3>1, <3>2, <3>5, <4>1, <4>2, TaskKinds DEF Open
      <4> QED  BY <1>1, <3>1, <3>3, <4>3 DEF CountRaised, CountMoves
    <3> QED  BY <1>4, <3>4, <3>5
  <2> QED  BY <2>4, <2>5
<1>6. CASE Advance(t, f, AgainFor(t), DoneFor(t)) /\ (row' = row \/ MarkDeadLetter(f))
  <2>1. row'[e].count = row[e].count /\ (row'[e].state = "pending" => row[e].state = "pending")
    BY <1>6, SettlingKeepsCount
  <2> QED  BY <1>1, <1>2, <1>6, <2>1, AdvanceHolds, OnlyTaskMoves DEF CountMoves
<1>7. CASE DeliverUnavailable(t, f) /\ Present(f)
  <2>1. /\ row' = row /\ plan'[t] = plan[t] /\ pc[t] = "deliver" /\ pc'[t] = "settle"
        /\ attempt'[t] = row[f].count
    BY <1>7 DEF DeliverUnavailable, Goto
  <2>2. Current(t, e)' <=> e = f
    BY <1>1, <1>3, <2>1 DEF Current
  <2>3. e = f /\ ~Exhausted(t)' => row[e].count < MaxAttempts
    BY <2>1, BusAssumption DEF Exhausted, Rows
  <2>4. TokenOf(t, e)' => row[e].count < MaxAttempts
    BY <2>1, <2>2, <2>3 DEF TokenOf
  <2>5. InLoop(t, e)' => InLoop(t, e) \/ row[e].count < MaxAttempts
    BY <1>3, <2>1, <2>2, <2>3 DEF InLoop
  <2> QED  BY <1>1, <1>2, <2>1, <2>4, <2>5, OnlyTaskMoves DEF CountMoves
<1>8. CASE Settle(t, f)
  <2>1. Advance(t, f, AgainFor(t), DoneFor(t)) /\ pc[t] = "settle"
    BY <1>8 DEF Settle
  <2>2. /\ row'[e].count = row[e].count
        /\ row'[e].state = "pending" => row[e].state = "pending" \/ (e = f /\ ~Exhausted(t))
    <3>1. CASE Exhausted(t)
      BY <1>8, <3>1, SettlingKeepsCount DEF Settle, DeadLetterOrBackoff
    <3>2. CASE ~Exhausted(t)
      BY <1>8, <3>2, RequeueKeepsCount DEF Settle, DeadLetterOrBackoff
    <3> QED  BY <3>1, <3>2
  <2>3. CASE t \in {"sweep", "drain"} \/ e # f \/ Exhausted(t)
    <3>1. e = f /\ ~Exhausted(t) => InLoop(t, e)
      BY <1>1, <2>1 DEF InLoop
    <3> QED  BY <1>1, <1>2, <2>1, <2>2, <2>3, <3>1, AdvanceHolds, OnlyTaskMoves DEF CountMoves
  <2>4. CASE t \in Publishers /\ e = f /\ ~Exhausted(t)
    <3>1. \A u \in Tasks \ {t} : (TokenOf(u, e)' <=> TokenOf(u, e)) /\ (InLoop(u, e)' <=> InLoop(u, e))
      BY <1>2, OthersKeep
    <3>2. TokenOf(t, e) /\ ~TokenOf(t, e)'
      BY <1>1, <2>1, <2>4, AdvanceHolds DEF TokenOf
    <3>3. \A p \in Publishers : p # t => ~TokenOf(p, e)
      BY <1>1, <2>4 DEF TokenOf, Current, PlansFresh
    <3>4. Token(e) /\ ~Token(e)'
      BY <2>4, <3>1, <3>2, <3>3, TaskKinds DEF Token
    <3> QED  BY <1>1, <2>1, <2>2, <3>4 DEF CountKept, CountMoves
  <2> QED  BY <1>4, <2>3, <2>4
<1> QED  BY <1>5, <1>6, <1>7, <1>8 DEF Dispatch, DispatchDrop, DeliverOk, DeliverError,
            DeliverUnavailable


LEMMA RedeliveryCounts ==
  ASSUME TypeOK, TaskPlaces, PlansFresh, RedeliveryStep, NEW e \in Envs
  PROVE  CountMoves(e)
<1> /\ plan \in [Tasks -> SUBSET Envs] /\ pc \in [Tasks -> Places] /\ row \in [Envs -> Rows]
    /\ attempt \in [Tasks -> Nat] /\ "sweep" \in Tasks /\ "drain" \in Tasks
    /\ "sweep" \notin Publishers /\ "drain" \notin Publishers
  BY TaskKinds DEF TypeOK, Places
<1>1. CASE SweepBegin
  <2>1. /\ pc'["sweep"] \in {"stale", "visit"} /\ row' = row /\ Budget' = Budget
        /\ \A u \in Tasks \ {"sweep"} :
             pc'[u] = pc[u] /\ plan'[u] = plan[u] /\ attempt'[u] = attempt[u]
    BY <1>1 DEF SweepBegin, Begin, Goto, Budget
  <2>2. ~InLoop("sweep", e)'
    BY <2>1, NothingHeld
  <2> QED  BY <2>1, <2>2, OnlyTaskMoves DEF CountMoves
<1>2. ASSUME NEW f \in Envs, StaleRead(f)  PROVE CountMoves(e)
  <2>1. /\ row' = row /\ Budget' = Budget
        /\ \A u \in Tasks \ {"sweep"} :
             pc'[u] = pc[u] /\ plan'[u] = plan[u] /\ attempt'[u] = attempt[u]
    BY <1>2 DEF StaleRead, Advance, Goto, Budget
  <2>2. InLoop("sweep", e)' => row[e].count < MaxAttempts
    <3>1. CASE Present(f)
      <4>1. /\ plan'["sweep"] = plan["sweep"] /\ pc'["sweep"] = "stale_settle"
            /\ attempt'["sweep"] = row[f].count /\ Current("sweep", f)
        BY <1>2, <3>1 DEF StaleRead, Goto
      <4>2. Current("sweep", e)' => e = f
        BY <4>1, CurrentUnique DEF Current
      <4>3. InLoop("sweep", e)' => e = f /\ ~(row[f].count >= MaxAttempts)
        BY <4>1, <4>2 DEF InLoop, Exhausted
      <4>4. row[f].count \in Nat /\ MaxAttempts \in Nat
        BY BusAssumption DEF Rows
      <4> QED  BY <4>3, <4>4
    <3>2. CASE ~Present(f)
      <4>1. pc'["sweep"] \in {"stale", "visit"}
        BY <1>2, <3>2 DEF StaleRead, Advance, Goto
      <4> QED  BY <4>1, NothingHeld
    <3> QED  BY <3>1, <3>2
  <2> QED  BY <2>1, <2>2, OnlyTaskMoves DEF CountMoves
<1>3. ASSUME NEW f \in Envs, StaleSettle(f)  PROVE CountMoves(e)
  <2>1. /\ Budget' = Budget /\ Current("sweep", f) /\ pc["sweep"] = "stale_settle"
        /\ \A u \in Tasks \ {"sweep"} :
             pc'[u] = pc[u] /\ plan'[u] = plan[u] /\ attempt'[u] = attempt[u]
    BY <1>3 DEF StaleSettle, Advance, Goto, Budget
  <2>2. pc'["sweep"] \in {"stale", "visit"}
    BY <1>3 DEF StaleSettle, Advance, Goto
  <2>3. ~InLoop("sweep", e)'
    BY <2>2, NothingHeld
  <2>4. /\ row'[e].count = row[e].count
        /\ row'[e].state = "pending" =>
             row[e].state = "pending" \/ (e = f /\ ~Exhausted("sweep"))
    <3>1. CASE Exhausted("sweep")
      BY <1>3, <3>1, SettlingKeepsCount DEF StaleSettle, DeadLetterOrBackoff
    <3>2. CASE ~Exhausted("sweep")
      BY <1>3, <3>2, RequeueKeepsCount DEF StaleSettle, DeadLetterOrBackoff
    <3> QED  BY <3>1, <3>2
  <2>5. e = f /\ ~Exhausted("sweep") => InLoop("sweep", e)
    BY <2>1 DEF InLoop
  <2> QED  BY <2>1, <2>3, <2>4, <2>5, OnlyTaskMoves DEF CountMoves
<1>4. ASSUME NEW f \in Envs, Dispatch("sweep", f)  PROVE CountMoves(e)
  BY <1>4, DispatchCounts
<1>5. ASSUME NEW ep \in Endpoints, SweepVisit(ep)  PROVE CountMoves(e)
  <2>1. /\ row' = row /\ Budget' = Budget /\ plan'["sweep"] = DueNow(ep)
        /\ pc'["sweep"] \in {"dispatch", "visit"}
        /\ \A u \in Tasks \ {"sweep"} :
             pc'[u] = pc[u] /\ plan'[u] = plan[u] /\ attempt'[u] = attempt[u]
    BY <1>5 DEF SweepVisit, Begin, Goto, Budget
  <2>2. InLoop("sweep", e)' => row[e].state = "pending"
    BY <2>1 DEF InLoop, Current, DueNow, Pending
  <2> QED  BY <2>1, <2>2, OnlyTaskMoves DEF CountMoves
<1>6. ASSUME NEW due \in SUBSET Endpoints, SweepEnd(due)  PROVE CountMoves(e)
  <2>1. /\ row' = row /\ pc'["sweep"] = "idle" /\ pc'["drain"] \in {"idle", "visit"}
        /\ \A u \in Tasks \ {"sweep", "drain"} :
             pc'[u] = pc[u] /\ plan'[u] = plan[u] /\ attempt'[u] = attempt[u]
    BY <1>6 DEF SweepEnd
  <2>2. Budget' = Budget
    BY <1>6 DEF SweepEnd, Spend, Budget, TypeOK, Kinds
  <2>3. ~InLoop("sweep", e)' /\ ~InLoop("drain", e)'
    BY <2>1, NothingHeld
  <2>4. \A p \in Publishers : TokenOf(p, e)' <=> TokenOf(p, e)
    BY <2>1, OthersKeep, TaskKinds
  <2>5. (Token(e)' => Token(e)) /\ (Open(e)' => Open(e))
    BY <2>1, <2>3, <2>4 DEF Token, Open
  <2> QED  BY <2>1, <2>2, <2>5 DEF CountKept, CountMoves
<1> QED  BY <1>1, <1>2, <1>3, <1>4, <1>5, <1>6 DEF RedeliveryStep

LEMMA DrainCounts ==
  ASSUME TypeOK, TaskPlaces, PlansFresh, DrainStep, NEW e \in Envs
  PROVE  CountMoves(e)
<1> /\ plan \in [Tasks -> SUBSET Envs] /\ pc \in [Tasks -> Places]
    /\ "sweep" \in Tasks /\ "drain" \in Tasks
    /\ "sweep" \notin Publishers /\ "drain" \notin Publishers
  BY TaskKinds DEF TypeOK, Places
<1>1. ASSUME NEW ep \in Endpoints, NEW started \in BOOLEAN, NEW gone \in SUBSET Publishers,
             NEW lost \in Memories(ep), StartEndpoint(ep, started, gone, lost)
      PROVE  CountMoves(e)
  <2>1. row' = row /\ Budget' = Budget
    BY <1>1 DEF StartEndpoint, Budget
  <2>2. \A u \in Tasks \ ({"drain"} \cup gone) :
          pc'[u] = pc[u] /\ plan'[u] = plan[u] /\ attempt'[u] = attempt[u]
    BY <1>1 DEF StartEndpoint
  <2>3. \A p \in gone : ~TokenOf(p, e)'
    <3>1. \A p \in gone : pc'[p] = "idle"
      BY <1>1, TaskKinds DEF StartEndpoint
    <3> QED  BY <3>1, NothingHeld
  <2>4. \A p \in Publishers : TokenOf(p, e)' => TokenOf(p, e)
    BY <2>2, <2>3, OthersKeep, TaskKinds
  <2>5. InLoop("drain", e)' => row[e].state = "pending"
    <3>1. plan'["drain"] \subseteq Pending(ep) /\ pc'["drain"] \in {"visit", "dispatch"}
      BY <1>1 DEF StartEndpoint
    <3> QED  BY <3>1 DEF InLoop, Current, Pending
  <2>6. InLoop("sweep", e)' <=> InLoop("sweep", e)
    BY <2>2, OthersKeep
  <2>7. (Token(e)' => Token(e)) /\ (Open(e)' => Open(e))
    BY <2>1, <2>4, <2>5, <2>6 DEF Token, Open
  <2> QED  BY <2>1, <2>7 DEF CountKept, CountMoves
<1>2. ASSUME NEW f \in Envs, Dispatch("drain", f)  PROVE CountMoves(e)
  BY <1>2, DispatchCounts
<1>3. CASE DrainEnd
  <2>1. /\ row' = row /\ Budget' = Budget /\ pc'["drain"] = "idle"
        /\ \A u \in Tasks \ {"drain"} :
             pc'[u] = pc[u] /\ plan'[u] = plan[u] /\ attempt'[u] = attempt[u]
    BY <1>3 DEF DrainEnd, Goto, Budget
  <2>2. ~InLoop("drain", e)'
    BY <2>1, NothingHeld
  <2> QED  BY <2>1, <2>2, OnlyTaskMoves DEF CountMoves
<1> QED  BY <1>1, <1>2, <1>3 DEF DrainStep


\* The tasks that move lose what they have, and no row becomes pending.
LEMMA TasksLetGo ==
  ASSUME NEW e \in Envs, row'[e].count = row[e].count, Budget' = Budget,
         row'[e].state = "pending" => row[e].state = "pending",
         \A u \in Tasks : \/ pc'[u] = pc[u] /\ plan'[u] = plan[u] /\ attempt'[u] = attempt[u]
                          \/ pc'[u] \notin {"dispatch", "deliver", "settle", "stale_settle"}
  PROVE  CountMoves(e)
<1>1. \A u \in Tasks : (TokenOf(u, e)' => TokenOf(u, e)) /\ (InLoop(u, e)' => InLoop(u, e))
  BY OthersKeep, NothingHeld
<1>2. (Token(e)' => Token(e)) /\ (Open(e)' => Open(e))
  BY <1>1, TaskKinds DEF Token, Open
<1> QED  BY <1>2 DEF CountKept, CountMoves

LEMMA PublisherCounts ==
  ASSUME TypeOK, TaskPlaces, PlansFresh, NEW p \in Publishers, PublisherStep(p), NEW e \in Envs
  PROVE  CountMoves(e)
<1> /\ plan \in [Tasks -> SUBSET Envs] /\ pc \in [Tasks -> Places] /\ row \in [Envs -> Rows]
    /\ p \in Tasks
  BY TaskKinds DEF TypeOK, Places
<1>1. ASSUME NEW r \in todo[p], CheckRecipient(p, r)  PROVE CountMoves(e)
  <2>1. /\ row' = row /\ Budget' = Budget /\ pc'[p] \in {"idle", "check", "insert"}
        /\ \A u \in Tasks \ {p} :
             pc'[u] = pc[u] /\ plan'[u] = plan[u] /\ attempt'[u] = attempt[u]
    BY <1>1 DEF CheckRecipient, Goto, Budget
  <2> QED  BY <2>1, TasksLetGo
<1>2. ASSUME NEW f \in Envs, InsertRow(p, f)  PROVE CountMoves(e)
  <2>1. /\ Budget' = Budget /\ Current(p, f) /\ plan'[p] = plan[p] /\ pc'[p] = "dispatch"
        /\ \A u \in Tasks \ {p} :
             pc'[u] = pc[u] /\ plan'[u] = plan[u] /\ attempt'[u] = attempt[u]
    BY <1>2 DEF InsertRow, Goto, Budget
  <2>2. CASE e = f
    <3>1. row'[e].count = 0
      BY <1>2, <2>2 DEF InsertRow, Insert, NoRow
    <3>2. Budget >= MaxAttempts
      BY BusAssumption DEF Budget, TypeOK, Kinds
    <3> QED  BY <2>1, <3>1, <3>2 DEF CountReset, CountMoves
  <2>3. CASE e # f
    <3>1. row'[e] = row[e]
      BY <1>2, <2>3 DEF InsertRow, Insert
    <3>2. ~TokenOf(p, e)'
      BY <2>1, <2>3, CurrentUnique DEF TokenOf, Current
    <3>3. p \notin {"sweep", "drain"}
      BY TaskKinds
    <3>4. \A u \in Tasks \ {p} : (TokenOf(u, e)' => TokenOf(u, e)) /\ (InLoop(u, e)' => InLoop(u, e))
      BY <2>1, OthersKeep
    <3>5. (Token(e)' => Token(e)) /\ (Open(e)' => Open(e))
      BY <3>1, <3>2, <3>3, <3>4, TaskKinds DEF Token, Open
    <3> QED  BY <2>1, <3>1, <3>5 DEF CountKept, CountMoves
  <2> QED  BY <2>2, <2>3
<1>3. ASSUME NEW f \in Envs, Dispatch(p, f)  PROVE CountMoves(e)
  BY <1>3, DispatchCounts, TaskKinds
<1> QED  BY <1>1, <1>2, <1>3 DEF PublisherStep

LEMMA EndpointCounts ==
  ASSUME TypeOK, EndpointStep, NEW e \in Envs
  PROVE  CountMoves(e)
<1> /\ pc \in [Tasks -> Places] /\ row \in [Envs -> Rows]
  BY DEF TypeOK, Places
<1>1. ASSUME NEW p \in Publishers, NEW batch \in SUBSET Unused, Publish(p, batch)
      PROVE  CountMoves(e)
  <2>1. /\ row' = row /\ Budget' = Budget /\ pc'[p] = "check"
        /\ \A u \in Tasks \ {p} :
             pc'[u] = pc[u] /\ plan'[u] = plan[u] /\ attempt'[u] = attempt[u]
    BY <1>1, TaskKinds DEF Publish, Goto, Budget
  <2> QED  BY <2>1, TasksLetGo
<1>2. ASSUME NEW f \in Envs, Ack(f)  PROVE CountMoves(e)
  <2>1. MarkAcked(f) /\ UNCHANGED locals /\ Budget' = Budget
    BY <1>2 DEF Ack, Budget
  <2> QED  BY <2>1, SettlingKeepsCount, TasksLetGo DEF locals
<1>3. ASSUME NEW f \in Envs, Nack(f, FALSE)  PROVE CountMoves(e)
  <2>1. MarkDeadLetter(f) /\ UNCHANGED locals /\ Budget' = Budget
    BY <1>3 DEF Nack, Budget
  <2> QED  BY <2>1, SettlingKeepsCount, TasksLetGo DEF locals
<1>4. ASSUME NEW f \in Envs, Nack(f, TRUE)  PROVE CountMoves(e)
  <2>1. Requeue(f) /\ UNCHANGED locals /\ used'["nack"] = used["nack"] + 1
    BY <1>4 DEF Nack, Spend, TypeOK, Kinds
  <2>2. Budget' = Budget + 1
    <3>1. used["nack"] \in Nat /\ MaxAttempts \in Nat
      BY BusAssumption DEF TypeOK, Kinds
    <3> QED  BY <2>1, <3>1 DEF Budget
  <2>3. Token(e)' => Token(e)
    BY <2>1, OthersKeep DEF Token, locals
  <2> QED  BY <2>1, <2>2, <2>3, RequeueKeepsCount DEF BudgetRaised, CountMoves
<1>5. ASSUME NEW f \in Envs, Receive(f)  PROVE CountMoves(e)
  <2>1. row' = row /\ UNCHANGED locals /\ Budget' = Budget
    BY <1>5 DEF Receive, Budget
  <2> QED  BY <2>1, TasksLetGo DEF locals
<1> QED  BY <1>1, <1>2, <1>3, <1>4, <1>5 DEF EndpointStep

LEMMA OtherCounts ==
  ASSUME TypeOK, TaskPlaces, NEW e \in Envs,
         \/ TtlStep \/ (\E t \in Tasks : Raise(t)) \/ (\E f \in Envs : Clock(f))
         \/ OperatorStep \/ Boot \/ Crash \/ Shutdown \/ Close
  PROVE  CountMoves(e)
<1> /\ pc \in [Tasks -> Places] /\ row \in [Envs -> Rows] /\ plan \in [Tasks -> SUBSET Envs]
    /\ used \in [Kinds -> Nat]
  BY DEF TypeOK, Places
<1>0. \A k \in Kinds : k # "nack" /\ Spend(k) => Budget' = Budget
  BY DEF Spend, Budget, Kinds
<1>1. CASE TtlStep
  <2>1. /\ Budget' = Budget /\ pc'["ttl"] \in {"expire", "idle"}
        /\ \A u \in Tasks \ {"ttl"} :
             pc'[u] = pc[u] /\ plan'[u] = plan[u] /\ attempt'[u] = attempt[u]
    BY <1>1, TaskKinds DEF TtlStep, TtlBegin, TtlExpire, Begin, Advance, Goto, Budget
  <2>2. row' = row \/ \E f \in Envs : Expire(f)
    BY <1>1 DEF TtlStep, TtlBegin, TtlExpire
  <2>3. row'[e].count = row[e].count /\ (row'[e].state = "pending" => row[e].state = "pending")
    BY <2>2, SettlingKeepsCount
  <2> QED  BY <2>1, <2>3, TasksLetGo
<1>2. ASSUME NEW t \in Tasks, Raise(t)  PROVE CountMoves(e)
  <2>1. /\ row' = row /\ pc'[t] \in {"stale", "visit", "idle"}
        /\ \A u \in Tasks \ {t} :
             pc'[u] = pc[u] /\ plan'[u] = plan[u] /\ attempt'[u] = attempt[u]
    BY <1>2 DEF Raise, Advance, Goto
  <2>2. Budget' = Budget
    BY <1>0, <1>2 DEF Raise, Budget, Kinds
  <2> QED  BY <2>1, <2>2, TasksLetGo
<1>3. ASSUME NEW f \in Envs, Clock(f)  PROVE CountMoves(e)
  <2>1. row'[e].count = row[e].count /\ row'[e].state = row[e].state
    BY <1>3 DEF Clock, DeadlineLapses, BackoffElapses, ExpiryPasses, Rows
  <2>2. UNCHANGED locals /\ Budget' = Budget
    BY <1>3 DEF Clock, DeadlineLapses, BackoffElapses, ExpiryPasses, Budget
  <2> QED  BY <2>1, <2>2, TasksLetGo DEF locals
<1>4. ASSUME OperatorStep  PROVE CountMoves(e)
  <2>1. UNCHANGED locals /\ Budget' = Budget
    BY <1>0, <1>4 DEF OperatorStep, ResetForReplay, PurgeDlq, Budget, Kinds
  <2>2. row'[e] = row[e] \/ row'[e].count = 0
    BY <1>4 DEF OperatorStep, ResetForReplay, PurgeDlq, NoRow
  <2>3. Budget >= MaxAttempts
    BY BusAssumption DEF Budget, Kinds
  <2> QED  BY <2>1, <2>2, <2>3, TasksLetGo DEF locals, CountReset, CountMoves
<1>5. CASE Boot
  <2>1. /\ row' = row /\ Budget' = Budget /\ pc'["drain"] = "visit"
        /\ \A u \in Tasks \ {"drain"} :
             pc'[u] = pc[u] /\ plan'[u] = plan[u] /\ attempt'[u] = attempt[u]
    BY <1>5, TaskKinds DEF Boot, Goto, Budget
  <2> QED  BY <2>1, TasksLetGo
<1>6. CASE Crash \/ Close
  <2>1. row' = row /\ \A u \in Tasks : pc'[u] = "idle"
    BY <1>6 DEF Crash, Close, Vanish
  <2>2. Budget' = Budget
    BY <1>0, <1>6 DEF Crash, Close, Budget, Kinds
  <2> QED  BY <2>1, <2>2, TasksLetGo
<1>7. CASE Shutdown
  <2>1. /\ row' = row
        /\ \A u \in Tasks : \/ pc'[u] = pc[u] /\ plan'[u] = plan[u] /\ attempt'[u] = attempt[u]
                            \/ pc'[u] = "idle"
    BY <1>7 DEF Shutdown
  <2>2. Budget' = Budget
    BY <1>0, <1>7 DEF Shutdown, Kinds
  <2> QED  BY <2>1, <2>2, TasksLetGo
<1> QED  BY <1>1, <1>2, <1>3, <1>4, <1>5, <1>6, <1>7

LEMMA CountsBudgetedStep ==
  ASSUME TaskInv, TaskInv', CountsBudgeted, [Next]_vars
  PROVE  CountsBudgeted'
<1>1. ASSUME NEW e \in Envs  PROVE CountMoves(e)
  <2>1. CASE Next
    BY <2>1, PublisherCounts, RedeliveryCounts, DrainCounts, EndpointCounts, OtherCounts
       DEF Next, TaskInv
  <2>2. CASE UNCHANGED vars
    BY <2>2, TasksLetGo DEF vars, Budget
  <2> QED  BY <2>1, <2>2
<1> QED  BY <1>1, CountMovesSuffice DEF TaskInv, CountsBudgeted

\* However the publisher, the sweep, a restart and a boot race for one
\* envelope, its delivery_count passes max_delivery_attempts by one at most,
\* not counting what nack(requeue=True) allowed.
THEOREM AttemptsStayBounded == Spec => []AttemptsBounded
<1>1. Init => CountsBudgeted
  <2>1. ASSUME Init, NEW e \in Envs  PROVE row[e].count = 0 /\ Budget >= 1 /\ Budget \in Nat
    BY <2>1, BusAssumption DEF Init, NoRow, Budget, Kinds
  <2>2. ASSUME Init, NEW e \in Envs  PROVE ~Token(e)
    BY <2>2, TaskKinds DEF Init, Token, TokenOf
  <2> QED  BY <2>1, <2>2 DEF CountsBudgeted
<1>2. TaskInv /\ TaskInv' /\ CountsBudgeted /\ [Next]_vars => CountsBudgeted'
  BY CountsBudgetedStep
<1>3. TaskInv /\ CountsBudgeted => AttemptsBounded
  <2> SUFFICES ASSUME TaskInv, CountsBudgeted, NEW e \in Envs
               PROVE  row[e].count <= MaxAttempts + 1 + used["nack"]
    BY DEF AttemptsBounded
  <2>1. row[e].count \in Nat /\ used["nack"] \in Nat /\ MaxAttempts \in Nat
    BY BusAssumption DEF TaskInv, TypeOK, Rows, Kinds
  <2>2. row[e].count <= MaxAttempts + used["nack"] + 1
    BY DEF CountsBudgeted, Budget
  <2> QED  BY <2>1, <2>2
<1> QED  BY <1>1, <1>2, <1>3, TaskInvariant, PTL DEF Spec

\* Both bounds on the deliveries of one envelope: how many, and how many at
\* once.
THEOREM DeliveriesStayBounded == Spec => []DeliveriesBounded
  BY AttemptsStayBounded, NeverThreeDeliveries, PTL DEF DeliveriesBounded

----------------------------------------------------------------------------
(* The bus implements Mailbox.                                             *)

\* Somebody has e: a task that listed it, or the endpoint that received it.
Grasped(e) == e \in inbox \/ \E t \in Tasks : e \in plan[t]

\* What anybody begins to hold is owed, or about to be inserted.
GraspMoves(e) == Grasped(e)' => Grasped(e) \/ row[e].state \in Owed \cup {"absent"}

LEMMA InboxAndPlan ==
  ASSUME NEW e \in Envs, inbox' \subseteq inbox,
         \A t \in Tasks : \/ plan'[t] \subseteq plan[t]
                          \/ plan'[t] \subseteq {f \in Envs : row[f].state \in Owed \cup {"absent"}}
  PROVE  GraspMoves(e)
  BY DEF GraspMoves, Grasped

LEMMA DispatchGrasps ==
  ASSUME TypeOK, NEW t \in Tasks, NEW f \in Envs, Dispatch(t, f), NEW e \in Envs
  PROVE  GraspMoves(e)
<1> plan \in [Tasks -> SUBSET Envs]
  BY DEF TypeOK
<1>1. \A u \in Tasks : plan'[u] \subseteq plan[u]
  BY DEF Dispatch, DispatchMark, DispatchDrop, DeliverOk, DeliverUnavailable, DeliverError,
         Settle, Advance
<1>2. inbox' = inbox
  BY DEF Dispatch, DispatchMark, DispatchDrop, DeliverOk, DeliverUnavailable, DeliverError,
         Settle
<1> QED  BY <1>1, <1>2, InboxAndPlan

LEMMA GraspStep ==
  ASSUME TypeOK, [Next]_vars, NEW e \in Envs
  PROVE  GraspMoves(e)
<1> /\ plan \in [Tasks -> SUBSET Envs] /\ Publishers \subseteq Tasks
  BY TaskKinds DEF TypeOK
<1>1. ASSUME NEW p \in Publishers, PublisherStep(p)  PROVE GraspMoves(e)
  <2>1. ASSUME NEW r \in todo[p], CheckRecipient(p, r)  PROVE GraspMoves(e)
    BY <2>1, InboxAndPlan DEF CheckRecipient
  <2>2. ASSUME NEW f \in Envs, InsertRow(p, f)  PROVE GraspMoves(e)
    BY <2>2, InboxAndPlan DEF InsertRow
  <2> QED  BY <1>1, <2>1, <2>2, DispatchGrasps DEF PublisherStep
<1>2. CASE RedeliveryStep
  <2>1. CASE SweepBegin
    BY <2>1, InboxAndPlan DEF SweepBegin, Begin, Stale, Owed
  <2>2. ASSUME NEW f \in Envs, StaleRead(f) \/ StaleSettle(f)  PROVE GraspMoves(e)
    BY <2>2, InboxAndPlan DEF StaleRead, StaleSettle, Advance
  <2>3. ASSUME NEW ep \in Endpoints, SweepVisit(ep)  PROVE GraspMoves(e)
    BY <2>3, InboxAndPlan DEF SweepVisit, Begin, DueNow, Pending, Owed
  <2>4. ASSUME NEW due \in SUBSET Endpoints, SweepEnd(due)  PROVE GraspMoves(e)
    BY <2>4, InboxAndPlan DEF SweepEnd
  <2> QED  BY <1>2, <2>1, <2>2, <2>3, <2>4, DispatchGrasps, TaskKinds DEF RedeliveryStep
<1>3. CASE DrainStep
  <2>1. ASSUME NEW ep \in Endpoints, NEW started \in BOOLEAN, NEW gone \in SUBSET Publishers,
               NEW lost \in Memories(ep), StartEndpoint(ep, started, gone, lost)
        PROVE  GraspMoves(e)
    BY <2>1, InboxAndPlan DEF StartEndpoint, Pending, Owed
  <2>2. CASE DrainEnd
    BY <2>2, InboxAndPlan DEF DrainEnd
  <2> QED  BY <1>3, <2>1, <2>2, DispatchGrasps, TaskKinds DEF DrainStep
<1>4. CASE TtlStep
  BY <1>4, InboxAndPlan DEF TtlStep, TtlBegin, TtlExpire, Begin, Advance, Expired
<1>5. CASE EndpointStep
  <2>1. ASSUME NEW f \in Envs, Receive(f)  PROVE GraspMoves(e)
    BY <2>1 DEF Receive, Delivering, Current, locals, GraspMoves, Grasped
  <2> QED  BY <1>5, <2>1, InboxAndPlan DEF EndpointStep, Publish, Unused, Ack, Nack, Forget, locals
<1>6. ASSUME NEW t \in Tasks, Raise(t)  PROVE GraspMoves(e)
  BY <1>6, InboxAndPlan DEF Raise, Advance
<1>7. CASE (\E f \in Envs : Clock(f)) \/ OperatorStep
  BY <1>7, InboxAndPlan DEF Clock, DeadlineLapses, BackoffElapses, ExpiryPasses, OperatorStep,
                            ResetForReplay, PurgeDlq, locals
<1>8. CASE Boot \/ Crash \/ Shutdown \/ Close
  BY <1>8, InboxAndPlan DEF Boot, Crash, Shutdown, Close, Vanish, Forget
<1>9. CASE UNCHANGED vars
  BY <1>9, InboxAndPlan DEF vars
<1> QED  BY <1>1, <1>2, <1>3, <1>4, <1>5, <1>6, <1>7, <1>8, <1>9 DEF Next

\* How a step changes the table.
Accepted(f)   == row[f].state = "absent" /\ Insert(f) /\ UNCHANGED <<plan, inbox>>
Attempted(f)  == Grasped(f) /\ MarkInFlight(f)
WasSettled(f) == Grasped(f) /\ (MarkAcked(f) \/ MarkDeadLetter(f) \/ Expire(f))
WasPutBack(f) == Grasped(f) /\ (Requeue(f) \/ RequeueWithBackoff(f))
Aged == \A e \in Envs : row'[e].state = row[e].state /\ row'[e].count = row[e].count

TableMoves ==
  \/ \E f \in Envs : Accepted(f) \/ Attempted(f) \/ WasSettled(f) \/ WasPutBack(f)
  \/ \E f \in Envs : ResetForReplay(f)
  \/ \E old \in SUBSET Envs : PurgeDlq(old)
  \/ Aged

LEMMA DispatchTable ==
  ASSUME NEW t \in Tasks, NEW f \in Envs, Dispatch(t, f)
  PROVE  TableMoves
<1>1. Grasped(f)
  BY DEF Dispatch, DispatchMark, DispatchDrop, DeliverOk, DeliverUnavailable, DeliverError,
         Settle, Current, Grasped
<1>2. row' = row \/ MarkInFlight(f) \/ MarkDeadLetter(f) \/ RequeueWithBackoff(f)
  BY DEF Dispatch, DispatchMark, DispatchDrop, DeliverOk, DeliverUnavailable, DeliverError,
         Settle, DeadLetterOrBackoff
<1> QED  BY <1>1, <1>2 DEF TableMoves, Attempted, WasSettled, WasPutBack, Aged

LEMMA TableStep ==
  ASSUME TaskInv, [Next]_vars
  PROVE  TableMoves
<1> /\ row \in [Envs -> Rows] /\ Publishers \subseteq Tasks
  BY TaskKinds DEF TaskInv, TypeOK
<1>1. CASE row' = row
  BY <1>1 DEF TableMoves, Aged
<1>2. ASSUME NEW p \in Publishers, PublisherStep(p)  PROVE TableMoves
  <2>1. ASSUME NEW f \in Envs, InsertRow(p, f)  PROVE TableMoves
    <3>1. row[f].state = "absent" /\ Insert(f) /\ UNCHANGED <<plan, inbox>>
      BY <2>1 DEF InsertRow, Current, TaskInv, PlansFresh, Inserted
    <3> QED  BY <3>1 DEF TableMoves, Accepted
  <2>2. ASSUME NEW r \in todo[p], CheckRecipient(p, r)  PROVE row' = row
    BY <2>2 DEF CheckRecipient
  <2> QED  BY <1>1, <1>2, <2>1, <2>2, DispatchTable DEF PublisherStep
<1>3. CASE RedeliveryStep
  <2>1. ASSUME NEW f \in Envs, StaleSettle(f)  PROVE TableMoves
    <3>1. Grasped(f) /\ (MarkDeadLetter(f) \/ RequeueWithBackoff(f))
      BY <2>1, TaskKinds DEF StaleSettle, DeadLetterOrBackoff, Current, Grasped
    <3> QED  BY <3>1 DEF TableMoves, WasSettled, WasPutBack
  <2> QED  BY <1>1, <1>3, <2>1, DispatchTable, TaskKinds
           DEF RedeliveryStep, SweepBegin, StaleRead, SweepVisit, SweepEnd
<1>4. CASE DrainStep
  BY <1>1, <1>4, DispatchTable, TaskKinds DEF DrainStep, StartEndpoint, DrainEnd
<1>5. CASE TtlStep
  <2>1. ASSUME NEW f \in Envs, TtlExpire(f)  PROVE Grasped(f) /\ Expire(f)
    BY <2>1, TaskKinds DEF TtlExpire, Current, Grasped
  <2> QED  BY <1>1, <1>5, <2>1 DEF TtlStep, TtlBegin, TableMoves, WasSettled
<1>6. CASE EndpointStep
  BY <1>1, <1>6 DEF EndpointStep, Publish, Receive, Ack, Nack, TableMoves, WasSettled,
                    WasPutBack, Grasped
<1>7. ASSUME NEW f \in Envs, Clock(f)  PROVE Aged
  BY <1>7 DEF Clock, DeadlineLapses, BackoffElapses, ExpiryPasses, Aged, Rows
<1>8. CASE OperatorStep
  BY <1>8 DEF OperatorStep, TableMoves
<1>9. CASE (\E t \in Tasks : Raise(t)) \/ Boot \/ Crash \/ Shutdown \/ Close
  BY <1>1, <1>9 DEF Raise, Boot, Crash, Shutdown, Close, Vanish
<1>10. CASE UNCHANGED vars
  BY <1>1, <1>10 DEF vars
<1> QED  BY <1>2, <1>3, <1>4, <1>5, <1>6, <1>7, <1>8, <1>9, <1>10 DEF Next, TableMoves


LEMMA StoreStatus ==
  ASSUME TypeOK, NEW f \in Envs, NEW r \in Rows, Store(f, r), Present(f), r.state \in Stored
  PROVE  /\ Status' = [Status EXCEPT ![f] = IF r.state \in Owed THEN "owed" ELSE r.state]
         /\ Attempts' = [Attempts EXCEPT ![f] = r.count]
         /\ \A e \in Envs : Present(e)' => Present(e)
<1>1. row \in [Envs -> Rows] /\ row' = [row EXCEPT ![f] = r]
  BY DEF TypeOK, Store
<1>2. Status' = [Status EXCEPT ![f] = IF r.state \in Owed THEN "owed" ELSE r.state]
  BY <1>1 DEF Status
<1>3. Attempts' = [Attempts EXCEPT ![f] = r.count]
  BY <1>1 DEF Attempts
<1>4. \A e \in Envs : Present(e)' => Present(e)
  BY <1>1 DEF Present
<1> QED  BY <1>2, <1>3, <1>4

\* What the UPDATEs make of the status and the attempts of f.
LEMMA AttemptStatus ==
  ASSUME TypeOK, NEW f \in Envs, Present(f), MarkInFlight(f)
  PROVE  /\ Status' = [Status EXCEPT ![f] = "owed"]
         /\ Attempts' = [Attempts EXCEPT ![f] = row[f].count + 1]
         /\ \A e \in Envs : Present(e)' => Present(e)
<1>1. row[f] \in Rows /\ row[f].count + 1 \in Nat
  BY DEF TypeOK, Rows
<1>2. CASE MarkInFlight(f)
  <2> DEFINE r == [row[f] EXCEPT !.state = "in_flight", !.count = @ + 1, !.ifu = "set"]
  <2>1. r \in Rows /\ r.count = row[f].count + 1 /\ r.state = "in_flight"
    BY <1>1 DEF Rows, Stored
  <2>2. Store(f, r)
    BY <1>2 DEF MarkInFlight
  <2> HIDE DEF r
  <2> QED  BY <2>1, <2>2, StoreStatus DEF Stored, Owed
<1> QED  BY <1>2

LEMMA PutBackStatus ==
  ASSUME TypeOK, NEW f \in Envs, Present(f), Requeue(f) \/ RequeueWithBackoff(f)
  PROVE  /\ Status' = [Status EXCEPT ![f] = "owed"]
         /\ Attempts' = [Attempts EXCEPT ![f] = row[f].count]
         /\ \A e \in Envs : Present(e)' => Present(e)
<1>1. row[f] \in Rows /\ row[f].count + 1 \in Nat
  BY DEF TypeOK, Rows
<1>2. CASE Requeue(f)
  <2> DEFINE r == [row[f] EXCEPT !.state = "pending", !.ifu = "null", !.nat = "null"]
  <2>1. r \in Rows /\ r.count = row[f].count /\ r.state = "pending"
    BY <1>1 DEF Rows, Stored
  <2>2. Store(f, r)
    BY <1>2 DEF Requeue
  <2> HIDE DEF r
  <2> QED  BY <2>1, <2>2, StoreStatus DEF Stored, Owed
<1>3. CASE RequeueWithBackoff(f)
  <2> DEFINE r == [row[f] EXCEPT !.state = "pending", !.ifu = "null", !.nat = "set"]
  <2>1. r \in Rows /\ r.count = row[f].count /\ r.state = "pending"
    BY <1>1 DEF Rows, Stored
  <2>2. Store(f, r)
    BY <1>3 DEF RequeueWithBackoff
  <2> HIDE DEF r
  <2> QED  BY <2>1, <2>2, StoreStatus DEF Stored, Owed
<1> QED  BY <1>2, <1>3

LEMMA SettleStatus ==
  ASSUME TypeOK, NEW f \in Envs, Present(f), MarkAcked(f) \/ MarkDeadLetter(f) \/ Expire(f)
  PROVE  /\ \E s \in {"acked", "dead_letter", "expired"} :
              Status' = [Status EXCEPT ![f] = s]
         /\ Attempts' = [Attempts EXCEPT ![f] = row[f].count]
         /\ \A e \in Envs : Present(e)' => Present(e)
<1>1. row[f] \in Rows /\ row[f].count + 1 \in Nat
  BY DEF TypeOK, Rows
<1>2. CASE MarkAcked(f)
  <2> DEFINE r == [row[f] EXCEPT !.state = "acked"]
  <2>1. r \in Rows /\ r.count = row[f].count /\ r.state = "acked"
    BY <1>1 DEF Rows, Stored
  <2>2. Store(f, r)
    BY <1>2 DEF MarkAcked
  <2> HIDE DEF r
  <2> QED  BY <2>1, <2>2, StoreStatus DEF Stored, Owed
<1>3. CASE MarkDeadLetter(f)
  <2> DEFINE r == [row[f] EXCEPT !.state = "dead_letter"]
  <2>1. r \in Rows /\ r.count = row[f].count /\ r.state = "dead_letter"
    BY <1>1 DEF Rows, Stored
  <2>2. Store(f, r)
    BY <1>3 DEF MarkDeadLetter
  <2> HIDE DEF r
  <2> QED  BY <2>1, <2>2, StoreStatus DEF Stored, Owed
<1>4. CASE Expire(f)
  <2> DEFINE r == [row[f] EXCEPT !.state = "expired"]
  <2>1. r \in Rows /\ r.count = row[f].count /\ r.state = "expired"
    BY <1>1 DEF Rows, Stored
  <2>2. Store(f, r)
    BY <1>4 DEF Expire
  <2> HIDE DEF r
  <2> QED  BY <2>1, <2>2, StoreStatus DEF Stored, Owed
<1> QED  BY <1>2, <1>3, <1>4

\* An UPDATE of a row that is gone.
LEMMA UpdateOfNothing ==
  ASSUME NEW f \in Envs, ~Present(f),
         \/ MarkInFlight(f) \/ MarkAcked(f) \/ MarkDeadLetter(f) \/ Expire(f)
         \/ Requeue(f) \/ RequeueWithBackoff(f)
  PROVE  row' = row
  BY DEF MarkInFlight, MarkAcked, MarkDeadLetter, Expire, Requeue, RequeueWithBackoff, Store

LEMMA CustodyOfOwed ==
  ASSUME TypeOK, [Next]_vars, \A e \in Envs : Present(e)' => Present(e)
  PROVE  Promise!Custody
<1> SUFFICES ASSUME NEW e \in Envs, e \in Custody', e \notin Custody
             PROVE  Status[e] = "owed"
  BY DEF Promise!Custody, Custody
<1>1. Present(e) /\ Grasped(e)' /\ ~Grasped(e)
  BY DEF Custody, Grasped
<1>2. row[e].state \in Owed
  BY <1>1, GraspStep DEF GraspMoves, Present, Stored
<1> QED  BY <1>2 DEF Status

\* What is held and in the table may be tried, settled or put back.
LEMMA InCustody ==
  ASSUME NEW f \in Envs, Grasped(f), Present(f)
  PROVE  f \in Custody /\ Status[f] \in Promise!Known /\ Attempts[f] = row[f].count
<1>1. f \in Custody /\ Attempts[f] = row[f].count
  BY DEF Custody, Grasped, Attempts
<1>2. Status[f] \in Promise!Known
  BY DEF Status, Present, Stored, Promise!Known, Promise!Settled, Owed
<1> QED  BY <1>1, <1>2

LEMMA SameTable ==
  ASSUME TypeOK, [Next]_vars, TypeOK', Aged
  PROVE  Promise!HandOver
<1>1. Status' = Status /\ Attempts' = Attempts
  BY DEF Aged, Status, Attempts
<1>2. \A e \in Envs : Present(e)' => Present(e)
  BY DEF Aged, Present
<1> QED  BY <1>1, <1>2, CustodyOfOwed DEF Promise!HandOver

LEMMA AcceptedStatus ==
  ASSUME TypeOK, NEW f \in Envs, Accepted(f)
  PROVE  Promise!Accept(f)
<1>1. /\ row \in [Envs -> Rows] /\ row[f].state = "absent"
      /\ UNCHANGED <<plan, inbox>>
      /\ \A e \in Envs \ {f} : row'[e] = row[e]
      /\ row'[f].state = "pending" /\ row'[f].count = 0
  BY DEF TypeOK, Accepted, Insert, NoRow
<1>2. Status[f] = "absent" /\ Status' = [Status EXCEPT ![f] = "owed"]
  BY <1>1 DEF Status, Owed
<1>3. Attempts' = [Attempts EXCEPT ![f] = 0]
  BY <1>1 DEF Attempts
<1>4. Custody' \subseteq Custody \cup {f}
  BY <1>1 DEF Custody, Present
<1> QED  BY <1>2, <1>3, <1>4 DEF Promise!Accept, Promise!Becomes

LEMMA OperatorStatus ==
  ASSUME TypeOK, [Next]_vars,
         (\E f \in Envs : ResetForReplay(f)) \/ (\E old \in SUBSET Envs : PurgeDlq(old))
  PROVE  \/ \E f \in Envs : Promise!Replay(f)
         \/ \E old \in SUBSET Envs : Promise!Purge(old)
<1> row \in [Envs -> Rows]
  BY DEF TypeOK
<1>1. ASSUME NEW f \in Envs, ResetForReplay(f)  PROVE Promise!Replay(f)
  <2>1. /\ row[f].state = "dead_letter"
        /\ \A e \in Envs \ {f} : row'[e] = row[e]
        /\ row'[f].state = "pending" /\ row'[f].count = 0
    BY <1>1 DEF ResetForReplay, NoRow
  <2>2. Status[f] = "dead_letter" /\ Status' = [Status EXCEPT ![f] = "owed"]
    BY <2>1 DEF Status, Owed
  <2>3. Attempts' = [Attempts EXCEPT ![f] = 0]
    BY <2>1 DEF Attempts
  <2>4. \A e \in Envs : Present(e)' => Present(e)
    BY <2>1 DEF Present, Stored
  <2> QED  BY <2>2, <2>3, <2>4, CustodyOfOwed DEF Promise!Replay, Promise!Becomes
<1>2. ASSUME NEW old \in SUBSET Envs, PurgeDlq(old)  PROVE Promise!Purge(old)
  <2>1. /\ \A e \in old : row[e].state = "dead_letter"
        /\ \A e \in Envs : IF e \in old THEN row'[e].state = "purged" /\ row'[e].count = 0
                                        ELSE row'[e] = row[e]
    BY <1>2 DEF PurgeDlq, NoRow
  <2>2. /\ \A e \in old : Status[e] = "dead_letter"
        /\ Status' = [e \in Envs |-> IF e \in old THEN "purged" ELSE Status[e]]
    BY <2>1 DEF Status, Owed
  <2>3. Attempts' = [e \in Envs |-> IF e \in old THEN 0 ELSE Attempts[e]]
    BY <2>1 DEF Attempts
  <2>4. \A e \in Envs : Present(e)' => Present(e)
    BY <2>1 DEF Present, Stored
  <2> QED  BY <2>2, <2>3, <2>4, CustodyOfOwed DEF Promise!Purge
<1> QED  BY <1>1, <1>2

LEMMA RefineStep ==
  ASSUME TaskInv, TaskInv', [Next]_vars
  PROVE  Promise!Next
<1> TypeOK /\ TypeOK'
  BY DEF TaskInv
<1>1. CASE \E f \in Envs : Accepted(f)
  BY <1>1, AcceptedStatus DEF Promise!Next
<1>2. ASSUME NEW f \in Envs, Attempted(f) \/ WasSettled(f) \/ WasPutBack(f)
      PROVE  Promise!Next
  <2>1. CASE ~Present(f)
    <3>1. row' = row
      BY <1>2, <2>1, UpdateOfNothing DEF Attempted, WasSettled, WasPutBack
    <3> QED  BY <3>1, SameTable DEF Aged, Promise!Next
  <2>2. CASE Present(f)
    <3>1. f \in Custody /\ Status[f] \in Promise!Known /\ Attempts[f] = row[f].count
      BY <1>2, <2>2, InCustody DEF Attempted, WasSettled, WasPutBack
    <3>2. CASE Attempted(f)
      BY <2>2, <3>1, <3>2, AttemptStatus, CustodyOfOwed
         DEF Attempted, Promise!Attempt, Promise!Becomes, Promise!Next
    <3>3. CASE WasSettled(f)
      <4>1. PICK s \in Promise!Settled : Promise!Settle(f, s)
        BY <2>2, <3>1, <3>3, SettleStatus, CustodyOfOwed
           DEF WasSettled, Promise!Settle, Promise!Becomes, Promise!Settled
      <4> QED  BY <4>1 DEF Promise!Next
    <3>4. CASE WasPutBack(f)
      BY <2>2, <3>1, <3>4, PutBackStatus, CustodyOfOwed
         DEF WasPutBack, Promise!PutBack, Promise!Becomes, Promise!Next
    <3> QED  BY <1>2, <3>2, <3>3, <3>4
  <2> QED  BY <2>1, <2>2
<1>3. CASE (\E f \in Envs : ResetForReplay(f)) \/ (\E old \in SUBSET Envs : PurgeDlq(old))
  BY <1>3, OperatorStatus DEF Promise!Next
<1>4. CASE Aged
  BY <1>4, SameTable DEF Promise!Next
<1> QED  BY <1>1, <1>2, <1>3, <1>4, TableStep DEF TableMoves

\* The bus keeps the promise of Mailbox (persistence.py and core.py together):
\* out of custody a settled envelope changes by the operator's hand alone,
\* custody begins on owed envelopes only, and a count rises one at a time.
THEOREM ImplementsMailbox == Spec => MailboxSpec
<1>1. Init => Promise!Init
  <2> SUFFICES ASSUME Init  PROVE Promise!Init
    OBVIOUS
  <2>1. Status = [e \in Envs |-> "absent"] /\ Attempts = [e \in Envs |-> 0]
    BY DEF Init, NoRow, Status, Attempts, Owed
  <2>2. Custody = {}
    BY DEF Init, Custody
  <2> QED  BY <2>1, <2>2 DEF Promise!Init
<1>2. TaskInv /\ TaskInv' /\ [Next]_vars => [Promise!Next]_(Promise!vars)
  BY RefineStep
<1> QED  BY <1>1, <1>2, TaskInvariant, PTL DEF Spec, MailboxSpec, Promise!Spec


=============================================================================
