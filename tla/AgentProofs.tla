---------------------------- MODULE AgentProofs ----------------------------
(***************************************************************************)
(* Proofs about an agent's side: its mailbox, for every set of envelopes,  *)
(* every number of tool calls at once, every size of the broker's queue    *)
(* and any number of disturbances, and then the parts of AgentSide, one    *)
(* after the other. For each there is the inductive invariant, that the    *)
(* initial state has it and every step keeps it, and the property that     *)
(* follows.                                                                *)
(***************************************************************************)
EXTENDS AgentMailbox, AgentSide, CommonLemmas

-----------------------------------------------------------------------------
(* AgentMailbox                                                            *)

\* A tool call works on envelopes that are in the queue, or that the agent was
\* given: what another call takes out of the queue, it returns to the agent.
CallsAreInformed ==
  \A c \in Callers :
    /\ call[c].todo \subseteq call[c].ids
    /\ call[c].ids \subseteq pending \cup known

Inv == TypeOK /\ NothingUnannounced /\ CallsAreInformed /\ SettledIsSeen

\* Steps of the bus, the wake and the relay that leave rows, calls and
\* monitors, and take nothing out of the queue or from the agent's knowledge.
Grows ==
  /\ UNCHANGED <<call, cutOff>>
  /\ pending \subseteq pending' /\ known \subseteq known'
  /\ \A e \in Mail : row'[e] = "settled" => row[e] = "settled"

----------------------------------------------------------------------------
\* The part of TypeOK about Booleans.
Flags == started \in BOOLEAN /\ attached \in BOOLEAN /\ overdue \in BOOLEAN

LEMMA NoCallIsCall == NoCall \in Calls
  BY DEF NoCall, Calls

LEMMA InitInv == ASSUME Init  PROVE Inv
<1>1. TypeOK
  <2>1. call \in [Callers -> Calls]
    BY NoCallIsCall DEF Init
  <2>2. Flags
    BY DEF Init, Flags
  <2>3. inbox \in 0..QueueMax /\ used \in Nat
    BY AgentMailboxAssumption DEF Init, AgentMailboxAssumption
  <2> QED  BY <2>1, <2>2, <2>3 DEF Init, TypeOK, Flags
<1> QED  BY <1>1 DEF Init, Inv, NothingUnannounced, CallsAreInformed, SettledIsSeen, NoCall

LEMMA BeginType ==
  ASSUME TypeOK, NEW c \in Callers, NEW ids \in SUBSET Mail,
         NEW tool \in {"consume", "ack", "nack", "publishing"}, Begin(c, tool, ids)
  PROVE  call' \in [Callers -> Calls]
  BY DEF TypeOK, Begin, Calls

LEMMA TypeStep == ASSUME TypeOK, [Next]_vars  PROVE TypeOK'
<1> USE AgentMailboxAssumption DEF AgentMailboxAssumption, TypeOK, bus, timer, sidecar, monitors, Disturbed
<1>1. ASSUME NEW e \in Mail, Accept(e) \/ List(e) \/ GiveUp(e) \/ Deliver(e)  PROVE TypeOK'
  BY <1>1 DEF Accept, List, GiveUp, Deliver, NotifyMailArrived, Rearm
<1>2. CASE WakeStep
  <2>1. Flags'
    BY <1>2 DEF WakeStep, DebounceElapses, PushReturns, PushFails, MissingAckOutbound, Flags
  <2> QED
    BY <1>2, <2>1 DEF WakeStep, DebounceElapses, PushReturns, PushFails, MissingAckOutbound,
              NotifyMailArrived, Rearm, Publish, Subscribed, Flags
<1>3. CASE ListPending
  BY <1>3 DEF ListPending
<1>4. ASSUME NEW c \in Callers, Consume(c)  PROVE TypeOK'
  <2>1. PICK ids \in SUBSET pending \ {{}} : Begin(c, "consume", ids)
    BY <1>4 DEF Consume
  <2>2. call' \in [Callers -> Calls]
    BY <2>1, BeginType
  <2> QED  BY <1>4, <2>2 DEF Consume
<1>5. ASSUME NEW c \in Callers, Settle(c)  PROVE TypeOK'
  <2>1. PICK e \in known, tool \in {"ack", "nack"} :
          Begin(c, tool, {e}) /\ (IF tool = "nack" THEN Disturbed ELSE used' = used)
    BY <1>5 DEF Settle
  <2>2. call' \in [Callers -> Calls]
    BY <2>1, BeginType
  <2> QED  BY <1>5, <2>1, <2>2 DEF Settle
<1>6. ASSUME NEW c \in Callers, Reply(c)  PROVE TypeOK'
  <2>1. PICK e \in known : Begin(c, "publishing", {e})
    BY <1>6 DEF Reply
  <2>2. call' \in [Callers -> Calls]
    BY <2>1, BeginType
  <2> QED  BY <1>6, <2>2 DEF Reply
<1>7. ASSUME NEW c \in Callers, ReplyPublished(c)  PROVE TypeOK'
  BY <1>7 DEF ReplyPublished, Calls
<1>8. ASSUME NEW c \in Callers, AckOne(c)  PROVE TypeOK'
  BY <1>8 DEF AckOne, Calls
<1>9. ASSUME NEW c \in Callers, CallFails(c) \/ CallReturns(c)  PROVE TypeOK'
  BY <1>9, NoCallIsCall DEF CallFails, CallReturns, Calls
<1>10. CASE RelayStep
  <2>1. Flags'
    BY <1>10 DEF RelayStep, Subscribe, ReadSnapshot, ReadEvent, Look, LookAtNothing, LookFails, Flags
  <2> QED
    BY <1>10, <2>1 DEF Flags, RelayStep, Subscribe, ReadSnapshot, ReadEvent, Look, LookAtNothing, LookFails
<1>11. CASE Disconnect \/ Attach \/ Detach \/ Stop \/ Start
  <2>1. Flags'
    BY <1>11 DEF Disconnect, Attach, Detach, Stop, Start, Flags
  <2> QED  BY <1>11, <2>1 DEF Disconnect, Attach, Detach, Stop, Start, Flags
<1>12. CASE Crash
  <2>1. call' \in [Callers -> Calls]
    BY <1>12, NoCallIsCall DEF Crash
  <2>2. Flags'
    BY <1>12 DEF Crash, Flags
  <2> QED  BY <1>12, <2>1, <2>2 DEF Crash, Flags
<1>13. CASE UNCHANGED vars
  BY <1>13 DEF vars
<1> QED
  BY <1>1, <1>2, <1>3, <1>4, <1>5, <1>6, <1>7, <1>8, <1>9, <1>10, <1>11, <1>12, <1>13
  DEF Next, BusStep, ToolStep, CallStep, Environment

\* A wake that is due is waited for, and what was announced gets through.
LEMMA AnnouncedStep ==
  ASSUME TypeOK, NothingUnannounced, [Next]_vars
  PROVE  NothingUnannounced'
<1> USE AgentMailboxAssumption DEF AgentMailboxAssumption, TypeOK, NothingUnannounced, bus, timer, sidecar, monitors
<1>1. ASSUME NEW e \in Mail, Accept(e) \/ List(e) \/ GiveUp(e) \/ Deliver(e)
      PROVE  NothingUnannounced'
  BY <1>1 DEF Accept, List, GiveUp, Deliver, NotifyMailArrived, Rearm
<1>2. CASE DebounceElapses
  <2>1. relay' = relay /\ pending' = pending /\ known' = known /\ news' = "none"
    BY <1>2 DEF DebounceElapses
  <2>2. relay = "idle" => inbox' > 0
    BY <1>2 DEF DebounceElapses, Publish, Subscribed
  <2> QED  BY <2>1, <2>2
<1>3. CASE PushReturns \/ PushFails \/ MissingAckOutbound
  BY <1>3 DEF PushReturns, PushFails, MissingAckOutbound, NotifyMailArrived, Rearm
<1>4. CASE ListPending
  BY <1>4 DEF ListPending
<1>5. ASSUME NEW c \in Callers, Consume(c) \/ Settle(c) \/ Reply(c) \/ ReplyPublished(c)
      PROVE  NothingUnannounced'
  BY <1>5 DEF Consume, Settle, Reply, ReplyPublished
<1>6. ASSUME NEW c \in Callers, AckOne(c) \/ CallFails(c) \/ CallReturns(c)
      PROVE  NothingUnannounced'
  BY <1>6 DEF AckOne, CallFails, CallReturns
<1>7. CASE RelayStep
  BY <1>7 DEF RelayStep, Subscribe, ReadSnapshot, ReadEvent, Look, LookAtNothing, LookFails
<1>8. CASE Environment
  BY <1>8 DEF Environment, Disconnect, Attach, Detach, Stop, Start, Crash
<1>9. CASE UNCHANGED vars
  BY <1>9 DEF vars
<1> QED
  BY <1>1, <1>2, <1>3, <1>4, <1>5, <1>6, <1>7, <1>8, <1>9
  DEF Next, BusStep, WakeStep, ToolStep, CallStep

LEMMA GrowthIsSafe ==
  ASSUME CallsAreInformed, SettledIsSeen, Grows
  PROVE  CallsAreInformed' /\ SettledIsSeen'
  BY DEF CallsAreInformed, SettledIsSeen, Grows

\* A call begins on what its caller may name.
LEMMA BeginIsSafe ==
  ASSUME TypeOK, CallsAreInformed, SettledIsSeen, NEW c \in Callers, NEW tool,
         NEW ids \in SUBSET (pending \cup known), Begin(c, tool, ids),
         UNCHANGED <<bus, pending, monitors>>
  PROVE  CallsAreInformed' /\ SettledIsSeen'
<1>1. \A d \in Callers : call'[d].ids = (IF d = c THEN ids ELSE call[d].ids)
                      /\ call'[d].todo = (IF d = c THEN ids ELSE call[d].todo)
  BY DEF TypeOK, Begin
<1> QED  BY <1>1 DEF CallsAreInformed, SettledIsSeen, bus, monitors

LEMMA SeenStep ==
  ASSUME TypeOK, CallsAreInformed, SettledIsSeen, [Next]_vars
  PROVE  CallsAreInformed' /\ SettledIsSeen'
<1> DEFINE Safe == CallsAreInformed' /\ SettledIsSeen'
<1>1. ASSUME NEW e \in Mail, Accept(e) \/ List(e) \/ GiveUp(e) \/ Deliver(e)  PROVE Safe
  <2>1. Grows
    BY <1>1 DEF TypeOK, Grows, Accept, List, GiveUp, Deliver, monitors
  <2> QED  BY <2>1, GrowthIsSafe
<1>2. CASE WakeStep
  <2>1. Grows
    BY <1>2 DEF WakeStep, DebounceElapses, PushReturns, PushFails, MissingAckOutbound, Grows, bus, monitors
  <2> QED  BY <2>1, GrowthIsSafe
<1>3. CASE ListPending \/ RelayStep
  <2>1. Grows
    BY <1>3 DEF ListPending, RelayStep, Subscribe, ReadSnapshot, ReadEvent, Look, LookAtNothing,
                LookFails, Grows, bus, monitors
  <2> QED  BY <2>1, GrowthIsSafe
<1>4. CASE Disconnect \/ Attach \/ Detach \/ Stop \/ Start
  <2>1. Grows
    BY <1>4 DEF Disconnect, Attach, Detach, Stop, Start, Grows, bus, monitors
  <2> QED  BY <2>1, GrowthIsSafe
<1>5. CASE Crash
  \* What is settled and in the queue only goes to cutOff.
  BY <1>5 DEF Crash, CallsAreInformed, SettledIsSeen, NoCall, TypeOK
<1>6. ASSUME NEW c \in Callers, Consume(c)  PROVE Safe
  <2>1. PICK ids \in SUBSET pending : Begin(c, "consume", ids)
    BY <1>6 DEF Consume
  <2> QED  BY <1>6, <2>1, BeginIsSafe DEF Consume
<1>7. ASSUME NEW c \in Callers, Settle(c) \/ Reply(c)  PROVE Safe
  <2>1. PICK e \in known, tool \in {"ack", "nack", "publishing"} : Begin(c, tool, {e})
    BY <1>7 DEF Settle, Reply
  <2>2. UNCHANGED <<bus, pending, monitors>>
    BY <1>7 DEF Settle, Reply
  <2> QED  BY <2>1, <2>2, BeginIsSafe
<1>8. ASSUME NEW c \in Callers, ReplyPublished(c)  PROVE Safe
  BY <1>8 DEF ReplyPublished, TypeOK, CallsAreInformed, SettledIsSeen, bus, monitors, Calls
<1>9. ASSUME NEW c \in Callers, AckOne(c)  PROVE Safe
  \* It is in the queue, or the agent has it.
  <2>1. PICK e \in call[c].todo :
          /\ row' = [row EXCEPT ![e] = IF call[c].tool = "nack" THEN "owed" ELSE "settled"]
          /\ call' = [call EXCEPT ![c].todo = @ \ {e}]
    BY <1>9 DEF AckOne
  <2>2. UNCHANGED <<pending, monitors>>
    BY <1>9 DEF AckOne
  <2>3. e \in pending \cup known
    BY <2>1 DEF CallsAreInformed
  <2>4. \A d \in Callers : call'[d].ids = call[d].ids /\ call'[d].todo \subseteq call[d].todo
    BY <2>1 DEF TypeOK, Calls
  <2>5. \A f \in Mail : row'[f] = "settled" => f = e \/ row[f] = "settled"
    BY <2>1 DEF TypeOK
  <2> QED  BY <2>2, <2>3, <2>4, <2>5 DEF CallsAreInformed, SettledIsSeen, monitors
<1>10. ASSUME NEW c \in Callers, CallFails(c)  PROVE Safe
  BY <1>10 DEF CallFails, TypeOK, CallsAreInformed, SettledIsSeen, bus, monitors, NoCall
<1>11. ASSUME NEW c \in Callers, CallReturns(c)  PROVE Safe
  \* What leaves the queue goes to the agent.
  <2>1. pending \cup known \subseteq pending' \cup known'
    BY <1>11 DEF CallReturns
  <2>2. \A d \in Callers : call'[d] = (IF d = c THEN NoCall ELSE call[d])
    BY <1>11 DEF CallReturns, TypeOK
  <2> QED  BY <1>11, <2>1, <2>2 DEF CallReturns, CallsAreInformed, SettledIsSeen, bus, NoCall
<1>12. CASE UNCHANGED vars
  BY <1>12 DEF vars, CallsAreInformed, SettledIsSeen, bus, monitors
<1> QED
  BY <1>1, <1>2, <1>3, <1>4, <1>5, <1>6, <1>7, <1>8, <1>9, <1>10, <1>11, <1>12
  DEF Next, BusStep, ToolStep, CallStep, Environment

LEMMA StepInv == ASSUME Inv, [Next]_vars  PROVE Inv'
  BY TypeStep, AnnouncedStep, SeenStep DEF Inv

LEMMA AlwaysInv == Spec => []Inv
  BY InitInv, StepInv, PTL DEF Spec

----------------------------------------------------------------------------
\* Every variable of the mailbox keeps its type.
THEOREM TypeCorrect == Spec => []TypeOK
  BY AlwaysInv, PTL DEF Inv

\* No wake is lost on the way: an arrival has its wake to come, and a relay at
\* rest has shown all that was announced, however small the broker's queue is.
THEOREM WakesGetThrough == Spec => []NothingUnannounced
  BY AlwaysInv, PTL DEF Inv

\* No silent loss: what is settled on the bus was given to the agent, is still
\* in its queue, or was acked by a consume() the end of the process cut off,
\* for any number of tool calls at once.
THEOREM NoSilentLoss == Spec => []SettledIsSeen
  BY AlwaysInv, PTL DEF Inv

-----------------------------------------------------------------------------
(* Outbounds                                                               *)
\* An outbound in the registry was neither acknowledged nor refused, and has a
\* timer, for every cap, any number of envelopes and of stops.

\* What was acknowledged or never published is not in the registry.
RegistryReleased == tracked \cap (answered \cup failed) = {}

\* The first part of TrackedIsWatched: but for the moment in which stop()
\* awaits the cancelled timers, every outbound in the registry has one.
RegistryWatched == phase # "stopping" => tracked \subseteq timers

RegistryBounded == IsFiniteSet(tracked) /\ Cardinality(tracked) <= MaxTracked + 1

RegistryInv == O!TypeOK /\ RegistryReleased /\ RegistryWatched /\ RegistryBounded

----------------------------------------------------------------------------
\* _evict_stale_outbounds keeps no more than the cap: but for the smallest, all
\* that it keeps come after the smallest, and those are fewer than the cap.
LEMMA FewAreKept ==
  ASSUME NEW T \in SUBSET Nat, IsFiniteSet(T), NEW M \in Nat
  PROVE  LET K == {o \in T : Cardinality({p \in T : p > o}) < M}
         IN  IsFiniteSet(K) /\ Cardinality(K) <= M
<1> DEFINE Later(o) == {p \in T : p > o}
           K == {o \in T : Cardinality(Later(o)) < M}
<1> SUFFICES IsFiniteSet(K) /\ Cardinality(K) <= M
  OBVIOUS
<1>1. K \in SUBSET T /\ \A o \in K : Cardinality(Later(o)) < M
  OBVIOUS
<1>2. \A o \in T : Later(o) \in SUBSET T /\ \A p \in T : p > o => p \in Later(o)
  OBVIOUS
<1> HIDE DEF K, Later
<1>3. IsFiniteSet(K) /\ Cardinality(K) \in Nat
  BY <1>1, FS_Subset, FS_CardinalityType
<1>4. CASE K = {}
  <2>1. Cardinality(K) = 0
    BY <1>4, FS_EmptySet
  <2> QED  BY <1>3, <2>1
<1>5. CASE K # {}
  <2>1. PICK m \in K : \A n \in K : m <= n
    BY <1>1, <1>5, Smallest
  <2>2. IsFiniteSet(Later(m)) /\ Cardinality(Later(m)) \in Nat /\ Cardinality(Later(m)) < M
    BY <1>1, <1>2, FS_Subset, FS_CardinalityType
  <2>3. \A n \in K \ {m} : n \in T /\ n > m
    BY <1>1, <2>1
  <2>4. K \ {m} \in SUBSET Later(m)
    BY <1>1, <1>2, <2>3
  <2>5. Cardinality(K \ {m}) <= Cardinality(Later(m))
    BY <2>2, <2>4, FS_Subset
  <2>6. Cardinality(K \ {m}) = Cardinality(K) - 1
    BY <1>3, FS_RemoveElement
  <2> QED  BY <1>3, <2>2, <2>5, <2>6
<1> QED  BY <1>3, <1>4, <1>5

\* Outbounds counts as FiniteSets does.
LEMMA RegistryCounts == \A N : O!Cardinality(N) = Cardinality(N)
  BY DEF O!Cardinality, Cardinality

LEMMA KeptIsBounded ==
  ASSUME MaxTracked \in Nat, O!TypeOK, IsFiniteSet(tracked)
  PROVE  /\ O!Kept \subseteq tracked
         /\ IsFiniteSet(O!Kept) /\ Cardinality(O!Kept) <= MaxTracked
<1> DEFINE fresh == tracked \ stale
<1>1. fresh \in SUBSET Nat /\ IsFiniteSet(fresh)
  BY FS_Subset DEF O!TypeOK, O!Sent
<1>2. O!Kept = {o \in fresh : Cardinality({p \in fresh : p > o}) < MaxTracked}
  BY RegistryCounts DEF O!Kept
<1>3. O!Kept \subseteq tracked
  BY <1>2
<1>4. LET K == {o \in fresh : Cardinality({p \in fresh : p > o}) < MaxTracked}
      IN  IsFiniteSet(K) /\ Cardinality(K) <= MaxTracked
  <2> HIDE DEF fresh
  <2> QED  BY <1>1, FewAreKept
<1> QED  BY <1>2, <1>3, <1>4

----------------------------------------------------------------------------
LEMMA RegistryInitInv == ASSUME MaxTracked \in Nat, O!Init  PROVE RegistryInv
<1>1. O!TypeOK /\ RegistryReleased /\ RegistryWatched
  BY DEF O!Init, O!TypeOK, RegistryReleased, RegistryWatched
<1>2. RegistryBounded
  BY FS_EmptySet DEF O!Init, RegistryBounded
<1> QED  BY <1>1, <1>2 DEF RegistryInv

\* What an eviction and an insertion do to the registry.
LEMMA RetainStep ==
  ASSUME MaxTracked \in Nat, RegistryInv, NEW new \in SUBSET {sent + 1}, O!Retain(O!Kept, new)
  PROVE  /\ tracked' \subseteq tracked \cup new
         /\ timers' \subseteq timers \cup new
         /\ tracked \subseteq timers => tracked' \subseteq timers'
         /\ stale' = {}
         /\ RegistryBounded'
<1>1. O!Kept \subseteq tracked /\ IsFiniteSet(O!Kept) /\ Cardinality(O!Kept) <= MaxTracked
  BY KeptIsBounded DEF RegistryInv, RegistryBounded
<1>2. IsFiniteSet(tracked') /\ Cardinality(tracked') <= MaxTracked + 1
  <2>1. tracked' = O!Kept \/ tracked' = O!Kept \cup {sent + 1}
    BY DEF O!Retain
  <2>2. Cardinality(O!Kept) \in Nat
    BY <1>1, FS_CardinalityType
  <2>3. IsFiniteSet(O!Kept \cup {sent + 1}) /\ Cardinality(O!Kept \cup {sent + 1}) <= Cardinality(O!Kept) + 1
    <3> DEFINE K == O!Kept
               o == sent + 1
    <3>1. IsFiniteSet(K) /\ Cardinality(K) \in Nat
      BY <1>1, <2>2
    <3> HIDE DEF K, o
    <3>2. IsFiniteSet(K \cup {o}) /\ Cardinality(K \cup {o}) <= Cardinality(K) + 1
      BY <3>1, FS_AddElement
    <3> QED  BY <3>2 DEF K, o
  <2>4. Cardinality(O!Kept \cup {sent + 1}) \in Nat
    BY <2>3, FS_CardinalityType
  <2> QED  BY <1>1, <2>1, <2>2, <2>3, <2>4
<1> QED  BY <1>1, <1>2 DEF O!Retain, RegistryBounded

LEMMA ReleaseStep ==
  ASSUME MaxTracked \in Nat, RegistryInv, NEW o, O!Release(o)
  PROVE  /\ tracked' = tracked \ {o} /\ timers' = timers \ {o} /\ stale' = stale \ {o}
         /\ RegistryBounded'
<1>1. tracked' \in SUBSET tracked
  BY DEF O!Release
<1>2. Cardinality(tracked) \in Nat /\ Cardinality(tracked') \in Nat
  BY <1>1, FS_Subset, FS_CardinalityType DEF RegistryInv, RegistryBounded
<1> QED  BY <1>1, <1>2, FS_Subset DEF O!Release, RegistryInv, RegistryBounded

LEMMA RegistryStepInv ==
  ASSUME MaxTracked \in Nat, RegistryInv, [O!Next]_(O!vars)
  PROVE  RegistryInv'
<1> USE DEF RegistryInv
<1>1. CASE O!Send
  <2>1. O!Retain(O!Kept, {sent + 1})
    BY <1>1 DEF O!Send
  <2>2. RegistryBounded' /\ tracked' \subseteq tracked \cup {sent + 1} /\ timers' \subseteq timers \cup {sent + 1}
        /\ (tracked \subseteq timers => tracked' \subseteq timers') /\ stale' = {}
    BY <2>1, RetainStep
  <2>3. sent' = sent + 1 /\ awaiting' = awaiting \cup {sent + 1}
        /\ UNCHANGED <<phase, acking, answered, failed, alarmed, stops>>
    BY <1>1 DEF O!Send
  <2>4. O!TypeOK' /\ RegistryReleased' /\ RegistryWatched'
    BY <2>2, <2>3 DEF O!TypeOK, RegistryReleased, RegistryWatched, O!Sent
  <2> QED  BY <2>2, <2>4
<1>2. ASSUME NEW o \in O!Sent, O!PublishReturns(o)  PROVE RegistryInv'
  BY <1>2
  DEF O!PublishReturns, O!registry, O!TypeOK, RegistryReleased, RegistryWatched,
      RegistryBounded, O!Sent
<1>3. ASSUME NEW o \in O!Sent, O!PublishRaises(o) \/ O!RoutineAckDone(o) \/ O!QueuedAckSettled(o)
      PROVE  RegistryInv'
  <2>1. O!Release(o)
    BY <1>3 DEF O!PublishRaises, O!RoutineAckDone, O!QueuedAckSettled
  <2>2. RegistryBounded' /\ tracked' = tracked \ {o} /\ timers' = timers \ {o} /\ stale' = stale \ {o}
    BY <2>1, ReleaseStep
  <2>3. O!TypeOK' /\ RegistryReleased' /\ RegistryWatched'
    BY <1>3, <2>2
    DEF O!PublishRaises, O!RoutineAckDone, O!QueuedAckSettled, O!TypeOK, RegistryReleased,
        RegistryWatched, O!Sent
  <2> QED  BY <2>2, <2>3
<1>4. ASSUME O!OtherDelivery \/ \E o \in O!Sent : O!RoutineAckArrives(o)  PROVE RegistryInv'
  <2>1. O!Retain(O!Kept, {})
    BY <1>4 DEF O!OtherDelivery, O!RoutineAckArrives
  <2>2. RegistryBounded' /\ tracked' \subseteq tracked /\ timers' \subseteq timers
        /\ (tracked \subseteq timers => tracked' \subseteq timers') /\ stale' = {}
    BY <2>1, RetainStep
  <2>3. O!TypeOK' /\ RegistryReleased' /\ RegistryWatched'
    BY <1>4, <2>2
    DEF O!OtherDelivery, O!RoutineAckArrives, O!TypeOK, RegistryReleased, RegistryWatched,
        O!Sent
  <2> QED  BY <2>2, <2>3
<1>5. ASSUME NEW o \in O!Sent, O!TimerFires(o)  PROVE RegistryInv'
  <2>1. tracked' \in SUBSET tracked
    BY <1>5 DEF O!TimerFires
  <2>2. Cardinality(tracked) \in Nat /\ Cardinality(tracked') \in Nat
    BY <2>1, FS_Subset, FS_CardinalityType DEF RegistryBounded
  <2>3. RegistryBounded'
    BY <2>1, <2>2, FS_Subset DEF RegistryBounded
  <2>4. O!TypeOK' /\ RegistryReleased' /\ RegistryWatched'
    BY <1>5 DEF O!TimerFires, O!TypeOK, RegistryReleased, RegistryWatched, O!Sent
  <2> QED  BY <2>3, <2>4
<1>6. ASSUME NEW o \in O!Sent, O!Age(o)  PROVE RegistryInv'
  BY <1>6 DEF O!Age, O!TypeOK, RegistryReleased, RegistryWatched, RegistryBounded, O!Sent
<1>7. CASE O!StopBegin
  BY <1>7 DEF O!StopBegin, O!TypeOK, RegistryReleased, RegistryWatched, RegistryBounded, O!Sent
<1>8. CASE O!StopEnd
  <2>1. RegistryBounded'
    BY <1>8, FS_EmptySet DEF O!StopEnd, RegistryBounded
  <2>2. O!TypeOK' /\ RegistryReleased' /\ RegistryWatched'
    BY <1>8 DEF O!StopEnd, O!TypeOK, RegistryReleased, RegistryWatched, O!Sent
  <2> QED  BY <2>1, <2>2
<1>9. CASE UNCHANGED O!vars
  BY <1>9
  DEF O!vars, O!registry, O!TypeOK, RegistryReleased, RegistryWatched, RegistryBounded, O!Sent
<1>10. CASE O!Start
  BY <1>10
  DEF O!Start, O!registry, O!TypeOK, RegistryReleased, RegistryWatched, RegistryBounded, O!Sent
<1> QED  BY <1>1, <1>2, <1>3, <1>4, <1>5, <1>6, <1>7, <1>8, <1>9, <1>10 DEF O!Next

LEMMA RegistryAlwaysInv == ASSUME MaxTracked \in Nat  PROVE O!Spec => []RegistryInv
  BY RegistryInitInv, RegistryStepInv, PTL DEF O!Spec

----------------------------------------------------------------------------
\* Whatever is registered has a timer that runs, and the registry stays within
\* its cap and the outbound that was just added.
THEOREM RegistryIsWatched == O!Spec => []O!TrackedIsWatched
<1>1. RegistryInv => O!TrackedIsWatched
  BY RegistryCounts DEF RegistryInv, RegistryWatched, RegistryBounded, O!TrackedIsWatched
<1>2. O!Spec => []RegistryInv
  BY AgentSideAssumption, RegistryAlwaysInv
<1> QED  BY <1>1, <1>2, PTL

\* The agent is never woken for an outbound that was acknowledged before, or
\* whose publish raised.
THEOREM NoPhantomWake == O!Spec => NoFalseAlarm
<1>1. RegistryInv /\ [O!Next]_(O!vars) => [\A o \in alarmed' \ alarmed : o \notin answered \cup failed]_(O!vars)
  <2> SUFFICES ASSUME RegistryInv, O!Next, NEW o \in alarmed' \ alarmed
               PROVE  o \notin answered \cup failed
    BY DEF O!vars
  <2>1. o \in tracked
    BY DEF O!Next, O!Send, O!OtherDelivery, O!StopBegin, O!StopEnd, O!Start, O!PublishReturns,
           O!PublishRaises, O!RoutineAckArrives, O!RoutineAckDone, O!QueuedAckSettled,
           O!TimerFires, O!Age
  <2> QED  BY <2>1 DEF RegistryInv, RegistryReleased
<1>2. O!Spec => []RegistryInv
  BY AgentSideAssumption, RegistryAlwaysInv
<1> QED  BY <1>1, <1>2, PTL DEF O!Spec, O!NoFalseAlarm, NoFalseAlarm

-----------------------------------------------------------------------------
(* WakeTimer                                                               *)
\* What is left of the debounce never exceeds what the earliest arrival was
\* promised.

\* What is left is a time, and no arrival waits for longer than the longest delay.
TimerTypes ==
  /\ task \in {"none", "sleeping", "pushing"}
  /\ left \in Nat
  /\ promised \in 0 .. W!Never

TimerInv == TimerTypes /\ W!OnTime

LEMMA NeverIsLater == W!Never \in Nat /\ \A u \in Urgency : Delay[u] < W!Never
<1> DEFINE longest == CHOOSE d \in {Delay[u] : u \in Urgency} : \A u \in Urgency : Delay[u] <= d
<1>1. PICK u \in Urgency : \A v \in Urgency : Delay[v] <= Delay[u]
  BY AgentSideAssumption
<1>2. \E d \in {Delay[v] : v \in Urgency} : \A v \in Urgency : Delay[v] <= d
  BY <1>1
<1>3. longest \in {Delay[v] : v \in Urgency} /\ \A v \in Urgency : Delay[v] <= longest
  BY <1>2
<1>4. longest \in Nat /\ \A v \in Urgency : Delay[v] \in Nat
  BY <1>3, AgentSideAssumption
<1>5. W!Never = 1 + longest
  BY DEF W!Never
<1> HIDE DEF longest
<1> QED  BY <1>3, <1>4, <1>5

LEMMA TimerInitInv == ASSUME W!Init  PROVE TimerInv
  BY NeverIsLater DEF W!Init, TimerInv, TimerTypes, W!OnTime

LEMMA TimerStepInv == ASSUME TimerInv, [W!Next]_(W!vars)  PROVE TimerInv'
<1> USE NeverIsLater DEF TimerInv, TimerTypes, W!OnTime
<1>1. ASSUME NEW u \in Urgency, W!Arrive(u)  PROVE TimerInv'
  <2>1. Delay[u] \in Nat /\ Delay[u] < W!Never
    BY AgentSideAssumption
  <2>2. promised' = IF promised < Delay[u] THEN promised ELSE Delay[u]
    BY <1>1 DEF W!Arrive, W!Least
  <2>3. CASE W!Keeps(u)
    BY <1>1, <2>1, <2>2, <2>3 DEF W!Arrive, W!Keeps
  <2>4. CASE ~ W!Keeps(u)
    <3>1. task' = "sleeping" /\ left' = Delay[u]
      BY <1>1, <2>4 DEF W!Arrive
    <3>2. promised # W!Never /\ promised < Delay[u] => FALSE
      BY <2>1, <2>4 DEF W!Keeps
    <3> QED  BY <2>1, <2>2, <3>1, <3>2
  <2> QED  BY <2>3, <2>4
<1>2. CASE W!Tick
  BY <1>2 DEF W!Tick
<1>3. CASE W!Fire \/ W!Pushed \/ W!Stop
  BY <1>3 DEF W!Fire, W!Pushed, W!Stop
<1>4. CASE UNCHANGED W!vars
  BY <1>4 DEF W!vars
<1> QED  BY <1>1, <1>2, <1>3, <1>4 DEF W!Next

\* However arrivals of different urgency come, the one wake they share comes
\* within the delay of each, for any delays of which one is the longest.
THEOREM WakesAreOnTime == W!Spec => []OnTime
<1>1. W!Spec => []TimerInv
  BY TimerInitInv, TimerStepInv, PTL DEF W!Spec
<1> QED  BY <1>1, PTL DEF TimerInv, OnTime

-----------------------------------------------------------------------------
(* AgentSessions                                                           *)
\* ClaimIsHeld is inductive once only waiting or cancelled tasks are muted.

SessionsTypes ==
  /\ claimed \subseteq Session /\ sessions \subseteq Session
  /\ muted \subseteq {s \in Session : claimTask[s] \in {"sleeping", "cancelled"}}
  /\ claimTask \in [Session -> {"none", "scheduled", "sleeping", "cancelled"}]

SessionsInv == SessionsTypes /\ S!ClaimIsHeld

LEMMA SessionsInitInv == ASSUME S!Init  PROVE SessionsInv
  BY DEF S!Init, SessionsInv, SessionsTypes, S!ClaimIsHeld

LEMMA SessionsStepInv == ASSUME SessionsInv, [S!Next]_(S!vars)  PROVE SessionsInv'
<1> USE DEF SessionsInv, SessionsTypes, S!ClaimIsHeld
<1>1. ASSUME NEW s \in Session,
             S!Connect(s) \/ S!Message(s) \/ S!ClaimRuns(s) \/ S!Close(s) \/ S!ClaimEnds(s) \/ S!PushFails(s)
      PROVE  SessionsInv'
  <2>1. CASE S!Connect(s) \/ S!PushFails(s)
    BY <2>1 DEF S!Connect, S!PushFails
  <2>2. CASE S!Message(s)
    BY <2>2 DEF S!Message
  <2>3. CASE S!ClaimRuns(s)
    BY <2>3 DEF S!ClaimRuns
  <2>4. CASE S!Close(s)
    BY <2>4 DEF S!Close
  <2>5. CASE S!ClaimEnds(s)
    BY <2>5 DEF S!ClaimEnds
  <2> QED  BY <1>1, <2>1, <2>2, <2>3, <2>4, <2>5
<1>2. CASE S!Stop \/ S!Start
  BY <1>2 DEF S!Stop, S!Start
<1>3. CASE UNCHANGED S!vars
  BY <1>3 DEF S!vars
<1> QED  BY <1>1, <1>2, <1>3 DEF S!Next

\* For any number of sessions: an id is claimed while a task will give it back,
\* which waits only on an open stream, and a session whose task waits is off the
\* registry only after a failed push or a stop().
THEOREM ClaimsAreHeld == S!Spec => []ClaimIsHeld
<1>1. S!Spec => []SessionsInv
  BY SessionsInitInv, SessionsStepInv, PTL DEF S!Spec
<1> QED  BY <1>1, PTL DEF SessionsInv, ClaimIsHeld

-----------------------------------------------------------------------------
(* Channel                                                                 *)
\* The tracker has the last Capacity different ids of what was shown, the one
\* shown last at its end, and each mark says what the tracker said when its
\* block was shown.

----------------------------------------------------------------------------
(* The tracker                                                             *)

Notes == [ids : Seq(Envelope), counts : [Envelope -> Nat]]

\* The tracker t has what was shown last in l, and counts it.
Good(t, l) ==
  /\ t \in Notes
  /\ LastMet(Capacity, Envelope, t.ids, l)
  /\ \A e \in Things(t.ids) : t.counts[e] > 0 /\ e \in Things(l)

\* n is what the mark on e may say when l was shown before.
Told(n, l, e) ==
  /\ e \notin Things(l) => n = 1
  /\ \A j \in DOMAIN l :
       l[j] = e /\ (\A k \in j + 1..Len(l) : l[k] # e) /\ Cardinality(MetAfter(l, j)) < Capacity
         => n > 1

LEMMA Grown ==
  ASSUME NEW l \in Seq(Envelope), NEW e \in Envelope
  PROVE  Things(Append(l, e)) = Things(l) \cup {e}
<1> DEFINE m == Append(l, e)
<1>1. /\ DOMAIN m = 1..Len(l) + 1 /\ m[Len(l) + 1] = e /\ Len(l) \in Nat
      /\ DOMAIN l = 1..Len(l) /\ \A k \in 1..Len(l) : m[k] = l[k]
  OBVIOUS
<1>2. 1..Len(l) + 1 = 1..Len(l) \cup {Len(l) + 1}
  BY <1>1
<1> HIDE DEF m
<1>3. Things(m) = Things(l) \cup {e}
  BY <1>1, <1>2 DEF Things
<1> QED  BY <1>3 DEF m

\* An id that is remembered.
LEMMA NotedAgain ==
  ASSUME NEW t, NEW l, Good(t, l), NEW e \in Things(t.ids)
  PROVE  /\ Good(C!Note(t, e), Append(l, e))
         /\ C!Note(t, e).counts[e] > 1
<1> DEFINE p == CHOOSE p \in DOMAIN t.ids : t.ids[p] = e
           s == Renewed(t.ids, p)
           c == [t.counts EXCEPT ![e] = @ + 1]
<1>1. t.ids \in Seq(Envelope) /\ t.counts \in [Envelope -> Nat] /\ l \in Seq(Envelope)
  BY DEF Good, Notes, LastMet
<1>2. p \in DOMAIN t.ids /\ t.ids[p] = e
  BY DEF Things
<1> HIDE DEF p
<1>3. e \in Envelope /\ DOMAIN t.ids = 1..Len(t.ids)
  BY <1>1, <1>2
<1>4. C!Note(t, e) = [ids |-> s, counts |-> c]
  <2>1. C!Contains(t.ids, e)
    BY <1>2, <1>3 DEF C!Contains
  <2>2. s = Append(C!RemoveAt(t.ids, p), e)
    BY <1>2 DEF Renewed, C!RemoveAt
  <2> HIDE DEF s
  <2> QED  BY <2>1, <2>2 DEF C!Note, p
<1>5. LastMet(Capacity, Envelope, s, Append(l, e))
  <2>1. LastMet(Capacity, Envelope, Renewed(t.ids, p), Append(l, t.ids[p]))
    BY <1>2, MetAgain, AgentSideAssumption DEF Good
  <2> QED  BY <1>2, <2>1
<1>6. s \in Seq(Envelope)
  BY <1>5 DEF LastMet
<1>7. c \in [Envelope -> Nat] /\ c[e] > 1 /\ \A f \in Things(t.ids) : c[f] > 0
  <2>1. \A f \in Things(t.ids) : f \in Envelope /\ t.counts[f] > 0 /\ t.counts[f] \in Nat
    BY <1>1 DEF Good, Things
  <2> QED  BY <1>1, <1>3, <2>1
<1>8. Things(s) \subseteq Things(t.ids)
  BY <1>1, <1>2, RenewedHasThem
<1>9. Things(Append(l, e)) = Things(l) \cup {e}
  BY <1>1, <1>3, Grown
<1> HIDE DEF s, c
<1>10. Good([ids |-> s, counts |-> c], Append(l, e))
  <2>1. \A f \in Things(s) : f \in Things(t.ids) /\ f \in Things(l)
    BY <1>8 DEF Good
  <2> QED  BY <1>5, <1>6, <1>7, <1>9, <2>1 DEF Good, Notes
<1> QED  BY <1>4, <1>7, <1>10

\* An id that is new or forgotten.
LEMMA NotedFirst ==
  ASSUME NEW t, NEW l, Good(t, l), NEW e \in Envelope, e \notin Things(t.ids)
  PROVE  /\ Good(C!Note(t, e), Append(l, e))
         /\ C!Note(t, e).counts[e] = 1
<1> DEFINE s == KeptOf(Capacity, t.ids, e)
           c == [t.counts EXCEPT ![e] = 1]
<1>1. t.ids \in Seq(Envelope) /\ t.counts \in [Envelope -> Nat] /\ l \in Seq(Envelope)
  BY DEF Good, Notes, LastMet
<1>2. C!Note(t, e) = [ids |-> s, counts |-> c]
  <2>1. ~ C!Contains(t.ids, e)
    BY <1>1 DEF C!Contains, Things
  <2>2. s = C!Capped(Append(t.ids, e))
    BY DEF KeptOf, C!Capped
  <2> HIDE DEF s
  <2> QED  BY <2>1, <2>2 DEF C!Note
<1>3. LastMet(Capacity, Envelope, s, Append(l, e))
  BY MetFirst, AgentSideAssumption DEF Good
<1>4. s \in Seq(Envelope)
  BY <1>3 DEF LastMet
<1>5. c \in [Envelope -> Nat] /\ c[e] = 1 /\ \A f \in Things(t.ids) : c[f] > 0
  <2>1. \A f \in Things(t.ids) : f \in Envelope /\ t.counts[f] > 0
    BY <1>1 DEF Good, Things
  <2> QED  BY <1>1, <2>1
<1>6. Things(s) \subseteq Things(t.ids) \cup {e}
  BY <1>1, KeptHasThem, AgentSideAssumption
<1>7. Things(Append(l, e)) = Things(l) \cup {e}
  BY <1>1, Grown
<1> HIDE DEF s, c
<1>8. Good([ids |-> s, counts |-> c], Append(l, e))
  <2>1. \A f \in Things(s) : f = e \/ (f \in Things(t.ids) /\ f \in Things(l))
    BY <1>6 DEF Good
  <2> QED  BY <1>3, <1>4, <1>5, <1>7, <2>1 DEF Good, Notes
<1> QED  BY <1>2, <1>5, <1>8

LEMMA NotedRightly ==
  ASSUME NEW t, NEW l, Good(t, l), NEW e \in Envelope
  PROVE  /\ Good(C!Note(t, e), Append(l, e))
         /\ Told(C!Note(t, e).counts[e], l, e)
<1>0. l \in Seq(Envelope)
  BY DEF Good, LastMet
<1>1. CASE e \in Things(t.ids)
  <2>1. e \in Things(l)
    BY <1>1 DEF Good
  <2> QED  BY <1>1, <2>1, NotedAgain DEF Told
<1>2. CASE e \notin Things(t.ids)
  <2>1. Good(C!Note(t, e), Append(l, e)) /\ C!Note(t, e).counts[e] = 1
    BY <1>2, NotedFirst
  <2>2. ASSUME NEW j \in DOMAIN l, l[j] = e, Cardinality(MetAfter(l, j)) < Capacity  PROVE FALSE
    <3>1. Capacity <= Cardinality(MetAfter(l, j) \ {e})
      BY <1>2, <2>2 DEF Good, LastMet
    <3>2. IsFiniteSet(MetAfter(l, j))
      BY <1>0, AfterIsFinite
    <3>3. Cardinality(MetAfter(l, j) \ {e}) <= Cardinality(MetAfter(l, j))
          /\ Cardinality(MetAfter(l, j) \ {e}) \in Nat /\ Cardinality(MetAfter(l, j)) \in Nat
      BY <3>2, FS_Subset, FS_CardinalityType
    <3> QED  BY <2>2, <3>1, <3>3, AgentSideAssumption
  <2> QED  BY <2>1, <2>2 DEF Told
<1> QED  BY <1>1, <1>2

----------------------------------------------------------------------------
(* One showing                                                             *)

Tracked == [ids |-> tracker, counts |-> counts]

LEMMA NoteIsNotes ==
  ASSUME NEW t \in Notes, NEW e \in Envelope
  PROVE  C!Note(t, e) \in Notes
<1>1. t.ids \in Seq(Envelope) /\ t.counts \in [Envelope -> Nat]
  BY DEF Notes
<1>2. CASE C!Contains(t.ids, e)
  <2> DEFINE p == CHOOSE p \in DOMAIN t.ids : t.ids[p] = e
             s == Renewed(t.ids, p)
  <2>1. p \in DOMAIN t.ids /\ t.ids[p] = e
    BY <1>1, <1>2 DEF C!Contains
  <2>2. s = Append(C!RemoveAt(t.ids, p), e)
    BY <2>1 DEF Renewed, C!RemoveAt
  <2> HIDE DEF p
  <2>3. s \in Seq(Envelope)
    BY <1>1, <2>1, RenewedIs
  <2> HIDE DEF s
  <2> QED  BY <1>1, <1>2, <2>2, <2>3 DEF C!Note, Notes, p
<1>3. CASE ~ C!Contains(t.ids, e)
  <2> DEFINE s == Append(t.ids, e)
  <2>1. s \in Seq(Envelope) /\ s # <<>> /\ Tail(s) \in Seq(Envelope)
    BY <1>1
  <2> HIDE DEF s
  <2>2. C!Capped(s) \in Seq(Envelope)
    BY <2>1 DEF C!Capped
  <2> QED  BY <1>1, <1>3, <2>2 DEF C!Note, Notes, s
<1> QED  BY <1>2, <1>3

LEMMA NotedIs ==
  ASSUME NEW q \in Seq(Envelope), Tracked \in Notes
  PROVE  /\ C!Noted(q)[0] = Tracked
         /\ \A n \in 1..Len(q) : C!Noted(q)[n] = C!Note(C!Noted(q)[n - 1], q[n])
<1> DEFINE N == Len(q)
           T == [n \in 1..N |-> [t \in Notes |-> C!Note(t, q[n])]]
           Is(f) == f = [n \in 0..N |-> IF n = 0 THEN Tracked ELSE C!Note(f[n - 1], q[n])]
<1>1. N \in Nat /\ \A n \in 1..N : q[n] \in Envelope
  OBVIOUS
<1>2. C!Noted(q) = CHOOSE f : Is(f)
  BY DEF C!Noted, Tracked
<1>3. T \in [1..N -> [Notes -> Notes]]
  BY <1>1, NoteIsNotes
<1>4. PICK f : Takes(f, Notes, Tracked, N, T)
  <2> HIDE DEF T, N
  <2> QED  BY <1>1, <1>3, Recursion
<1>5. Is(f)
  <2>1. \A n \in 1..N : f[n - 1] \in Notes /\ T[n][f[n - 1]] = C!Note(f[n - 1], q[n])
    BY <1>1, <1>4 DEF Takes
  <2>2. f \in [0..N -> Notes] /\ f[0] = Tracked /\ \A n \in 1..N : f[n] = C!Note(f[n - 1], q[n])
    BY <1>4, <2>1 DEF Takes
  <2>3. \A n \in 0..N : n # 0 => n \in 1..N
    BY <1>1
  <2> HIDE DEF N
  <2> QED  BY <2>2, <2>3
<1>6. Is(C!Noted(q))
  <2> HIDE DEF Is
  <2> QED  BY <1>2, <1>5
<1> QED  BY <1>1, <1>6

\* The tracker as the n-th block was noted.
LEMMA NotedKeeps ==
  ASSUME NEW q \in Seq(Envelope), NEW l \in Seq(Envelope), Good(Tracked, l)
  PROVE  \A n \in 0..Len(q) : Good(C!Noted(q)[n], SubSeq(l \o q, 1, Len(l) + n))
<1> DEFINE m == l \o q
           P(n) == Good(C!Noted(q)[n], SubSeq(m, 1, Len(l) + n))
           Bad == {n \in 0..Len(q) : ~ P(n)}
<1>1. /\ m \in Seq(Envelope) /\ Len(m) = Len(l) + Len(q) /\ Len(l) \in Nat /\ Len(q) \in Nat
      /\ \A k \in 1..Len(l) : m[k] = l[k]
      /\ \A k \in 1..Len(q) : m[Len(l) + k] = q[k]
  OBVIOUS
<1>2. Tracked \in Notes
  BY DEF Good
<1> HIDE DEF m
<1>3. P(0)
  <2>1. SubSeq(m, 1, Len(l) + 0) = l
    BY <1>1
  <2> QED  BY <1>2, <2>1, NotedIs
<1>4. ASSUME NEW n \in 1..Len(q), P(n - 1)  PROVE P(n)
  <2> DEFINE k == Len(l) + (n - 1)
  <2>1. k \in Nat /\ k < Len(m) /\ k + 1 = Len(l) + n /\ m[k + 1] = q[n] /\ q[n] \in Envelope
    BY <1>1
  <2>2. SubSeq(m, 1, Len(l) + n) = Append(SubSeq(m, 1, k), q[n])
    <3> HIDE DEF k
    <3> QED  BY <1>1, <2>1, PrefixGrows
  <2>3. C!Noted(q)[n] = C!Note(C!Noted(q)[n - 1], q[n])
    BY <1>2, NotedIs
  <2> HIDE DEF k
  <2> QED  BY <1>4, <2>1, <2>2, <2>3, NotedRightly DEF k
<1> HIDE DEF P
<1>5. Bad = {}
  <2>1. Bad \in SUBSET Nat
    OBVIOUS
  <2>2. ASSUME Bad # {}  PROVE FALSE
    <3>1. PICK n \in Bad : \A k \in Bad : n <= k
      <4> HIDE DEF Bad
      <4> QED  BY <2>1, <2>2, Smallest
    <3>2. n # 0 /\ n \in 0..Len(q) /\ ~ P(n)
      BY <1>3
    <3>3. n \in 1..Len(q) /\ n - 1 \in 0..Len(q) /\ ~ n <= n - 1
      BY <1>1, <3>2
    <3>4. P(n - 1)
      <4>1. n - 1 \notin Bad
        <5> HIDE DEF Bad
        <5> QED  BY <3>1, <3>3
      <4> QED  BY <3>3, <4>1
    <3> QED  BY <1>4, <3>2, <3>3, <3>4
  <2> QED  BY <2>2
<1>6. \A n \in 0..Len(q) : P(n)
  BY <1>5
<1> QED  BY <1>6 DEF P, m

----------------------------------------------------------------------------
(* The invariant                                                           *)

\* The ids of what was shown.
Shown == [k \in DOMAIN heard |-> heard[k].id]

RelayTypes ==
  /\ queue \in Seq(Envelope) /\ snapshot \in Seq(Envelope)
  /\ heard \in Seq(Things(heard)) /\ \A k \in DOMAIN heard : heard[k].id \in Envelope

RelayInv ==
  /\ RelayTypes
  /\ Good(Tracked, Shown)
  /\ \A k \in DOMAIN heard : Told(heard[k].resent, SubSeq(Shown, 1, k - 1), heard[k].id)

LEMMA ShownIs ==
  ASSUME RelayTypes
  PROVE  /\ Shown \in Seq(Envelope) /\ Len(Shown) = Len(heard) /\ Len(heard) \in Nat
         /\ DOMAIN heard = 1..Len(heard) /\ \A k \in 1..Len(heard) : Shown[k] = heard[k].id
<1>1. DOMAIN heard = 1..Len(heard) /\ Len(heard) \in Nat
  BY DEF RelayTypes
<1>2. Shown = [k \in 1..Len(heard) |-> heard[k].id] /\ Shown \in [1..Len(heard) -> Envelope]
  BY <1>1 DEF Shown, RelayTypes
<1>3. Shown \in Seq(Envelope) /\ Len(Shown) = Len(heard)
  BY <1>1, <1>2
<1> QED  BY <1>1, <1>2, <1>3

\* A relay that has shown nothing.
RelayNothing ==
  /\ queue \in Seq(Envelope) /\ snapshot = <<>>
  /\ heard = <<>> /\ tracker = <<>> /\ counts = [e \in Envelope |-> 0]

LEMMA NothingIsRight == ASSUME RelayNothing  PROVE RelayInv
<1>1. Things(<<>>) = {}
  BY DEF Things
<1>2. Shown = <<>>
  BY DEF RelayNothing, Shown
<1>3. RelayTypes
  BY DEF RelayNothing, RelayTypes
<1>4. LastMet(Capacity, Envelope, <<>>, <<>>)
  BY AgentSideAssumption DEF LastMet
<1>5. Good(Tracked, Shown)
  BY <1>1, <1>2, <1>4 DEF RelayNothing, Tracked, Good, Notes
<1> QED  BY <1>3, <1>5 DEF RelayInv, RelayNothing

LEMMA RelayInitInv == ASSUME C!Init  PROVE RelayInv
<1>1. RelayNothing
  BY DEF C!Init, RelayNothing
<1> QED  BY <1>1, NothingIsRight

\* What is shown comes after what was shown.
LEMMA ShowKeeps == ASSUME RelayInv, C!Show  PROVE RelayInv'
<1> DEFINE q == snapshot
           l == Shown
           m == l \o q
           b == C!Marked(q)
           N == Len(heard)
<1>1. /\ q \in Seq(Envelope) /\ l \in Seq(Envelope) /\ Len(l) = N /\ N \in Nat
      /\ DOMAIN heard = 1..N /\ \A k \in 1..N : l[k] = heard[k].id
  BY ShownIs DEF RelayInv, RelayTypes
<1>2. /\ b \in Seq(Things(b)) /\ Len(b) = Len(q) /\ Len(q) \in Nat /\ Len(q) # 0
      /\ \A n \in 1..Len(q) : b[n].id = q[n] /\ b[n].resent = C!Noted(q)[n].counts[q[n]]
  <2> DEFINE shown(n) == [id |-> q[n], block |-> C!Block(q, n), resent |-> C!Noted(q)[n].counts[q[n]]]
  <2>1. DOMAIN q = 1..Len(q) /\ Len(q) \in Nat /\ Len(q) # 0
    BY <1>1 DEF C!Show
  <2>2. b = [n \in 1..Len(q) |-> shown(n)]
    BY <2>1 DEF C!Marked
  <2>3. \A n \in 1..Len(q) : shown(n).id = q[n] /\ shown(n).resent = C!Noted(q)[n].counts[q[n]]
    OBVIOUS
  <2> HIDE DEF b, shown
  <2>4. b \in [1..Len(q) -> Things(b)]
    BY <2>2 DEF Things
  <2>5. b \in Seq(Things(b)) /\ Len(b) = Len(q)
    BY <2>1, <2>2, <2>4
  <2> QED  BY <2>1, <2>2, <2>3, <2>5
<1>3. /\ heard' = heard \o b /\ Len(heard') = N + Len(q) /\ DOMAIN heard' = 1..N + Len(q)
      /\ heard' \in Seq(Things(heard'))
      /\ \A k \in 1..N : heard'[k] = heard[k]
      /\ \A n \in 1..Len(q) : heard'[N + n] = b[n]
  <2>1. heard' = heard \o b
    BY DEF C!Show
  <2> HIDE DEF b
  <2> DEFINE Z == Things(heard) \cup Things(b)
  <2>2. heard \in Seq(Z) /\ b \in Seq(Z) /\ Len(heard) = N
    BY <1>1, <1>2 DEF RelayInv, RelayTypes
  <2> HIDE DEF Z
  <2>3. /\ heard' \in Seq(Z) /\ Len(heard') = N + Len(q) /\ DOMAIN heard' = 1..N + Len(q)
        /\ \A k \in 1..N : heard'[k] = heard[k]
        /\ \A n \in 1..Len(q) : heard'[N + n] = b[n]
    <3> HIDE DEF N, q
    <3>1. /\ heard \o b \in Seq(Z) /\ Len(heard \o b) = Len(heard) + Len(b)
          /\ DOMAIN (heard \o b) = 1..Len(heard) + Len(b)
          /\ \A k \in 1..Len(heard) : (heard \o b)[k] = heard[k]
          /\ \A k \in 1..Len(b) : (heard \o b)[Len(heard) + k] = b[k]
      BY <2>2
    <3> QED  BY <1>2, <2>1, <2>2, <3>1
  <2>4. heard' \in [1..N + Len(q) -> Things(heard')]
    <3>1. heard' = [k \in 1..N + Len(q) |-> heard'[k]]
      BY <2>3
    <3> QED  BY <2>3, <3>1 DEF Things
  <2>5. heard' \in Seq(Things(heard'))
    BY <1>1, <1>2, <2>4
  <2> QED  BY <2>1, <2>3, <2>5
<1>4. /\ m \in Seq(Envelope) /\ Len(m) = N + Len(q)
      /\ \A k \in 1..N : m[k] = l[k]
      /\ \A n \in 1..Len(q) : m[N + n] = q[n] /\ q[n] \in Envelope
  <2> HIDE DEF q, l, N
  <2> QED  BY <1>1
<1> HIDE DEF q, l, m, b, N
<1>5. \A k \in 1..N + Len(q) : k \notin 1..N => k - N \in 1..Len(q) /\ k = N + (k - N)
  BY <1>1, <1>2
<1>6. \A k \in 1..N + Len(q) : heard'[k].id = m[k] /\ m[k] \in Envelope
  <2>1. \A k \in 1..N : heard'[k].id = m[k] /\ l[k] \in Envelope
    BY <1>1, <1>3, <1>4
  <2>2. \A n \in 1..Len(q) : heard'[N + n].id = m[N + n] /\ m[N + n] \in Envelope
    BY <1>2, <1>3, <1>4
  <2> QED  BY <1>4, <1>5, <2>1, <2>2
<1>7. Shown' = m
  <2>1. Shown' = [k \in 1..N + Len(q) |-> heard'[k].id]
    BY <1>3 DEF Shown
  <2>2. m = [k \in 1..N + Len(q) |-> m[k]]
    BY <1>1, <1>2, <1>4
  <2> QED  BY <1>6, <2>1, <2>2
<1>8. RelayTypes'
  <2>1. queue' = queue /\ snapshot' = <<>>
    BY DEF C!Show
  <2>2. queue' \in Seq(Envelope) /\ snapshot' \in Seq(Envelope)
    BY <2>1 DEF RelayInv, RelayTypes
  <2>3. \A k \in DOMAIN heard' : heard'[k].id \in Envelope
    BY <1>3, <1>6
  <2> QED  BY <1>3, <2>2, <2>3 DEF RelayTypes, Things
<1>9. \A n \in 0..Len(q) : Good(C!Noted(q)[n], SubSeq(m, 1, N + n))
  BY <1>1, NotedKeeps DEF RelayInv, l, m
<1>10. Good(Tracked, Shown)'
  <2>1. Tracked' = C!Noted(q)[Len(q)]
    <3>1. C!Noted(q)[Len(q)] \in Notes
      BY <1>2, <1>9 DEF Good
    <3>2. tracker' = C!Noted(q)[Len(q)].ids /\ counts' = C!Noted(q)[Len(q)].counts
      BY DEF C!Show, q
    <3> QED  BY <3>1, <3>2 DEF Tracked, Notes
  <2>2. SubSeq(m, 1, N + Len(q)) = m
    BY <1>1, <1>2, <1>4
  <2>3. Good(C!Noted(q)[Len(q)], SubSeq(m, 1, N + Len(q)))
    BY <1>2, <1>9
  <2>4. Good(Tracked', Shown')
    BY <1>7, <2>1, <2>2, <2>3
  <2> QED  BY <2>4 DEF Good
<1>11. ASSUME NEW k \in 1..N + Len(q)
       PROVE  Told(heard'[k].resent, SubSeq(m, 1, k - 1), heard'[k].id)
  <2>1. CASE k \in 1..N
    <3>1. SubSeq(m, 1, k - 1) = SubSeq(l, 1, k - 1)
      BY <1>1, <1>2, <1>4, <2>1
    <3>2. Told(heard[k].resent, SubSeq(l, 1, k - 1), heard[k].id)
      BY <1>1, <2>1 DEF RelayInv, l
    <3> QED  BY <1>3, <2>1, <3>1, <3>2
  <2>2. CASE k \notin 1..N
    <3> DEFINE n == k - N
               t == C!Noted(q)[n - 1]
    <3>1. n \in 1..Len(q) /\ n - 1 \in 0..Len(q) /\ N + (n - 1) = k - 1 /\ k = N + n
      BY <1>1, <1>2, <1>5, <2>2
    <3> HIDE DEF n
    <3>2. Good(t, SubSeq(m, 1, k - 1))
      BY <1>9, <3>1
    <3>3. Tracked \in Notes
      BY DEF RelayInv, Good
    <3>4. C!Noted(q)[n] = C!Note(t, q[n])
      BY <1>1, <3>1, <3>3, NotedIs
    <3>5. heard'[k].id = q[n] /\ heard'[k].resent = C!Note(t, q[n]).counts[q[n]] /\ q[n] \in Envelope
      BY <1>2, <1>3, <1>4, <3>1, <3>4
    <3> HIDE DEF t
    <3> QED  BY <3>2, <3>5, NotedRightly
  <2> QED  BY <2>1, <2>2
<1>12. \A k \in DOMAIN heard' : Told(heard'[k].resent, SubSeq(Shown', 1, k - 1), heard'[k].id)
  BY <1>3, <1>7, <1>11
<1> QED  BY <1>8, <1>10, <1>12 DEF RelayInv, Told, MetAfter, Things

LEMMA RelayStepInv == ASSUME RelayInv, [C!Next]_(C!vars)  PROVE RelayInv'
<1>1. ASSUME UNCHANGED <<tracker, counts, heard>>,
             queue' \in Seq(Envelope), snapshot' \in Seq(Envelope)
      PROVE  RelayInv'
  <2>1. RelayTypes' /\ Shown' = Shown /\ Tracked' = Tracked
    BY <1>1 DEF RelayInv, RelayTypes, Shown, Tracked
  <2> QED  BY <1>1, <2>1 DEF RelayInv, Good, Told
<1>2. queue \in Seq(Envelope) /\ snapshot \in Seq(Envelope) /\ <<>> \in Seq(Envelope)
  BY DEF RelayInv, RelayTypes
<1>3. CASE \/ UNCHANGED C!vars \/ C!Start \/ C!Initialized \/ C!WakeDisabled
           \/ C!Wake \/ C!WakeUnanswered \/ C!Suppress \/ C!ShowBare
  BY <1>1, <1>2, <1>3
  DEF C!vars, C!Start, C!Initialized, C!WakeDisabled, C!Wake, C!WakeUnanswered, C!Suppress,
      C!ShowBare
<1>4. CASE C!Arrives
  <2>1. \E e \in Envelope : queue' = Append(queue, e)
    BY <1>4 DEF C!Arrives
  <2>2. queue' \in Seq(Envelope)
    BY <1>2, <2>1
  <2> QED  BY <1>1, <1>2, <1>4, <2>2 DEF C!Arrives
<1>5. CASE C!Consumed
  <2>1. PICK i \in DOMAIN queue : queue' = C!RemoveAt(queue, i)
    BY <1>5 DEF C!Consumed
  <2>2. i \in 1..Len(queue)
    BY <1>2, <2>1
  <2>3. /\ SubSeq(queue, 1, i - 1) \in Seq(Envelope)
        /\ SubSeq(queue, i + 1, Len(queue)) \in Seq(Envelope)
    BY <1>2, <2>2
  <2>4. queue' \in Seq(Envelope)
    BY <2>1, <2>3 DEF C!RemoveAt
  <2> QED  BY <1>1, <1>2, <1>5, <2>4 DEF C!Consumed
<1>6. CASE C!Stop
  <2>1. RelayNothing'
    BY <1>2, <1>6 DEF C!Stop, RelayNothing
  <2> QED  BY <2>1, NothingIsRight, PTL
<1> QED  BY <1>3, <1>4, <1>5, <1>6, ShowKeeps DEF C!Next

\* Channel counts as FiniteSets does.
LEMMA RelayCounts == \A N : C!Cardinality(N) = Cardinality(N)
  BY DEF C!Cardinality, Cardinality

LEMMA RelayInvIsRight == ASSUME RelayInv  PROVE C!ResendIsMarked
<1> SUFFICES ASSUME NEW i \in DOMAIN heard
    PROVE  /\ C!Earlier(i) = {} => heard[i].resent = 1
           /\ C!Earlier(i) # {} /\ Cardinality(C!Since(i)) < Capacity => heard[i].resent > 1
  BY RelayCounts DEF C!ResendIsMarked
<1> DEFINE l == SubSeq(Shown, 1, i - 1)
           e == heard[i].id
<1>1. /\ Shown \in Seq(Envelope) /\ Len(Shown) = Len(heard) /\ Len(heard) \in Nat
      /\ i \in 1..Len(heard) /\ DOMAIN heard = 1..Len(heard)
      /\ \A k \in 1..Len(heard) : Shown[k] = heard[k].id
  BY ShownIs DEF RelayInv
<1>2. Len(l) = i - 1 /\ DOMAIN l = 1..i - 1 /\ i - 1 \in Nat
  BY <1>1
<1>3. \A k \in 1..i - 1 : l[k] = heard[k].id
  BY <1>1
<1>4. Told(heard[i].resent, l, e)
  BY DEF RelayInv
<1> HIDE DEF l, e
<1>5. C!Earlier(i) = {j \in 1..i - 1 : l[j] = e}
  BY <1>3 DEF C!Earlier, e
<1>6. CASE C!Earlier(i) = {}
  <2>1. e \notin Things(l)
    BY <1>2, <1>5, <1>6 DEF Things
  <2> QED  BY <1>4, <1>6, <2>1 DEF Told
<1>7. CASE C!Earlier(i) # {}
  <2>1. PICK j \in C!Earlier(i) : \A k \in C!Earlier(i) : k <= j
    <3>1. C!Earlier(i) \in SUBSET (0..i - 1)
      BY <1>2, <1>5
    <3> QED  BY <1>2, <1>7, <3>1, LastPosition
  <2>2. j \in 1..i - 1 /\ l[j] = e
    BY <1>5, <2>1
  <2>3. \A k \in 1..i - 1 : (\A n \in C!Earlier(i) : k > n) <=> k \in j + 1..i - 1
    BY <1>2, <1>5, <2>1, <2>2
  <2>4. C!Since(i) = {heard[k].id : k \in j + 1..i - 1}
    <3>1. {k \in 1..i - 1 : \A n \in C!Earlier(i) : k > n} = j + 1..i - 1
      BY <1>2, <2>2, <2>3
    <3> QED  BY <3>1 DEF C!Since
  <2>5. C!Since(i) = MetAfter(l, j)
    <3>1. \A k \in j + 1..i - 1 : heard[k].id = l[k]
      BY <1>2, <1>3, <2>2
    <3> QED  BY <1>2, <2>4, <3>1 DEF MetAfter
  <2>6. \A k \in j + 1..Len(l) : l[k] # e
    <3>1. \A k \in j + 1..i - 1 : k \in 1..i - 1 /\ ~ k <= j
      BY <1>2, <2>2
    <3> QED  BY <1>2, <1>5, <2>1, <3>1
  <2> QED  BY <1>2, <1>4, <1>7, <2>2, <2>5, <2>6 DEF Told
<1> QED  BY <1>6, <1>7

\* A session that is shown an envelope again is told so unless as many others as
\* the relay remembers came in between, and never of one that is new, for any
\* envelopes, capacity and number of blocks.
THEOREM ResendsAreMarked == C!Spec => []ResendIsMarked
<1>1. C!Spec => []RelayInv
  BY RelayInitInv, RelayStepInv, PTL DEF C!Spec
<1> QED  BY <1>1, RelayInvIsRight, PTL DEF ResendIsMarked
=============================================================================
