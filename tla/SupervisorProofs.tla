-------------------------- MODULE SupervisorProofs --------------------------
(***************************************************************************)
(* Proofs about the endpoint supervisor, for every set of endpoints, every *)
(* restarts_before_quarantine and every bound on the environment.          *)
(***************************************************************************)
EXTENDS Supervisor, TLAPS

\* What a boot has still to visit, and everything while the daemon is down,
\* has no record yet.
Unregistered ==
  \A ep \in Endpoints :
    (phase = "down" \/ (phase = "booting" /\ ep \in todo)) => status[ep] = "none"

\* The endpoint being started or stopped has been taken from the list.
VisitedOnce ==
  \A ep \in Endpoints :
    current = {ep} => ep \notin todo /\ phase # "down" /\ pc \notin {"idle", "visit"}

\* The row is removed of an endpoint that has recovered, though a task of
\* it may have died meanwhile.
Clearing ==
  \A ep \in Endpoints : Busy(ep, "clearing") => status[ep] # "quarantined"

Coherence == TypeOK /\ HealthCoherent /\ Unregistered /\ VisitedOnce
             /\ Clearing /\ QuarantineRecorded

----------------------------------------------------------------------------
LEMMA BecomeType ==
  ASSUME TypeOK, NEW ep \in Endpoints, NEW s, NEW b, NEW f \in Nat, NEW t,
         s \in {"none", "active", "restarting", "quarantined"},
         b \in {"closed", "open", "half_open"}, t \in {"none", "set", "due"},
         Become(ep, s, b, f, t)
  PROVE  /\ status' \in [Endpoints -> {"none", "active", "restarting", "quarantined"}]
         /\ breaker' \in [Endpoints -> {"closed", "open", "half_open"}]
         /\ failures' \in [Endpoints -> Nat]
         /\ timer' \in [Endpoints -> {"none", "set", "due"}]
  BY DEF TypeOK, Become

\* The record of one endpoint is replaced, the others stay.
LEMMA BecomeFields ==
  ASSUME TypeOK, NEW ep \in Endpoints, NEW s, NEW b, NEW f, NEW t, Become(ep, s, b, f, t),
         NEW e \in Endpoints
  PROVE  IF e = ep
           THEN status'[e] = s /\ breaker'[e] = b /\ failures'[e] = f /\ timer'[e] = t
           ELSE status'[e] = status[e] /\ breaker'[e] = breaker[e]
                /\ failures'[e] = failures[e] /\ timer'[e] = timer[e]
  BY DEF TypeOK, Become

LEMMA InitCoherence == ASSUME Init  PROVE Coherence
<1>1. TypeOK
  BY DEF Init, TypeOK
<1>2. HealthCoherent /\ Unregistered /\ VisitedOnce /\ Clearing /\ QuarantineRecorded
  BY DEF Init, HealthCoherent, Unregistered, VisitedOnce, Clearing, QuarantineRecorded,
         Busy, Attempting
<1> QED  BY <1>1, <1>2 DEF Coherence

LEMMA TypeStep ==
  ASSUME TypeOK, [Next]_vars
  PROVE  TypeOK'
<1> USE DEF TypeOK
<1>1. CASE Boot \/ BootEnd \/ TickBegin \/ TickEnd
  BY <1>1 DEF Boot, BootEnd, TickBegin, TickEnd, health, task
<1>2. CASE TransitionFails \/ ProcessEnds
  BY <1>2 DEF TransitionFails, ProcessEnds, Vanish, health
<1>3. ASSUME NEW ep \in Endpoints, BootVisit(ep)  PROVE TypeOK'
  BY <1>3, BecomeType DEF BootVisit, Recover, MoveTo
<1>4. ASSUME NEW ep \in Endpoints,
             BootSucceeds(ep) \/ TickSkip(ep) \/ TickAttempt(ep) \/ Started(ep)
      PROVE  TypeOK'
  BY <1>4 DEF BootSucceeds, TickSkip, TickAttempt, Started, Return, MoveTo, health
<1>5. ASSUME NEW ep \in Endpoints, Quarantine(ep) \/ ProbeFails(ep)  PROVE TypeOK'
  <2>1. failures[ep] \in Nat /\ Become(ep, "quarantined", "open", failures[ep], "set")
    BY <1>5 DEF Quarantine, ProbeFails
  <2>2. /\ status' \in [Endpoints -> {"none", "active", "restarting", "quarantined"}]
        /\ breaker' \in [Endpoints -> {"closed", "open", "half_open"}]
        /\ failures' \in [Endpoints -> Nat]
        /\ timer' \in [Endpoints -> {"none", "set", "due"}]
    BY <2>1 DEF Become
  <2> QED  BY <1>5, <2>2 DEF Quarantine, ProbeFails, MoveTo, Return
<1>6. ASSUME NEW ep \in Endpoints, AttemptSucceeds(ep)  PROVE TypeOK'
  BY <1>6, BecomeType DEF AttemptSucceeds, Recover, MoveTo
<1>7. ASSUME NEW ep \in Endpoints, RestartFails(ep)  PROVE TypeOK'
  <2>1. failures[ep] + 1 \in Nat /\ breaker[ep] \in {"closed", "open", "half_open"}
    OBVIOUS
  <2>2. /\ status' \in [Endpoints -> {"none", "active", "restarting", "quarantined"}]
        /\ breaker' \in [Endpoints -> {"closed", "open", "half_open"}]
        /\ failures' \in [Endpoints -> Nat]
        /\ timer' \in [Endpoints -> {"none", "set", "due"}]
    BY <1>7, <2>1 DEF RestartFails, Become
  <2> QED  BY <1>7, <2>2 DEF RestartFails, MoveTo, Return
<1>8. ASSUME NEW ep \in Endpoints, RecordQuarantine(ep) \/ ClearQuarantine(ep)  PROVE TypeOK'
  BY <1>8 DEF RecordQuarantine, ClearQuarantine, Upsert, Return, health
<1>9. ASSUME NEW ep \in Endpoints, TaskDies(ep)  PROVE TypeOK'
  <2>1. failures[ep] \in Nat /\ breaker[ep] \in {"closed", "open", "half_open"}
    OBVIOUS
  <2>2. CASE status[ep] = "active"
    <3>1. Become(ep, "restarting", breaker[ep], failures[ep], "set")
      BY <1>9, <2>2 DEF TaskDies
    <3>2. /\ status' \in [Endpoints -> {"none", "active", "restarting", "quarantined"}]
          /\ breaker' \in [Endpoints -> {"closed", "open", "half_open"}]
          /\ failures' \in [Endpoints -> Nat]
          /\ timer' \in [Endpoints -> {"none", "set", "due"}]
      BY <2>1, <3>1 DEF Become
    <3> QED  BY <1>9, <3>2 DEF TaskDies, task
  <2>3. CASE status[ep] # "active"
    BY <1>9, <2>3 DEF TaskDies, task, health
  <2> QED  BY <2>2, <2>3
<1>10. ASSUME NEW ep \in Endpoints, TimerElapses(ep)  PROVE TypeOK'
  BY <1>10 DEF TimerElapses, task
<1>11. CASE UNCHANGED vars
  BY <1>11 DEF vars, health, task
<1> QED  BY <1>1, <1>2, <1>3, <1>4, <1>5, <1>6, <1>7, <1>8, <1>9, <1>10, <1>11
         DEF Next, TaskStep

\* The state of the machine stays well formed (supervisor.py, EndpointState).
THEOREM TypeCorrect == Spec => []TypeOK
<1>1. Init => TypeOK
  BY InitCoherence DEF Coherence
<1> QED  BY <1>1, TypeStep, PTL DEF Spec


----------------------------------------------------------------------------
(* The records, the table and the task agree.                              *)

\* All that Coherence says of one endpoint.
Coherent(e) ==
  /\ timer[e] = "none" <=> status[e] \in {"none", "active"}
  /\ breaker[e] = "closed" <=> status[e] # "quarantined"
  /\ breaker[e] = "half_open" <=> Attempting(e) /\ status[e] = "quarantined"
  /\ status[e] = "active" => failures[e] = 0
  /\ status[e] = "restarting" => failures[e] < Threshold
  /\ (phase = "down" \/ (phase = "booting" /\ e \in todo)) => status[e] = "none"
  /\ current = {e} => e \notin todo /\ phase # "down" /\ pc \notin {"idle", "visit"}
  /\ Busy(e, "clearing") => status[e] # "quarantined"
  /\ status[e] = "quarantined" => e \in degraded \/ Busy(e, "recording") \/ faults > 0

LEMMA CoherentAll == Coherence <=> TypeOK /\ \A e \in Endpoints : Coherent(e)
  BY DEF Coherence, HealthCoherent, Unregistered, VisitedOnce, Clearing, QuarantineRecorded,
         Coherent

LEMMA CoherenceStep ==
  ASSUME Coherence, [Next]_vars
  PROVE  Coherence'
<1>1. TypeOK /\ TypeOK' /\ \A e \in Endpoints : Coherent(e)
  BY CoherentAll, TypeStep
<1>0. ASSUME \A e \in Endpoints : Coherent(e)'  PROVE Coherence'
  <2>1. HealthCoherent'
    BY <1>0 DEF HealthCoherent, Coherent
  <2>2. Unregistered' /\ VisitedOnce' /\ Clearing' /\ QuarantineRecorded'
    BY <1>0 DEF Unregistered, VisitedOnce, Clearing, QuarantineRecorded, Coherent
  <2> QED  BY <1>1, <2>1, <2>2 DEF Coherence
<1>2. SUFFICES ASSUME NEW e \in Endpoints  PROVE Coherent(e)'
  BY <1>0
<1>3. Coherent(e) /\ failures[e] \in Nat /\ faults \in Nat /\ Threshold \in Nat /\ Threshold > 0
  BY <1>1, SupervisorAssumption DEF TypeOK
<1> USE DEF Coherent, Attempting, Busy
<1>4. CASE Boot \/ BootEnd \/ TickBegin \/ TickEnd
  <2>1. CASE Boot
    BY <1>1, <1>3, <2>1 DEF Boot, health, TypeOK
  <2>2. CASE BootEnd \/ TickBegin \/ TickEnd
    BY <1>3, <2>2 DEF BootEnd, TickBegin, TickEnd, health, task
  <2> QED  BY <1>4, <2>1, <2>2
<1>5. CASE TransitionFails
  <2>1. CASE phase = "booting"
    BY <1>3, <1>5, <2>1 DEF TransitionFails, Vanish
  <2>2. CASE phase # "booting"
    BY <1>3, <1>5, <2>2 DEF TransitionFails, health
  <2> QED  BY <2>1, <2>2
<1>6. CASE ProcessEnds
  BY <1>3, <1>6 DEF ProcessEnds, Vanish
<1>7. ASSUME NEW ep \in Endpoints, BootVisit(ep)  PROVE Coherent(e)'
  BY <1>1, <1>3, <1>7, BecomeFields DEF BootVisit, Recover, MoveTo
<1>8. ASSUME NEW ep \in Endpoints, BootSucceeds(ep) \/ TickSkip(ep)  PROVE Coherent(e)'
  BY <1>3, <1>8 DEF BootSucceeds, TickSkip, Return, health
<1>9. ASSUME NEW ep \in Endpoints, Quarantine(ep)  PROVE Coherent(e)'
  BY <1>1, <1>3, <1>9, BecomeFields DEF Quarantine, MoveTo
<1>10. ASSUME NEW ep \in Endpoints, TickAttempt(ep)  PROVE Coherent(e)'
  BY <1>1, <1>3, <1>10 DEF TickAttempt, MoveTo, TypeOK
<1>11. ASSUME NEW ep \in Endpoints, Started(ep)  PROVE Coherent(e)'
  BY <1>3, <1>11 DEF Started, MoveTo, health
<1>12. ASSUME NEW ep \in Endpoints, AttemptSucceeds(ep)  PROVE Coherent(e)'
  BY <1>1, <1>3, <1>12, BecomeFields DEF AttemptSucceeds, Recover, MoveTo
<1>13. ASSUME NEW ep \in Endpoints, RestartFails(ep)  PROVE Coherent(e)'
  <2>1. failures[ep] \in Nat /\ Coherent(ep)
    BY <1>1 DEF TypeOK
  <2>2. CASE ReachesThreshold(ep)
    BY <1>1, <1>3, <1>13, <2>1, <2>2, BecomeFields DEF RestartFails, MoveTo
  <2>3. CASE ~ReachesThreshold(ep)
    BY <1>1, <1>3, <1>13, <2>1, <2>3, BecomeFields DEF RestartFails, ReachesThreshold, Return
  <2> QED  BY <2>2, <2>3
<1>14. ASSUME NEW ep \in Endpoints, ProbeFails(ep)  PROVE Coherent(e)'
  <2>1. Coherent(ep)
    BY <1>1
  <2> QED  BY <1>1, <1>3, <1>14, <2>1, BecomeFields DEF ProbeFails, Return
<1>15. ASSUME NEW ep \in Endpoints, RecordQuarantine(ep) \/ ClearQuarantine(ep)
       PROVE  Coherent(e)'
  BY <1>3, <1>15 DEF RecordQuarantine, ClearQuarantine, Upsert, Return, health
<1>16. ASSUME NEW ep \in Endpoints, TaskDies(ep)  PROVE Coherent(e)'
  <2>1. CASE status[ep] = "active"
    BY <1>1, <1>3, <1>16, <2>1, BecomeFields DEF TaskDies, task
  <2>2. CASE status[ep] # "active"
    BY <1>3, <1>16, <2>2 DEF TaskDies, task, health
  <2> QED  BY <2>1, <2>2
<1>17. ASSUME NEW ep \in Endpoints, TimerElapses(ep)  PROVE Coherent(e)'
  BY <1>1, <1>3, <1>17 DEF TimerElapses, task, TypeOK
<1>18. CASE UNCHANGED vars
  BY <1>3, <1>18 DEF vars, health, task
<1> QED  BY <1>4, <1>5, <1>6, <1>7, <1>8, <1>9, <1>10, <1>11, <1>12, <1>13, <1>14, <1>15,
            <1>16, <1>17, <1>18 DEF Next, TaskStep

LEMMA Invariant == Spec => []Coherence
  BY InitCoherence, CoherenceStep, PTL DEF Spec

\* The four fields of an EndpointState agree whatever dies while a restart,
\* a probe or a write is awaited (supervisor.py, record_failure to tick).
THEOREM HealthStaysCoherent == Spec => []HealthCoherent
<1> QED  BY Invariant, PTL DEF Coherence

\* No quarantine is missing from the supervisor_state table once its write
\* has returned, across restarts of the process, as long as no write fails
\* (core.py, _on_supervisor_transition).
THEOREM QuarantinesAreRecorded == Spec => []QuarantineRecorded
<1> QED  BY Invariant, PTL DEF Coherence

----------------------------------------------------------------------------
(* The breaker goes round.                                                 *)

BreakerMoves(e) ==
  /\ breaker[e] = "open" => breaker'[e] # "closed"
  /\ (breaker[e] = "closed" /\ breaker'[e] # "closed") =>
       /\ breaker'[e] = "open"
       /\ phase = "up" => failures'[e] >= Threshold

LEMMA BreakerStep ==
  ASSUME Coherence, [Next]_vars, phase' # "down", NEW e \in Endpoints
  PROVE  BreakerMoves(e)
<1>1. TypeOK /\ \A f \in Endpoints : Coherent(f)
  BY CoherentAll
<1>2. Coherent(e) /\ failures[e] \in Nat /\ Threshold \in Nat
  BY <1>1, SupervisorAssumption DEF TypeOK
<1>3. CASE breaker' = breaker
  BY <1>3 DEF BreakerMoves
<1>4. CASE TransitionFails
  BY <1>3, <1>4 DEF TransitionFails, Vanish, health
<1>5. ASSUME NEW ep \in Endpoints, BootVisit(ep)  PROVE BreakerMoves(e)
  <2>1. breaker[ep] = "closed"
    BY <1>1, <1>5 DEF BootVisit, Coherent
  <2> QED  BY <1>1, <1>5, <2>1, BecomeFields DEF BootVisit, Recover, BreakerMoves
<1>6. ASSUME NEW ep \in Endpoints, Quarantine(ep)  PROVE BreakerMoves(e)
  BY <1>1, <1>6, BecomeFields DEF Quarantine, BreakerMoves
<1>7. ASSUME NEW ep \in Endpoints, TickAttempt(ep)  PROVE BreakerMoves(e)
  BY <1>1, <1>2, <1>7 DEF TickAttempt, BreakerMoves, Coherent, TypeOK
<1>8. ASSUME NEW ep \in Endpoints, AttemptSucceeds(ep)  PROVE BreakerMoves(e)
  <2>1. breaker[ep] # "open"
    BY <1>1, <1>8 DEF AttemptSucceeds, Coherent, Attempting, TypeOK
  <2> QED  BY <1>1, <1>8, <2>1, BecomeFields DEF AttemptSucceeds, Recover, BreakerMoves
<1>9. ASSUME NEW ep \in Endpoints, RestartFails(ep)  PROVE BreakerMoves(e)
  <2>1. breaker[ep] = "closed"
    BY <1>1, <1>9 DEF RestartFails, Coherent
  <2>2. CASE ReachesThreshold(ep)
    BY <1>1, <1>2, <1>9, <2>1, <2>2, BecomeFields
       DEF RestartFails, ReachesThreshold, BreakerMoves
  <2>3. CASE ~ReachesThreshold(ep)
    BY <1>1, <1>9, <2>1, <2>3, BecomeFields DEF RestartFails, BreakerMoves
  <2> QED  BY <2>2, <2>3
<1>10. ASSUME NEW ep \in Endpoints, ProbeFails(ep)  PROVE BreakerMoves(e)
  <2>1. breaker[ep] # "closed"
    BY <1>1, <1>10 DEF ProbeFails, Coherent
  <2> QED  BY <1>1, <1>10, <2>1, BecomeFields DEF ProbeFails, BreakerMoves
<1>11. ASSUME NEW ep \in Endpoints, TaskDies(ep)  PROVE BreakerMoves(e)
  <2>1. CASE status[ep] = "active"
    BY <1>1, <1>11, <2>1, BecomeFields DEF TaskDies, BreakerMoves
  <2>2. CASE status[ep] # "active"
    BY <1>3, <1>11, <2>2 DEF TaskDies, health
  <2> QED  BY <2>1, <2>2
<1>12. CASE UNCHANGED vars \/ Boot \/ BootEnd \/ TickBegin \/ TickEnd
  BY <1>3, <1>12 DEF vars, health, Boot, BootEnd, TickBegin, TickEnd
<1>13. CASE ProcessEnds
  BY <1>13 DEF ProcessEnds, Vanish
<1>14. ASSUME NEW ep \in Endpoints,
              \/ BootSucceeds(ep) \/ TickSkip(ep) \/ Started(ep) \/ RecordQuarantine(ep)
              \/ ClearQuarantine(ep) \/ TimerElapses(ep)
       PROVE  BreakerMoves(e)
  BY <1>3, <1>14 DEF BootSucceeds, TickSkip, Started, RecordQuarantine, ClearQuarantine,
                     TimerElapses, health
<1> QED  BY <1>4, <1>5, <1>6, <1>7, <1>8, <1>9, <1>10, <1>11, <1>12, <1>13, <1>14
         DEF Next, TaskStep

\* The breaker opens at the threshold and closes through half open only
\* (supervisor.py, _attempt_restart and _attempt_probe).
THEOREM BreakerGoesRound == Spec => BreakerCycle
<1>1. Coherence /\ [Next]_vars =>
        (phase' # "down" => \A ep \in Endpoints : BreakerMoves(ep))
  BY BreakerStep
<1>2. Coherence /\ [Next]_vars =>
        [\A ep \in Endpoints : phase' # "down" =>
           /\ breaker[ep] = "open" => breaker'[ep] # "closed"
           /\ (breaker[ep] = "closed" /\ breaker'[ep] # "closed") =>
                /\ breaker'[ep] = "open"
                /\ phase = "up" => failures'[ep] >= Threshold]_vars
  BY <1>1 DEF BreakerMoves
<1> QED  BY <1>2, Invariant, PTL DEF Spec, BreakerCycle


=============================================================================
