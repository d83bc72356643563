--------------------------- MODULE OutsideProofs ---------------------------
(***************************************************************************)
(* Proofs about the parts between the bus and the outside, one after the   *)
(* other: for each the inductive invariant, that the initial state has it  *)
(* and every step keeps it, and the property of Outside that follows.      *)
(***************************************************************************)
EXTENDS Outside, CommonLemmas

-----------------------------------------------------------------------------
(* Inbound                                                                 *)
\* What the deduper remembers is what it met last: the last Capacity different
\* events of the log, the one met last at the end. The bucket has the instants
\* of all that were handed on within the window.

----------------------------------------------------------------------------
(* The bucket                                                              *)

\* The events handed on that count against the limit now.
InboundDue == {i \in I!Handed : log[i].at + Window >= now}

\* Each of them has a stamp of its own in the bucket b.
InboundStamped(b) ==
  \E f \in Injection(InboundDue, DOMAIN b) : \A i \in InboundDue : b[f[i]] = log[i].at

LEMMA LiveIs ==
  ASSUME stamps \in Seq(Nat), now \in Nat
  PROVE  \E n \in 0..Len(stamps) :
           (\A k \in 1..n : I!Stale(k)) /\ I!Live = SubSeq(stamps, n + 1, Len(stamps))
<1> DEFINE P(n) == (\A k \in 1..n : I!Stale(k)) /\ (n < Len(stamps) => ~ I!Stale(n + 1))
           S == {n \in 0..Len(stamps) : n < Len(stamps) => ~ I!Stale(n + 1)}
<1>1. S \in SUBSET Nat /\ Len(stamps) \in S
  OBVIOUS
<1>2. PICK n \in S : \A m \in S : n <= m
  <2> HIDE DEF S
  <2> QED  BY <1>1, Smallest
<1>3. ASSUME NEW k \in 1..n  PROVE I!Stale(k)
  <2>1. k - 1 \in 0..Len(stamps) /\ (k - 1) + 1 = k /\ ~ n <= k - 1
    BY <1>2
  <2>2. k - 1 \notin S
    BY <1>2, <2>1
  <2>3. I!Stale((k - 1) + 1)
    BY <2>1, <2>2
  <2> QED  BY <2>1, <2>3
<1>4. n \in 0..Len(stamps) /\ P(n)
  BY <1>2, <1>3
<1>5. (CHOOSE m \in 0..Len(stamps) : P(m)) \in 0..Len(stamps) /\ P(CHOOSE m \in 0..Len(stamps) : P(m))
  <2> HIDE DEF P
  <2> QED  BY <1>4
<1>6. I!Live = SubSeq(stamps, (CHOOSE m \in 0..Len(stamps) : P(m)) + 1, Len(stamps))
  BY DEF I!Live
<1> QED  BY <1>5, <1>6

\* Only what does not count any more is taken out.
LEMMA LiveKeeps ==
  ASSUME stamps \in Seq(Nat), now \in Nat, Len(stamps) <= RateLimit, InboundStamped(stamps)
  PROVE  I!Live \in Seq(Nat) /\ Len(I!Live) <= RateLimit /\ InboundStamped(I!Live)
<1>1. PICK n \in 0..Len(stamps) :
        (\A k \in 1..n : I!Stale(k)) /\ I!Live = SubSeq(stamps, n + 1, Len(stamps))
  BY LiveIs
<1>2. /\ I!Live \in Seq(Nat) /\ Len(I!Live) = Len(stamps) - n /\ DOMAIN I!Live = 1..Len(stamps) - n
      /\ \A k \in 1..Len(stamps) - n : I!Live[k] = stamps[n + k]
  BY <1>1
<1>3. PICK f \in Injection(InboundDue, DOMAIN stamps) : \A i \in InboundDue : stamps[f[i]] = log[i].at
  BY DEF InboundStamped
<1>4. f \in [InboundDue -> 1..Len(stamps)] /\ \A i, j \in InboundDue : f[i] = f[j] => i = j
  BY <1>3 DEF Injection, IsInjective
<1> DEFINE g == [i \in InboundDue |-> f[i] - n]
<1>5. ASSUME NEW i \in InboundDue
      PROVE  f[i] - n \in 1..Len(stamps) - n /\ I!Live[f[i] - n] = log[i].at
  <2>1. f[i] \in 1..Len(stamps) /\ stamps[f[i]] + Window >= now
    BY <1>3, <1>4 DEF InboundDue
  <2>2. stamps[f[i]] \in Nat
    BY <2>1
  <2>3. ~ I!Stale(f[i])
    BY <2>1, <2>2, OutsideAssumption DEF I!Stale
  <2>4. f[i] > n
    BY <1>1, <2>1, <2>3
  <2>5. f[i] - n \in 1..Len(stamps) - n /\ n + (f[i] - n) = f[i]
    BY <2>1, <2>4
  <2> QED  BY <1>2, <1>3, <2>5
<1>6. g \in [InboundDue -> DOMAIN I!Live]
  BY <1>2, <1>5
<1>7. IsInjective(g)
  BY <1>4 DEF IsInjective
<1>8. g \in Injection(InboundDue, DOMAIN I!Live)
  BY <1>6, <1>7 DEF Injection
<1>9. \A i \in InboundDue : I!Live[g[i]] = log[i].at
  BY <1>5
<1>10. Len(I!Live) <= RateLimit
  BY <1>1, <1>2, OutsideAssumption
<1> HIDE DEF g
<1> QED  BY <1>2, <1>8, <1>9, <1>10 DEF InboundStamped

----------------------------------------------------------------------------
(* The invariant                                                           *)

InboundEntry == [event : Event, at : Nat, handed : BOOLEAN]

InboundMet == [i \in DOMAIN log |-> log[i].event]

InboundTypes == now \in Nat /\ stamps \in Seq(Nat) /\ log \in Seq(InboundEntry)

InboundInv ==
  /\ InboundTypes
  /\ LastMet(DedupeCapacity, Event, seen, InboundMet)
  /\ I!NotTwice
  /\ Len(stamps) <= RateLimit /\ InboundStamped(stamps)

\* Nothing was met and nothing is kept.
InboundEmpty == now \in Nat /\ seen = <<>> /\ stamps = <<>> /\ log = <<>>

LEMMA InboundNothing == InboundEmpty => InboundInv
<1> SUFFICES ASSUME now \in Nat, seen = <<>>, stamps = <<>>, log = <<>>  PROVE InboundInv
  BY DEF InboundEmpty
<1>1. I!Handed = {} /\ InboundDue = {} /\ DOMAIN log = {} /\ DOMAIN stamps = {} /\ DOMAIN seen = {}
  BY DEF I!Handed, InboundDue
<1>2. InboundMet = <<>>
  BY DEF InboundMet
<1>3. LastMet(DedupeCapacity, Event, seen, InboundMet)
  BY <1>2, OutsideAssumption DEF LastMet
<1>4. InboundStamped(stamps)
  <2> DEFINE f == [i \in {} |-> 1]
  <2>1. f \in Injection(InboundDue, DOMAIN stamps)
    BY <1>1 DEF Injection, IsInjective
  <2> QED  BY <1>1, <2>1 DEF InboundStamped
<1> QED  BY <1>1, <1>3, <1>4, OutsideAssumption DEF InboundInv, InboundTypes, I!NotTwice

LEMMA InboundInitInv == ASSUME I!Init  PROVE InboundInv
  BY InboundNothing DEF I!Init, InboundEmpty

\* Time passes: fewer events count.
LEMMA TickKeeps == ASSUME InboundInv, I!Tick  PROVE InboundInv'
<1>1. now \in Nat /\ now' = now + 1 /\ log \in Seq(InboundEntry) /\ UNCHANGED <<seen, stamps, log>>
  BY DEF I!Tick, InboundInv, InboundTypes
<1>2. I!Handed' = I!Handed /\ InboundMet' = InboundMet
  BY <1>1 DEF I!Handed, InboundMet
<1>3. InboundDue' \subseteq InboundDue
  <2>0. \A i \in I!Handed : log[i] \in InboundEntry
    BY <1>1 DEF I!Handed
  <2>1. \A i \in I!Handed : log[i].at \in Nat
    BY <2>0 DEF InboundEntry
  <2> QED  BY <1>1, <1>2, <2>1, OutsideAssumption DEF InboundDue
<1>4. PICK f \in Injection(InboundDue, DOMAIN stamps) : \A i \in InboundDue : stamps[f[i]] = log[i].at
  BY DEF InboundInv, InboundStamped
<1> DEFINE g == [i \in InboundDue' |-> f[i]]
<1>5. g \in Injection(InboundDue', DOMAIN stamps)
  BY <1>3, <1>4 DEF Injection, IsInjective
<1>6. \A i \in InboundDue' : stamps[g[i]] = log[i].at
  BY <1>3, <1>4
<1>7. InboundStamped(stamps)'
  BY <1>1, <1>5, <1>6 DEF InboundStamped
<1>8. I!NotTwice'
  BY <1>1, <1>2 DEF InboundInv, I!NotTwice, I!Between
<1> QED  BY <1>1, <1>2, <1>7, <1>8 DEF InboundInv, InboundTypes

LEMMA BucketKeeps ==
  ASSUME InboundInv, UNCHANGED <<now, seen, log>>,
         stamps' \in {stamps, I!Live} \/ (stamps' = Append(I!Live, now) /\ I!HasToken)
  PROVE  InboundInv'
<1>1. I!Live \in Seq(Nat) /\ Len(I!Live) <= RateLimit /\ InboundStamped(I!Live)
  BY LiveKeeps DEF InboundInv, InboundTypes
<1>2. I!Handed' = I!Handed /\ InboundMet' = InboundMet /\ InboundDue' = InboundDue
  BY DEF I!Handed, InboundMet, InboundDue
<1>3. I!NotTwice'
  BY <1>2 DEF InboundInv, I!NotTwice, I!Between
<1>4. stamps' \in Seq(Nat) /\ Len(stamps') <= RateLimit
  <2>1. CASE stamps' \in {stamps, I!Live}
    BY <1>1, <2>1 DEF InboundInv, InboundTypes
  <2>2. CASE stamps' = Append(I!Live, now) /\ I!HasToken
    <3>1. Len(I!Live) < RateLimit /\ now \in Nat /\ Len(I!Live) \in Nat
      BY <1>1, <2>2 DEF I!HasToken, InboundInv, InboundTypes
    <3>2. stamps' \in Seq(Nat) /\ Len(stamps') = Len(I!Live) + 1
      BY <1>1, <2>2, <3>1
    <3> QED  BY <3>1, <3>2, OutsideAssumption
  <2> QED  BY <2>1, <2>2
<1>5. InboundStamped(stamps)'
  <2>1. CASE stamps' \in {stamps, I!Live}
    BY <1>1, <1>2, <2>1 DEF InboundInv, InboundStamped
  <2>2. CASE stamps' = Append(I!Live, now) /\ I!HasToken
    <3>1. PICK f \in Injection(InboundDue, DOMAIN I!Live) : \A i \in InboundDue : I!Live[f[i]] = log[i].at
      BY <1>1 DEF InboundStamped
    <3>2. DOMAIN I!Live \subseteq DOMAIN stamps' /\ \A k \in DOMAIN I!Live : stamps'[k] = I!Live[k]
      BY <1>1, <2>2 DEF InboundInv, InboundTypes
    <3>3. f \in Injection(InboundDue, DOMAIN stamps') /\ \A i \in InboundDue : f[i] \in DOMAIN I!Live
      BY <3>1, <3>2 DEF Injection
    <3>4. \A i \in InboundDue : stamps'[f[i]] = log[i].at
      BY <3>1, <3>2, <3>3
    <3> QED  BY <1>2, <3>3, <3>4 DEF InboundStamped
  <2> QED  BY <2>1, <2>2
<1> QED  BY <1>2, <1>3, <1>4, <1>5 DEF InboundInv, InboundTypes

\* The log has one entry more.
LEMMA InboundLogGrows ==
  ASSUME InboundInv, NEW e \in Event, NEW h \in BOOLEAN,
         log' = Append(log, [event |-> e, at |-> now, handed |-> h])
  PROVE  /\ log' \in Seq(InboundEntry) /\ Len(log) \in Nat
         /\ DOMAIN log' = 1..Len(log) + 1 /\ DOMAIN log = 1..Len(log)
         /\ \A i \in 1..Len(log) : log'[i] = log[i]
         /\ log'[Len(log) + 1] = [event |-> e, at |-> now, handed |-> h]
         /\ InboundMet' = Append(InboundMet, e) /\ Len(InboundMet) = Len(log)
         /\ I!Handed' = IF h THEN I!Handed \cup {Len(log) + 1} ELSE I!Handed
<1> DEFINE r == [event |-> e, at |-> now, handed |-> h]
           n == Len(log) + 1
<1>1. log \in Seq(InboundEntry) /\ r \in InboundEntry /\ r.handed = h /\ r.event = e
  BY DEF InboundInv, InboundTypes, InboundEntry
<1>2. log' = Append(log, r)
  OBVIOUS
<1> HIDE DEF r
<1>3. /\ log' \in Seq(InboundEntry) /\ DOMAIN log' = 1..n /\ DOMAIN log = 1..Len(log) /\ Len(log) \in Nat
      /\ (\A i \in 1..Len(log) : log'[i] = log[i]) /\ log'[n] = r
  BY <1>1, <1>2
<1>4. 1..n = 1..Len(log) \cup {n} /\ n \notin 1..Len(log)
  BY <1>3
<1>5. I!Handed' = IF h THEN I!Handed \cup {n} ELSE I!Handed
  <2> HIDE DEF n
  <2> QED  BY <1>1, <1>3, <1>4 DEF I!Handed
<1>6. \A i \in 1..Len(log) : log[i].event \in Event
  <2>1. \A i \in 1..Len(log) : log[i] \in InboundEntry
    BY <1>1
  <2> QED  BY <2>1 DEF InboundEntry
<1>7. InboundMet \in Seq(Event) /\ Len(InboundMet) = Len(log) /\ InboundMet = [i \in 1..Len(log) |-> log[i].event]
  BY <1>3, <1>6 DEF InboundMet
<1>8. InboundMet' = [i \in 1..n |-> log'[i].event]
  BY <1>3 DEF InboundMet
<1>9. InboundMet' = Append(InboundMet, e)
  <2>1. InboundMet' \in Seq(Event) /\ Len(InboundMet') = n
    <3>1. \A i \in 1..n : log'[i].event \in Event
      <4>1. \A i \in 1..n : log'[i] \in InboundEntry
        BY <1>3
      <4> QED  BY <4>1 DEF InboundEntry
    <3> QED  BY <1>3, <1>8, <3>1
  <2>2. \A i \in 1..n : InboundMet'[i] = Append(InboundMet, e)[i]
    <3>1. \A i \in 1..Len(log) : InboundMet'[i] = InboundMet[i] /\ Append(InboundMet, e)[i] = InboundMet[i]
      BY <1>3, <1>4, <1>7, <1>8
    <3>2. InboundMet'[n] = e /\ Append(InboundMet, e)[n] = e
      BY <1>1, <1>3, <1>4, <1>7, <1>8
    <3> QED  BY <1>4, <3>1, <3>2
  <2>3. Append(InboundMet, e) \in Seq(Event) /\ Len(Append(InboundMet, e)) = n
    BY <1>7
  <2> QED  BY <1>3, <2>1, <2>2, <2>3
<1> QED  BY <1>3, <1>5, <1>7, <1>9 DEF r, n

\* Inbound counts as FiniteSets does.
LEMMA InboundCounts == \A N : I!Cardinality(N) = Cardinality(N)
  BY DEF I!Cardinality, Cardinality

\* Between two entries there is what there was.
LEMMA BetweenStays ==
  ASSUME InboundInv, NEW e \in Event, NEW h \in BOOLEAN,
         log' = Append(log, [event |-> e, at |-> now, handed |-> h])
  PROVE  /\ \A i \in Nat, j \in DOMAIN log : I!Between(i, j)' = I!Between(i, j)
         /\ \A i, j \in Nat : j = Len(log) + 1 => I!Between(i, j)' = MetAfter(InboundMet, i)
<1>1. /\ Len(log) \in Nat /\ DOMAIN log = 1..Len(log) /\ Len(InboundMet) = Len(log)
      /\ \A i \in 1..Len(log) : log'[i] = log[i]
  BY InboundLogGrows
<1>2. \A i \in 1..Len(log) : InboundMet[i] = log[i].event
  BY <1>1 DEF InboundMet
<1>3. ASSUME NEW i \in Nat, NEW j \in DOMAIN log  PROVE I!Between(i, j)' = I!Between(i, j)
  <2>1. \A k \in i + 1..j - 1 : k \in 1..Len(log)
    BY <1>1
  <2> QED  BY <1>1, <2>1 DEF I!Between
<1>4. ASSUME NEW i \in Nat, NEW j \in Nat, j = Len(log) + 1
      PROVE  I!Between(i, j)' = MetAfter(InboundMet, i)
  <2>1. I!Between(i, j)' = {log'[k].event : k \in i + 1..j - 1}
    BY DEF I!Between
  <2>2. j - 1 = Len(log) /\ \A k \in i + 1..Len(log) : k \in 1..Len(log)
    BY <1>1, <1>4
  <2>3. \A k \in i + 1..Len(log) : log'[k].event = InboundMet[k]
    BY <1>1, <1>2, <2>2
  <2> QED  BY <1>1, <2>1, <2>2, <2>3 DEF MetAfter
<1> QED  BY <1>3, <1>4

\* What the router has met is met again, and not handed on.
LEMMA RedeliveredKeeps ==
  ASSUME InboundInv, NEW e \in Event, I!Redelivered(e)
  PROVE  InboundInv'
<1>1. /\ log' = Append(log, [event |-> e, at |-> now, handed |-> FALSE])
      /\ UNCHANGED <<now, stamps>>
  BY DEF I!Redelivered
<1>2. PICK p \in DOMAIN seen : seen[p] = e /\ seen' = Append(I!RemoveAt(seen, p), e)
  BY DEF I!Redelivered
<1>3. /\ log' \in Seq(InboundEntry) /\ InboundMet' = Append(InboundMet, e) /\ I!Handed' = I!Handed
      /\ Len(log) \in Nat /\ DOMAIN log = 1..Len(log) /\ DOMAIN log' = 1..Len(log) + 1
      /\ \A i \in 1..Len(log) : log'[i] = log[i]
      /\ log'[Len(log) + 1] = [event |-> e, at |-> now, handed |-> FALSE]
  BY <1>1, InboundLogGrows
<1>4. LastMet(DedupeCapacity, Event, seen, InboundMet)'
  <2>1. LastMet(DedupeCapacity, Event, Renewed(seen, p), Append(InboundMet, seen[p]))
    BY <1>2, OutsideAssumption, MetAgain DEF InboundInv
  <2>2. seen' = Renewed(seen, p)
    BY <1>2 DEF Renewed, I!RemoveAt
  <2> QED  BY <1>2, <1>3, <2>1, <2>2
<1>5. I!Handed \subseteq 1..Len(log)
  BY <1>3 DEF I!Handed
<1>6. InboundDue' = InboundDue
  BY <1>1, <1>3, <1>5 DEF InboundDue
<1>7. InboundStamped(stamps)'
  <2>1. \A i \in InboundDue : log'[i].at = log[i].at
    BY <1>3, <1>5 DEF InboundDue
  <2> QED  BY <1>1, <1>6, <2>1 DEF InboundInv, InboundStamped
<1>8. I!NotTwice'
  <2> SUFFICES ASSUME NEW j \in I!Handed', NEW i \in DOMAIN log', i < j, log'[i].event = log'[j].event
      PROVE  Cardinality(I!Between(i, j)' \ {log'[j].event}) >= DedupeCapacity
    BY InboundCounts DEF I!NotTwice
  <2>1. j \in I!Handed /\ j \in 1..Len(log) /\ i \in 1..Len(log) /\ i \in Nat
    BY <1>3, <1>5
  <2>2. I!Between(i, j)' = I!Between(i, j)
    BY <1>1, <1>3, <2>1, BetweenStays
  <2> QED  BY <1>3, <2>1, <2>2, InboundCounts DEF InboundInv, I!NotTwice
<1> QED  BY <1>1, <1>3, <1>4, <1>7, <1>8 DEF InboundInv, InboundTypes

\* What the router has not met, or met too long ago, is handed on.
LEMMA HandedOnKeeps ==
  ASSUME InboundInv, NEW e \in Event, I!HandedOn(e)
  PROVE  InboundInv'
<1> DEFINE n == Len(log) + 1
<1>1. /\ log' = Append(log, [event |-> e, at |-> now, handed |-> TRUE])
      /\ e \notin I!ToSet(seen) /\ I!HasToken /\ stamps' = Append(I!Live, now)
      /\ seen' = I!Remember(e) /\ UNCHANGED now
  BY DEF I!HandedOn, I!Known, I!Contains, I!ToSet
<1>2. /\ log' \in Seq(InboundEntry) /\ InboundMet' = Append(InboundMet, e) /\ I!Handed' = I!Handed \cup {n}
      /\ Len(log) \in Nat /\ DOMAIN log = 1..Len(log) /\ DOMAIN log' = 1..n
      /\ \A i \in 1..Len(log) : log'[i] = log[i]
      /\ log'[n] = [event |-> e, at |-> now, handed |-> TRUE]
      /\ Len(InboundMet) = Len(log)
  BY <1>1, InboundLogGrows
<1>3. LastMet(DedupeCapacity, Event, seen, InboundMet)'
  <2>1. LastMet(DedupeCapacity, Event, KeptOf(DedupeCapacity, seen, e), Append(InboundMet, e))
    BY <1>1, OutsideAssumption, MetFirst DEF InboundInv, Things, I!ToSet
  <2> QED  BY <1>1, <1>2, <2>1 DEF KeptOf, I!Remember
<1>4. I!Handed \subseteq 1..Len(log) /\ n \notin 1..Len(log) /\ n \in Nat
  BY <1>2 DEF I!Handed
<1>5. now \in Nat /\ I!Live \in Seq(Nat) /\ Len(I!Live) < RateLimit /\ InboundStamped(I!Live)
  BY <1>1, LiveKeeps DEF InboundInv, InboundTypes, I!HasToken
<1>6. /\ stamps' \in Seq(Nat) /\ Len(stamps') = Len(I!Live) + 1 /\ Len(I!Live) \in Nat
      /\ DOMAIN stamps' = 1..Len(I!Live) + 1 /\ DOMAIN I!Live = 1..Len(I!Live)
      /\ (\A k \in 1..Len(I!Live) : stamps'[k] = I!Live[k]) /\ stamps'[Len(I!Live) + 1] = now
  BY <1>1, <1>5
<1>7. InboundDue' = InboundDue \cup {n}
  <2>1. \A i \in I!Handed : log'[i] = log[i]
    BY <1>2, <1>4
  <2>2. log'[n].at + Window >= now
    BY <1>2, <1>5, OutsideAssumption
  <2> HIDE DEF n
  <2> QED  BY <1>1, <1>2, <1>4, <2>1, <2>2 DEF InboundDue
<1>8. InboundStamped(stamps)'
  <2>1. PICK f \in Injection(InboundDue, DOMAIN I!Live) : \A i \in InboundDue : I!Live[f[i]] = log[i].at
    BY <1>5 DEF InboundStamped
  <2>2. f \in [InboundDue -> 1..Len(I!Live)] /\ \A i, j \in InboundDue : f[i] = f[j] => i = j
    BY <1>6, <2>1 DEF Injection, IsInjective
  <2>3. InboundDue \subseteq 1..Len(log)
    BY <1>4 DEF InboundDue
  <2> DEFINE g == [i \in InboundDue' |-> IF i = n THEN Len(I!Live) + 1 ELSE f[i]]
  <2> HIDE DEF n
  <2>4. g \in [InboundDue' -> DOMAIN stamps']
    BY <1>6, <1>7, <2>2
  <2>5. \A i, j \in InboundDue' : g[i] = g[j] => i = j
    <3>1. \A i \in InboundDue : f[i] # Len(I!Live) + 1
      BY <1>6, <2>2
    <3> QED  BY <1>7, <2>2, <3>1
  <2>6. \A i \in InboundDue' : stamps'[g[i]] = log'[i].at
    <3>1. \A i \in InboundDue : g[i] = f[i] /\ f[i] \in 1..Len(I!Live) /\ log'[i] = log[i]
      BY <1>2, <1>4, <1>7, <2>2, <2>3
    <3>2. g[n] = Len(I!Live) + 1 /\ log'[n].at = now
      BY <1>2, <1>7
    <3> QED  BY <1>6, <1>7, <2>1, <3>1, <3>2
  <2>7. g \in Injection(InboundDue', DOMAIN stamps')
    BY <2>4, <2>5 DEF Injection, IsInjective
  <2> HIDE DEF g
  <2> QED  BY <2>6, <2>7 DEF InboundStamped
<1>9. I!NotTwice'
  <2> SUFFICES ASSUME NEW j \in I!Handed', NEW i \in DOMAIN log', i < j, log'[i].event = log'[j].event
      PROVE  Cardinality(I!Between(i, j)' \ {log'[j].event}) >= DedupeCapacity
    BY InboundCounts DEF I!NotTwice
  <2>1. i \in 1..Len(log) /\ i \in Nat
    BY <1>2, <1>4
  <2>2. CASE j \in I!Handed
    <3>1. j \in 1..Len(log) /\ I!Between(i, j)' = I!Between(i, j)
      BY <1>1, <1>2, <1>4, <2>1, <2>2, BetweenStays
    <3> QED  BY <1>2, <2>1, <2>2, <3>1, InboundCounts DEF InboundInv, I!NotTwice
  <2>3. CASE j = n
    <3>1. I!Between(i, j)' = MetAfter(InboundMet, i)
      BY <1>1, <1>4, <2>1, <2>3, BetweenStays
    <3>2. log'[j].event = e
      BY <1>2, <2>3
    <3>3. i \in DOMAIN InboundMet /\ InboundMet[i] = e /\ InboundMet[i] \notin Things(seen)
      BY <1>1, <1>2, <2>1, <3>2 DEF InboundMet, Things, I!ToSet
    <3>4. DedupeCapacity <= Cardinality(MetAfter(InboundMet, i) \ {e})
      BY <3>3 DEF InboundInv, LastMet
    <3>5. IsFiniteSet(MetAfter(InboundMet, i) \ {e})
      BY <2>1, AfterIsFinite, FS_Subset DEF InboundInv, LastMet
    <3>6. Cardinality(MetAfter(InboundMet, i) \ {e}) \in Nat
      BY <3>5, FS_CardinalityType
    <3> QED  BY <3>1, <3>2, <3>4, <3>6, OutsideAssumption
  <2> QED  BY <1>2, <2>2, <2>3
<1>10. Len(stamps') <= RateLimit
  BY <1>5, <1>6, OutsideAssumption
<1> QED  BY <1>1, <1>2, <1>3, <1>6, <1>8, <1>9, <1>10 DEF InboundInv, InboundTypes

LEMMA InboundStepInv == ASSUME InboundInv, [I!Next]_(I!vars)  PROVE InboundInv'
<1>1. CASE UNCHANGED <<now, seen, stamps, log>>
  BY <1>1, BucketKeeps
<1>2. CASE I!Start
  <2>1. InboundEmpty'
    BY <1>2 DEF I!Start, InboundInv, InboundTypes, InboundEmpty
  <2> QED  BY <2>1, InboundNothing, PTL
<1>3. CASE \E e \in Event : I!Receive(e)
  <2>1. PICK e \in Event : I!Receive(e)
    BY <1>3
  <2>2. CASE I!Denied(e) \/ I!Limited(e) \/ I!AuditFails(e)
    <3>1. /\ UNCHANGED <<now, seen, log>>
          /\ stamps' \in {stamps, I!Live} \/ (stamps' = Append(I!Live, now) /\ I!HasToken)
      BY <2>2 DEF I!Denied, I!Limited, I!AuditFails
    <3> QED  BY <3>1, BucketKeeps
  <2> QED  BY <2>1, <2>2, RedeliveredKeeps, HandedOnKeeps DEF I!Receive
<1> QED  BY <1>1, <1>2, <1>3, TickKeeps DEF I!Next, I!Edit, I!Delete, I!Stop, I!vars

LEMMA InboundInvIsRight == ASSUME InboundInv  PROVE I!AdmittedRightly
<1>1. PICK f \in Injection(InboundDue, DOMAIN stamps) : TRUE
  BY DEF InboundInv, InboundStamped
<1>2. DOMAIN stamps = 1..Len(stamps) /\ Len(stamps) \in Nat
  BY DEF InboundInv, InboundTypes
<1>3. IsFiniteSet(DOMAIN stamps) /\ Cardinality(DOMAIN stamps) = Len(stamps)
  <2> DEFINE n == Len(stamps)
  <2>1. n \in Nat
    BY <1>2
  <2> HIDE DEF n
  <2>2. IsFiniteSet(1..n) /\ Cardinality(1..n) = n
    <3>1. IsFiniteSet(1..n) /\ Cardinality(1..n) = IF 1 > n THEN 0 ELSE n - 1 + 1
      BY <2>1, FS_Interval
    <3> QED  BY <2>1, <3>1
  <2> QED  BY <1>2, <2>2 DEF n
<1>4. IsFiniteSet(InboundDue) /\ Cardinality(InboundDue) <= Len(stamps)
  BY <1>1, <1>3, FS_Injection
<1>5. Cardinality(InboundDue) \in Nat
  BY <1>4, FS_CardinalityType
<1>6. Cardinality(InboundDue) <= RateLimit
  BY <1>2, <1>4, <1>5, OutsideAssumption DEF InboundInv
<1> QED  BY <1>6, InboundCounts DEF InboundDue, I!RateHeld, I!AdmittedRightly, InboundInv

\* An event is handed on again only after as many others as the router remembers,
\* and no window sees more of them than the limit, for any capacity, limit, window
\* and number of events.
THEOREM AdmittedAreRight == I!Spec => []AdmittedRightly
<1>1. I!Spec => []InboundInv
  BY InboundInitInv, InboundStepInv, PTL DEF I!Spec
<1> QED  BY <1>1, InboundInvIsRight, PTL DEF AdmittedRightly

-----------------------------------------------------------------------------
(* DiscordOutbound                                                         *)
\* Each delivery knows how far its posts have come, and the one before it had
\* come no further.

PostNote == {"sent", "partial", "error"}

PostDelivery ==
  [at : {"posting", "unavailable", "replying", "acking", "done"},
   part : O!Part, try : Nat, note : PostNote \cup {""}]

PostTypes ==
  /\ row \in [Envelope -> {"pending", "in_flight", "acked", "dead"}]
  /\ run \in [Envelope -> Seq(PostDelivery)]
  /\ posted \in [Envelope -> [O!Part -> Nat]]
  /\ told \subseteq [env : Envelope, note : PostNote]
  /\ doubtful \subseteq Envelope

\* What a note says of the posts p made so far, and what it denies.
Says(n, p) ==
  /\ n \in PostNote
  /\ n = "sent" => \A i \in O!Part : p[i] > 0
  /\ n = "partial" => p[1] > 0

Denies(n, p) ==
  /\ n = "partial" => p[PostParts] = 0
  /\ n = "error" => \A i \in O!Part : p[i] = 0

\* Delivery r has come as far as the posts p say, and, as Denies, no further.
Reached(r, p) ==
  /\ r.at = "posting" => \A i \in O!Part : i < r.part => p[i] > 0
  /\ r.at \in {"replying", "acking"} => Says(r.note, p)

NoFurther(r, p) ==
  /\ r.at = "posting" => \A i \in O!Part : p[i] = IF i < r.part THEN 1 ELSE 0
  /\ r.at = "unavailable" => \A i \in O!Part : p[i] = 0
  /\ r.at \in {"replying", "acking"} => Denies(r.note, p)

\* Of an envelope that is not odd: one delivery runs, and then the row is in
\* flight; a row that can be delivered again has no post; a sender that was
\* told is one whose envelope only waits for its acknowledgment.
InOrder(e) ==
  /\ \A c, d \in O!Running(e) : c = d
  /\ \A d \in O!Running(e) : row[e] = "in_flight" /\ NoFurther(run[e][d], posted[e])
  /\ \A i \in O!Part : posted[e][i] <= 1
  /\ row[e] = "pending" => \A i \in O!Part : posted[e][i] = 0
  /\ \A t \in told : t.env = e =>
       /\ row[e] # "pending" /\ Denies(t.note, posted[e])
       /\ \A d \in O!Running(e) : run[e][d].at = "acking"

PostRight(e) ==
  /\ \A d \in DOMAIN run[e] : Reached(run[e][d], posted[e])
  /\ \A t \in told : t.env = e => Says(t.note, posted[e])
  /\ e \notin doubtful => InOrder(e)

PostInv == PostTypes /\ \A e \in Envelope : PostRight(e)

----------------------------------------------------------------------------

LEMMA Ends1 ==
  /\ 1 \in O!Part /\ PostParts \in O!Part
  /\ \A i \in O!Part : i \in Nat /\ i >= 1 /\ i <= PostParts
  BY OutsideAssumption DEF O!Part

LEMMA PostFields ==
  ASSUME NEW r \in PostDelivery
  PROVE  r.part \in O!Part /\ r.try \in Nat /\ r.note \in PostNote \cup {""}
  BY DEF PostDelivery

LEMMA Retried ==
  ASSUME NEW r \in PostDelivery, NEW n \in Nat, NEW q, q = [r EXCEPT !.try = n]
  PROVE  q \in PostDelivery /\ q.at = r.at /\ q.part = r.part
  BY DEF PostDelivery

LEMMA PostAdvanced ==
  ASSUME NEW r \in PostDelivery, r.part < PostParts
  PROVE  O!NextPart(r) \in PostDelivery /\ O!NextPart(r).at = r.at /\ O!NextPart(r).part = r.part + 1
<1> DEFINE i == r.part + 1
<1>1. i \in O!Part
  <2>1. r.part \in O!Part
    BY PostFields
  <2>2. r.part \in Nat /\ r.part >= 1
    BY <2>1, Ends1
  <2> QED  BY <2>2, OutsideAssumption DEF O!Part
<1>2. O!NextPart(r) = [r EXCEPT !.part = i, !.try = 1]
  BY DEF O!NextPart
<1> HIDE DEF i
<1>3. [r EXCEPT !.part = i, !.try = 1] \in PostDelivery
  BY <1>1 DEF PostDelivery
<1>4. O!NextPart(r).part = i /\ O!NextPart(r).at = r.at
  BY <1>1, <1>2 DEF PostDelivery
<1> QED  BY <1>2, <1>3, <1>4 DEF i

LEMMA PostInitInv == ASSUME O!Init  PROVE PostInv
<1>1. PostTypes
  BY OutsideAssumption DEF O!Init, PostTypes
<1>2. ASSUME NEW e \in Envelope  PROVE PostRight(e)
  <2>1. run[e] = <<>> /\ told = {} /\ \A i \in O!Part : posted[e][i] = 0
    BY DEF O!Init
  <2>2. O!Running(e) = {} /\ DOMAIN run[e] = {}
    BY <2>1 DEF O!Running
  <2> QED  BY <2>1, <2>2 DEF PostRight, InOrder
<1> QED  BY <1>1, <1>2 DEF PostInv

\* An envelope a step leaves alone stays right.
LEMMA Elsewhere ==
  ASSUME NEW e \in Envelope, PostRight(e), row'[e] = row[e], run'[e] = run[e], posted'[e] = posted[e],
         \A t \in told' : t.env = e => t \in told, e \in doubtful => e \in doubtful'
  PROVE  PostRight(e)'
<1>1. O!Running(e)' = O!Running(e)
  BY DEF O!Running
<1>2. CASE e \in doubtful'
  BY <1>2 DEF PostRight
<1>3. CASE e \notin doubtful'
  <2>1. InOrder(e)
    BY <1>3 DEF PostRight
  <2>2. InOrder(e)'
    BY <1>1, <2>1 DEF InOrder
  <2> QED  BY <1>3, <2>2 DEF PostRight
<1> QED  BY <1>2, <1>3

\* What was said stays said as more is posted.
LEMMA StaysSaid ==
  ASSUME NEW p \in [O!Part -> Nat], NEW q \in [O!Part -> Nat], \A i \in O!Part : q[i] >= p[i]
  PROVE  /\ \A n : Says(n, p) => Says(n, q)
         /\ \A r : Reached(r, p) => Reached(r, q)
<1>1. 1 \in O!Part
  BY OutsideAssumption DEF O!Part
<1>2. \A i \in O!Part : p[i] > 0 => q[i] > 0
  OBVIOUS
<1>3. \A n : Says(n, p) => Says(n, q)
  BY <1>1, <1>2 DEF Says
<1> QED  BY <1>2, <1>3 DEF Reached

\* Delivery d of e becomes r, and what else the step does to e agrees with it.
LEMMA MoveKeeps ==
  ASSUME PostInv, NEW e \in Envelope, NEW d \in DOMAIN run[e], run[e][d].at # "done",
         NEW r \in PostDelivery, O!Becomes(e, d, r),
         row' \in [Envelope -> {"pending", "in_flight", "acked", "dead"}],
         posted' \in [Envelope -> [O!Part -> Nat]],
         told' \subseteq [env : Envelope, note : PostNote], doubtful' \subseteq Envelope,
         \A f \in Envelope \ {e} : row'[f] = row[f] /\ posted'[f] = posted[f],
         doubtful \subseteq doubtful', \A t \in told' \ told : t.env = e,
         \A i \in O!Part : posted'[e][i] >= posted[e][i],
         Reached(r, posted'[e]),
         \A t \in told' \ told : Says(t.note, posted'[e]),
         e \notin doubtful' =>
           /\ r.at # "done" => row'[e] = "in_flight" /\ NoFurther(r, posted'[e])
           /\ \A i \in O!Part : posted'[e][i] <= 1
           /\ row'[e] = "pending" => \A i \in O!Part : posted'[e][i] = 0
           /\ \A t \in told' : t.env = e =>
                row'[e] # "pending" /\ Denies(t.note, posted'[e]) /\ r.at \in {"acking", "done"}
  PROVE  PostInv'
<1>1. /\ run' \in [Envelope -> Seq(PostDelivery)]
      /\ DOMAIN run'[e] = DOMAIN run[e] /\ run'[e][d] = r
      /\ \A c \in DOMAIN run[e] : c # d => run'[e][c] = run[e][c]
      /\ \A f \in Envelope : f # e => run'[f] = run[f]
  BY DEF PostInv, PostTypes, O!Becomes
<1>2. PostTypes'
  BY <1>1 DEF PostTypes
<1>3. ASSUME NEW f \in Envelope, f # e  PROVE PostRight(f)'
  BY <1>1, <1>3, Elsewhere DEF PostInv
<1>4. PostRight(e)'
  <2>1. posted[e] \in [O!Part -> Nat] /\ posted'[e] \in [O!Part -> Nat]
    BY DEF PostInv, PostTypes
  <2>2. ASSUME NEW c \in DOMAIN run'[e]  PROVE Reached(run'[e][c], posted'[e])
    <3>1. CASE c = d
      BY <1>1, <3>1
    <3>2. CASE c # d
      <4>1. run'[e][c] = run[e][c] /\ Reached(run[e][c], posted[e])
        BY <1>1, <2>2, <3>2 DEF PostInv, PostRight
      <4> QED  BY <2>1, <4>1, StaysSaid
    <3> QED  BY <3>1, <3>2
  <2>3. ASSUME NEW t \in told', t.env = e  PROVE Says(t.note, posted'[e])
    <3>1. CASE t \in told
      <4>1. Says(t.note, posted[e])
        BY <2>3, <3>1 DEF PostInv, PostRight
      <4> QED  BY <2>1, <4>1, StaysSaid
    <3> QED  BY <2>3, <3>1
  <2>4. ASSUME e \notin doubtful'  PROVE InOrder(e)'
    <3>1. InOrder(e)
      BY <2>4 DEF PostInv, PostRight
    <3>2. d \in O!Running(e)
      BY DEF O!Running
    <3>3. O!Running(e)' \subseteq {d} /\ (d \in O!Running(e)' => r.at # "done")
      BY <1>1, <3>1, <3>2 DEF O!Running, InOrder
    <3>4. \A c \in O!Running(e)' : row'[e] = "in_flight" /\ NoFurther(run'[e][c], posted'[e])
      BY <1>1, <2>4, <3>3
    <3>5. \A t \in told' : t.env = e =>
            /\ row'[e] # "pending" /\ Denies(t.note, posted'[e])
            /\ \A c \in O!Running(e)' : run'[e][c].at = "acking"
      BY <1>1, <2>4, <3>3
    <3> QED  BY <2>4, <3>3, <3>4, <3>5 DEF InOrder
  <2> QED  BY <2>2, <2>3, <2>4 DEF PostRight
<1> QED  BY <1>2, <1>3, <1>4 DEF PostInv

\* The steps of one delivery see an invariant of the envelope.
LEMMA PostSeen ==
  ASSUME PostInv, NEW e \in Envelope, NEW d \in DOMAIN run[e], run[e][d].at # "done"
  PROVE  /\ run[e][d] \in PostDelivery /\ posted[e] \in [O!Part -> Nat]
         /\ Reached(run[e][d], posted[e])
         /\ e \notin doubtful =>
              /\ row[e] = "in_flight" /\ NoFurther(run[e][d], posted[e])
              /\ \A i \in O!Part : posted[e][i] <= 1
              /\ \A t \in told : t.env = e =>
                   Denies(t.note, posted[e]) /\ run[e][d].at = "acking"
<1>1. run[e][d] \in PostDelivery /\ posted[e] \in [O!Part -> Nat]
  BY DEF PostInv, PostTypes
<1>2. PostRight(e) /\ d \in O!Running(e)
  BY DEF PostInv, O!Running
<1> QED  BY <1>1, <1>2 DEF PostRight, InOrder

LEMMA UnavailableKeeps ==
  ASSUME PostInv, NEW e \in Envelope, NEW d \in DOMAIN run[e], O!Unavailable(e, d)
  PROVE  PostInv'
<1> DEFINE r == [run[e][d] EXCEPT !.at = "done"]
<1>1. run[e][d].at = "unavailable" /\ O!Becomes(e, d, r) /\ UNCHANGED <<posted, told, doubtful>>
      /\ row' = [row EXCEPT ![e] = O!Requeued(e)]
  BY DEF O!Unavailable, O!Ends
<1>2. /\ run[e][d] \in PostDelivery /\ posted[e] \in [O!Part -> Nat]
      /\ e \notin doubtful => /\ \A i \in O!Part : posted[e][i] = 0
                              /\ \A t \in told : t.env # e
  BY <1>1, PostSeen DEF NoFurther
<1>3. r \in PostDelivery /\ r.at = "done" /\ O!Requeued(e) \in {"pending", "dead"}
  BY <1>2 DEF PostDelivery, O!Requeued
<1>4. row' \in [Envelope -> {"pending", "in_flight", "acked", "dead"}]
  BY <1>1, <1>3 DEF PostInv, PostTypes
<1>5. Reached(r, posted'[e])
  BY <1>3 DEF Reached
<1>6. \A f \in Envelope \ {e} : row'[f] = row[f] /\ posted'[f] = posted[f]
  BY <1>1 DEF PostInv, PostTypes
<1>7. /\ \A i \in O!Part : posted'[e][i] >= posted[e][i]
      /\ told' \subseteq [env : Envelope, note : PostNote] /\ posted' \in [Envelope -> [O!Part -> Nat]]
      /\ doubtful' \subseteq Envelope
  BY <1>1, <1>2 DEF PostInv, PostTypes
<1> HIDE DEF r
<1>8. e \notin doubtful' => /\ \A i \in O!Part : posted'[e][i] <= 1
                            /\ row'[e] = "pending" => \A i \in O!Part : posted'[e][i] = 0
                            /\ \A t \in told' : t.env # e
  BY <1>1, <1>2
<1> QED  BY <1>1, <1>3, <1>4, <1>5, <1>6, <1>7, <1>8, MoveKeeps

\* What follows a post that was not made.
LEMMA AfterFailure ==
  ASSUME NEW r \in PostDelivery, r.at = "posting", NEW p \in [O!Part -> Nat], Reached(r, p),
         NEW q \in {O!AfterTransient(r), O!GiveUp(r, FALSE)}
  PROVE  /\ q \in PostDelivery /\ q.at \in {"posting", "unavailable", "replying"} /\ Reached(q, p)
         /\ NoFurther(r, p) => NoFurther(q, p)
<1>0. r.part \in O!Part /\ r.part \in Nat /\ r.part >= 1 /\ 1 \in O!Part /\ PostParts \in O!Part /\ r.part <= PostParts
      /\ (\A i \in O!Part : i < r.part => p[i] > 0) /\ r.try \in Nat
  BY PostFields, Ends1 DEF Reached
<1>1. CASE q = [r EXCEPT !.try = r.try + 1]
  <2>1. q \in PostDelivery /\ q.at = "posting" /\ q.part = r.part
    <3>1. r.try + 1 \in Nat
      BY <1>0
    <3> QED  BY <1>0, <1>1, <3>1, Retried
  <2> QED  BY <2>1 DEF Reached, NoFurther
<1>2. CASE r.part > 1 /\ q = [r EXCEPT !.at = "replying", !.note = "partial"]
  <2>1. q \in PostDelivery /\ q.at = "replying" /\ q.note = "partial"
    BY <1>2 DEF PostDelivery, PostNote
  <2>2. Reached(q, p)
    BY <1>0, <1>2, <2>1 DEF Reached, Says, PostNote
  <2>3. NoFurther(r, p) => p[PostParts] = 0
    <3>1. ~ PostParts < r.part
      BY <1>0, OutsideAssumption
    <3> QED  BY <1>0, <3>1 DEF NoFurther
  <2> QED  BY <2>1, <2>2, <2>3 DEF NoFurther, Denies
<1>3. CASE r.part = 1 /\ q = [r EXCEPT !.at = "unavailable"]
  <2>1. q \in PostDelivery /\ q.at = "unavailable"
    BY <1>3 DEF PostDelivery
  <2>2. NoFurther(r, p) => \A i \in O!Part : p[i] = 0
    BY <1>0, <1>3 DEF NoFurther, O!Part
  <2> QED  BY <2>1, <2>2 DEF Reached, NoFurther
<1>4. CASE r.part = 1 /\ q = [r EXCEPT !.at = "replying", !.note = "error"]
  <2>1. q \in PostDelivery /\ q.at = "replying" /\ q.note = "error"
    BY <1>4 DEF PostDelivery, PostNote
  <2>2. NoFurther(r, p) => \A i \in O!Part : p[i] = 0
    BY <1>0, <1>4 DEF NoFurther, O!Part
  <2>3. Reached(q, p)
    BY <2>1 DEF Reached, Says, PostNote
  <2> QED  BY <2>1, <2>2, <2>3 DEF NoFurther, Denies
<1> QED  BY <1>0, <1>1, <1>2, <1>3, <1>4 DEF O!AfterTransient, O!GiveUp

LEMMA FailureKeeps ==
  ASSUME PostInv, NEW e \in Envelope, NEW d \in DOMAIN run[e], NEW transient \in BOOLEAN,
         O!PostFails(e, d, transient)
  PROVE  PostInv'
<1> DEFINE r == IF transient THEN O!AfterTransient(run[e][d]) ELSE O!GiveUp(run[e][d], FALSE)
<1>1. run[e][d].at = "posting" /\ O!Becomes(e, d, r) /\ UNCHANGED <<row, posted, told, doubtful>>
  BY DEF O!PostFails
<1>2. /\ run[e][d] \in PostDelivery /\ posted[e] \in [O!Part -> Nat] /\ Reached(run[e][d], posted[e])
      /\ e \notin doubtful => /\ row[e] = "in_flight" /\ NoFurther(run[e][d], posted[e])
                              /\ \A i \in O!Part : posted[e][i] <= 1
                              /\ \A t \in told : t.env # e
  BY <1>1, PostSeen
<1>3. /\ r \in PostDelivery /\ r.at # "done" /\ Reached(r, posted[e])
      /\ NoFurther(run[e][d], posted[e]) => NoFurther(r, posted[e])
  <2>1. r \in {O!AfterTransient(run[e][d]), O!GiveUp(run[e][d], FALSE)}
    OBVIOUS
  <2> HIDE DEF r
  <2> QED  BY <1>1, <1>2, <2>1, AfterFailure
<1> HIDE DEF r
<1>4. \A i \in O!Part : posted'[e][i] >= posted[e][i]
  BY <1>1, <1>2
<1> QED  BY <1>1, <1>2, <1>3, <1>4, MoveKeeps DEF PostInv, PostTypes

LEMMA RefuseKeeps ==
  ASSUME PostInv, NEW e \in Envelope, NEW d \in DOMAIN run[e], O!Refuse(e, d)
  PROVE  PostInv'
<1> DEFINE r == [run[e][d] EXCEPT !.at = "replying", !.note = "error"]
<1>1. run[e][d].at = "posting" /\ run[e][d].part = 1 /\ O!Becomes(e, d, r)
      /\ UNCHANGED <<row, posted, told, doubtful>>
  BY DEF O!Refuse
<1>2. /\ run[e][d] \in PostDelivery /\ posted[e] \in [O!Part -> Nat]
      /\ e \notin doubtful => /\ row[e] = "in_flight" /\ NoFurther(run[e][d], posted[e])
                              /\ \A i \in O!Part : posted[e][i] <= 1
                              /\ \A t \in told : t.env # e
  BY <1>1, PostSeen
<1>3. r \in PostDelivery /\ r.at = "replying" /\ r.note = "error"
  BY <1>2 DEF PostDelivery, PostNote
<1>4. Reached(r, posted[e])
  BY <1>3 DEF Reached, Says, PostNote
<1>5. e \notin doubtful => NoFurther(r, posted[e])
  <2>1. e \notin doubtful => \A i \in O!Part : posted[e][i] = 0
    BY <1>1, <1>2 DEF NoFurther, O!Part
  <2> QED  BY <1>3, <2>1 DEF NoFurther, Denies
<1>6. \A i \in O!Part : posted'[e][i] >= posted[e][i]
  BY <1>1, <1>2
<1> HIDE DEF r
<1> QED  BY <1>1, <1>2, <1>3, <1>4, <1>5, <1>6, MoveKeeps DEF PostInv, PostTypes

\* One post more.
LEMMA MadeIs ==
  ASSUME PostInv, NEW e \in Envelope, NEW d \in DOMAIN run[e], run[e][d].at = "posting",
         O!Made(e, run[e][d].part)
  PROVE  /\ posted' \in [Envelope -> [O!Part -> Nat]]
         /\ \A f \in Envelope \ {e} : posted'[f] = posted[f]
         /\ \A i \in O!Part : posted'[e][i] = IF i = run[e][d].part THEN posted[e][i] + 1 ELSE posted[e][i]
         /\ \A i \in O!Part : posted'[e][i] >= posted[e][i]
<1>1. run[e][d].part \in O!Part
  <2>1. run[e][d] \in PostDelivery
    BY DEF PostInv, PostTypes
  <2> QED  BY <2>1, PostFields
<1>2. posted \in [Envelope -> [O!Part -> Nat]]
  BY DEF PostInv, PostTypes
<1>3. posted' = [posted EXCEPT ![e] = [posted[e] EXCEPT ![run[e][d].part] = posted[e][run[e][d].part] + 1]]
  BY DEF O!Made
<1> QED  BY <1>1, <1>2, <1>3

LEMMA PostKeeps ==
  ASSUME PostInv, NEW e \in Envelope, NEW d \in DOMAIN run[e], O!Post(e, d)
  PROVE  PostInv'
<1> DEFINE r == O!NextPart(run[e][d])
           k == run[e][d].part
<1>1. run[e][d].at = "posting" /\ O!Becomes(e, d, r) /\ O!Made(e, k) /\ UNCHANGED <<row, told, doubtful>>
  BY DEF O!Post
<1>2. /\ run[e][d] \in PostDelivery /\ posted[e] \in [O!Part -> Nat] /\ Reached(run[e][d], posted[e])
      /\ e \notin doubtful => /\ row[e] = "in_flight" /\ NoFurther(run[e][d], posted[e])
                              /\ \A t \in told : t.env # e
  BY <1>1, PostSeen
<1>3. /\ posted' \in [Envelope -> [O!Part -> Nat]] /\ posted'[e] \in [O!Part -> Nat]
      /\ \A f \in Envelope \ {e} : posted'[f] = posted[f]
      /\ \A i \in O!Part : posted'[e][i] = IF i = k THEN posted[e][i] + 1 ELSE posted[e][i]
      /\ \A i \in O!Part : posted'[e][i] >= posted[e][i]
  BY <1>1, MadeIs
<1>4. k \in O!Part /\ k \in Nat /\ k >= 1 /\ k <= PostParts /\ 1 \in O!Part /\ PostParts \in O!Part
  BY <1>2, PostFields, Ends1
<1>5. \A i \in O!Part : i <= k => posted'[e][i] > 0
  <2>1. \A i \in O!Part : i < k => posted[e][i] > 0
    BY <1>1, <1>2 DEF Reached
  <2> QED  BY <1>2, <1>3, <1>4, <2>1 DEF O!Part
<1>6. e \notin doubtful => \A i \in O!Part : posted'[e][i] = IF i <= k THEN 1 ELSE 0
  <2>1. e \notin doubtful => \A i \in O!Part : posted[e][i] = IF i < k THEN 1 ELSE 0
    BY <1>1, <1>2 DEF NoFurther
  <2> QED  BY <1>3, <1>4, <2>1 DEF O!Part
<1>7. r \in PostDelivery /\ r.at # "done" /\ Reached(r, posted'[e])
      /\ (e \notin doubtful => NoFurther(r, posted'[e]))
  <2>1. CASE k < PostParts
    <3>2. r \in PostDelivery /\ r.at = "posting" /\ r.part = k + 1
      BY <1>1, <1>2, <2>1, PostAdvanced
    <3>3. \A i \in O!Part : i < k + 1 <=> i <= k
      BY <1>4 DEF O!Part
    <3> HIDE DEF r
    <3> QED  BY <1>5, <1>6, <3>2, <3>3 DEF Reached, NoFurther
  <2>2. CASE ~ k < PostParts
    <3>1. r = [run[e][d] EXCEPT !.at = "replying", !.note = "sent"]
      BY <2>2 DEF O!NextPart
    <3>2. r \in PostDelivery /\ r.at = "replying" /\ r.note = "sent"
      BY <1>2, <3>1 DEF PostDelivery, PostNote
    <3>3. \A i \in O!Part : posted'[e][i] > 0
      BY <1>4, <1>5, <2>2, OutsideAssumption DEF O!Part
    <3> HIDE DEF r
    <3> QED  BY <1>4, <3>2, <3>3 DEF Reached, NoFurther, Says, Denies, PostNote
  <2> QED  BY <2>1, <2>2
<1>8. e \notin doubtful => \A i \in O!Part : posted'[e][i] <= 1
  BY <1>6
<1> HIDE DEF r
<1> QED  BY <1>1, <1>2, <1>3, <1>7, <1>8, MoveKeeps DEF PostInv, PostTypes

LEMMA AnswerLostKeeps ==
  ASSUME PostInv, NEW e \in Envelope, NEW d \in DOMAIN run[e], O!AnswerLost(e, d)
  PROVE  PostInv'
<1> DEFINE r == O!AfterTransient(run[e][d])
<1>1. run[e][d].at = "posting" /\ O!Becomes(e, d, r) /\ O!Made(e, run[e][d].part)
      /\ UNCHANGED <<row, told>> /\ doubtful' = doubtful \cup {e}
  BY DEF O!AnswerLost
<1>2. run[e][d] \in PostDelivery /\ posted[e] \in [O!Part -> Nat] /\ Reached(run[e][d], posted[e])
  BY <1>1, PostSeen
<1>3. /\ posted' \in [Envelope -> [O!Part -> Nat]] /\ posted'[e] \in [O!Part -> Nat]
      /\ \A f \in Envelope \ {e} : posted'[f] = posted[f]
      /\ \A i \in O!Part : posted'[e][i] >= posted[e][i]
  BY <1>1, MadeIs
<1>4. r \in PostDelivery /\ r.at # "done" /\ Reached(r, posted[e])
  BY <1>1, <1>2, AfterFailure
<1>5. Reached(r, posted'[e])
  BY <1>2, <1>3, <1>4, StaysSaid
<1> HIDE DEF r
<1> QED  BY <1>1, <1>3, <1>4, <1>5, MoveKeeps DEF PostInv, PostTypes

LEMMA ReplyKeeps ==
  ASSUME PostInv, NEW e \in Envelope, NEW d \in DOMAIN run[e], O!Reply(e, d)
  PROVE  PostInv'
<1> DEFINE r == [run[e][d] EXCEPT !.at = "acking"]
           n == run[e][d].note
<1>1. run[e][d].at = "replying" /\ O!Becomes(e, d, r) /\ UNCHANGED <<row, posted, doubtful>>
      /\ told' \in {told, told \cup {[env |-> e, note |-> n]}}
  BY DEF O!Reply
<1>2. /\ run[e][d] \in PostDelivery /\ posted[e] \in [O!Part -> Nat] /\ Says(n, posted[e])
      /\ e \notin doubtful => /\ row[e] = "in_flight" /\ Denies(n, posted[e])
                              /\ \A i \in O!Part : posted[e][i] <= 1
                              /\ \A t \in told : t.env # e
  BY <1>1, PostSeen DEF Reached, NoFurther
<1>3. r \in PostDelivery /\ r.at = "acking" /\ r.note = n
  BY <1>2 DEF PostDelivery
<1>4. Reached(r, posted'[e]) /\ (e \notin doubtful => NoFurther(r, posted'[e]))
  BY <1>1, <1>2, <1>3 DEF Reached, NoFurther
<1>5. told' \subseteq [env : Envelope, note : PostNote]
  BY <1>1, <1>2 DEF Says, PostInv, PostTypes
<1>6. \A t \in told' : t \in told \/ (t.env = e /\ t.note = n)
  BY <1>1
<1>7. \A i \in O!Part : posted'[e][i] >= posted[e][i]
  BY <1>1, <1>2
<1> HIDE DEF r, n
<1> QED  BY <1>1, <1>2, <1>3, <1>4, <1>5, <1>6, <1>7, MoveKeeps DEF PostInv, PostTypes

LEMMA EndKeeps ==
  ASSUME PostInv, NEW e \in Envelope, NEW d \in DOMAIN run[e], O!Ack(e, d) \/ O!DeliverRaises(e, d)
  PROVE  PostInv'
<1> DEFINE r == [run[e][d] EXCEPT !.at = "done"]
<1>1. run[e][d].at \in {"replying", "acking"} /\ O!Becomes(e, d, r) /\ UNCHANGED <<posted, told, doubtful>>
      /\ \E s \in {"acked", "dead"} : row' = [row EXCEPT ![e] = s]
  BY DEF O!Ack, O!DeliverRaises, O!Ends
<1>2. /\ run[e][d] \in PostDelivery /\ posted[e] \in [O!Part -> Nat]
      /\ e \notin doubtful => /\ \A i \in O!Part : posted[e][i] <= 1
                              /\ \A t \in told : t.env = e => Denies(t.note, posted[e])
  BY <1>1, PostSeen
<1>3. r \in PostDelivery /\ r.at = "done" /\ Reached(r, posted[e])
  BY <1>2 DEF PostDelivery, Reached
<1>4. /\ row' \in [Envelope -> {"pending", "in_flight", "acked", "dead"}] /\ row'[e] # "pending"
      /\ \A f \in Envelope \ {e} : row'[f] = row[f]
  BY <1>1 DEF PostInv, PostTypes
<1>5. \A i \in O!Part : posted'[e][i] >= posted[e][i]
  BY <1>1, <1>2
<1> HIDE DEF r
<1> QED  BY <1>1, <1>2, <1>3, <1>4, <1>5, MoveKeeps DEF PostInv, PostTypes

----------------------------------------------------------------------------

LEMMA DeliverKeeps == ASSUME PostInv, NEW e \in Envelope, O!Deliver(e)  PROVE PostInv'
<1> DEFINE r == [at |-> IF sending THEN "posting" ELSE "unavailable", part |-> 1, try |-> 1, note |-> ""]
           n == Len(run[e]) + 1
<1>1. /\ row[e] = "pending" /\ row' = [row EXCEPT ![e] = "in_flight"]
      /\ run' = [run EXCEPT ![e] = Append(run[e], r)] /\ UNCHANGED <<posted, told, doubtful>>
  BY DEF O!Deliver
<1>2. r \in PostDelivery /\ r.at \in {"posting", "unavailable"} /\ r.part = 1
  BY OutsideAssumption DEF PostDelivery, O!Part, PostNote
<1> HIDE DEF r
<1>3. /\ run' \in [Envelope -> Seq(PostDelivery)] /\ run'[e] = Append(run[e], r) /\ run[e] \in Seq(PostDelivery)
      /\ \A f \in Envelope \ {e} : run'[f] = run[f]
      /\ row' \in [Envelope -> {"pending", "in_flight", "acked", "dead"}] /\ row'[e] = "in_flight"
      /\ \A f \in Envelope \ {e} : row'[f] = row[f]
  BY <1>1, <1>2 DEF PostInv, PostTypes
<1>4. /\ DOMAIN run'[e] = DOMAIN run[e] \cup {n} /\ run'[e][n] = r
      /\ \A d \in DOMAIN run[e] : run'[e][d] = run[e][d]
  BY <1>3
<1> HIDE DEF n
<1>5. PostTypes'
  BY <1>1, <1>3 DEF PostInv, PostTypes
<1>6. ASSUME NEW f \in Envelope, f # e  PROVE PostRight(f)'
  BY <1>1, <1>3, <1>6, Elsewhere DEF PostInv
<1>7. PostRight(e)'
  <2>0. PostRight(e)
    BY DEF PostInv
  <2>1. Reached(r, posted[e])
    BY <1>2 DEF Reached, O!Part
  <2>2. \A d \in DOMAIN run'[e] : Reached(run'[e][d], posted'[e])
    BY <1>1, <1>4, <2>0, <2>1 DEF PostRight
  <2>3. ASSUME e \notin doubtful  PROVE InOrder(e)'
    <3>1. InOrder(e) /\ \A i \in O!Part : posted[e][i] = 0
      BY <1>1, <2>0, <2>3 DEF PostRight, InOrder
    <3>2. O!Running(e) = {}
      BY <1>1, <3>1 DEF InOrder
    <3>3. O!Running(e)' \subseteq {n}
      BY <1>4, <3>2 DEF O!Running
    <3>4. NoFurther(r, posted[e])
      BY <1>2, <3>1 DEF NoFurther, O!Part
    <3>5. \A t \in told : t.env # e
      BY <1>1, <3>1 DEF InOrder
    <3> QED  BY <1>1, <1>3, <1>4, <3>1, <3>3, <3>4, <3>5 DEF InOrder
  <2> QED  BY <1>1, <2>0, <2>2, <2>3 DEF PostRight
<1> QED  BY <1>5, <1>6, <1>7 DEF PostInv

LEMMA StaleKeeps == ASSUME PostInv, NEW e \in Envelope, O!Stale(e)  PROVE PostInv'
<1>1. /\ row' = [row EXCEPT ![e] = O!Requeued(e)] /\ doubtful' = doubtful \cup {e}
      /\ UNCHANGED <<run, posted, told>>
  BY DEF O!Stale
<1>2. PostTypes' /\ \A f \in Envelope \ {e} : row'[f] = row[f]
  BY <1>1 DEF PostInv, PostTypes, O!Requeued
<1>3. ASSUME NEW f \in Envelope, f # e  PROVE PostRight(f)'
  BY <1>1, <1>2, <1>3, Elsewhere DEF PostInv
<1>4. PostRight(e)'
  BY <1>1 DEF PostInv, PostRight
<1> QED  BY <1>2, <1>3, <1>4 DEF PostInv

LEMMA PostCrashKeeps == ASSUME PostInv, O!Crash  PROVE PostInv'
<1>1. /\ run' = [e \in Envelope |-> [d \in DOMAIN run[e] |-> [run[e][d] EXCEPT !.at = "done"]]]
      /\ doubtful' = doubtful \cup {e \in Envelope : O!Running(e) # {}} /\ UNCHANGED <<row, posted, told>>
  BY DEF O!Crash
<1>2. ASSUME NEW e \in Envelope
      PROVE  /\ run'[e] \in Seq(PostDelivery) /\ DOMAIN run'[e] = DOMAIN run[e]
             /\ \A d \in DOMAIN run[e] : run'[e][d].at = "done"
  <2>1. /\ run[e] \in Seq(PostDelivery) /\ DOMAIN run[e] = 1..Len(run[e]) /\ Len(run[e]) \in Nat
        /\ \A d \in DOMAIN run[e] : run[e][d] \in PostDelivery
    BY DEF PostInv, PostTypes
  <2>2. /\ run'[e] = [d \in 1..Len(run[e]) |-> [run[e][d] EXCEPT !.at = "done"]]
    BY <1>1, <2>1
  <2>3. \A d \in 1..Len(run[e]) : [run[e][d] EXCEPT !.at = "done"] \in PostDelivery
    BY <2>1 DEF PostDelivery
  <2>4. \A d \in 1..Len(run[e]) : run'[e][d].at = "done"
    BY <2>1, <2>2 DEF PostDelivery
  <2> QED  BY <2>1, <2>2, <2>3, <2>4
<1>3. PostTypes'
  <2>1. run' \in [Envelope -> Seq(PostDelivery)]
    BY <1>1, <1>2
  <2> QED  BY <1>1, <2>1 DEF PostInv, PostTypes
<1>4. ASSUME NEW e \in Envelope  PROVE PostRight(e)'
  <2>1. PostRight(e)
    BY DEF PostInv
  <2>2. \A d \in DOMAIN run'[e] : Reached(run'[e][d], posted'[e])
    BY <1>2 DEF Reached
  <2>3. ASSUME e \notin doubtful'  PROVE InOrder(e)'
    <3>1. O!Running(e)' = {}
      BY <1>2 DEF O!Running
    <3>2. InOrder(e)
      BY <1>1, <2>1, <2>3 DEF PostRight
    <3> QED  BY <1>1, <3>1, <3>2 DEF InOrder
  <2> QED  BY <1>1, <2>1, <2>2, <2>3 DEF PostRight
<1> QED  BY <1>3, <1>4 DEF PostInv

LEMMA PostStepInv == ASSUME PostInv, [O!Next]_(O!vars)  PROVE PostInv'
<1>1. CASE UNCHANGED <<row, run, posted, told, doubtful>>
  BY <1>1 DEF PostInv, PostTypes, PostRight, InOrder, O!Running
<1>2. CASE \E e \in Envelope : \E d \in DOMAIN run[e] : O!DeliveryStep(e, d)
  <2>0. PICK e \in Envelope : \E d \in DOMAIN run[e] : O!DeliveryStep(e, d)
    BY <1>2
  <2>1. PICK d \in DOMAIN run[e] : O!DeliveryStep(e, d)
    BY <2>0
  <2> QED
    BY <2>1, UnavailableKeeps, RefuseKeeps, PostKeeps, AnswerLostKeeps, ReplyKeeps, EndKeeps,
       FailureKeeps
    DEF O!DeliveryStep
<1> QED
  BY <1>1, <1>2, DeliverKeeps, StaleKeeps, PostCrashKeeps DEF O!Next, O!vars, O!Stop, O!Start

LEMMA PostInvIsRight == ASSUME PostInv  PROVE O!PostsAreRight
<1>1. O!PostedOnce
  BY DEF PostInv, PostRight, InOrder, O!PostedOnce
<1>2. O!NoteIsTrue
  <2> SUFFICES ASSUME NEW t \in told
      PROVE  Says(t.note, posted[t.env]) /\ (t.env \notin doubtful => Denies(t.note, posted[t.env]))
    BY DEF O!NoteIsTrue, Says, Denies
  <2>1. t.env \in Envelope
    BY DEF PostInv, PostTypes
  <2> QED  BY <2>1 DEF PostInv, PostRight, InOrder
<1> QED  BY <1>1, <1>2 DEF O!PostsAreRight

\* Nothing is posted twice and no sender is told what is not so, for any number of
\* envelopes, parts, tries and deliveries, but for what PostedOnce and NoteIsTrue
\* except.
THEOREM PostsStayRight == O!Spec => []PostsAreRight
<1>1. O!Spec => []PostInv
  BY PostInitInv, PostStepInv, PTL DEF O!Spec
<1> QED  BY <1>1, PostInvIsRight, PTL DEF PostsAreRight

-----------------------------------------------------------------------------
(* DiscordInbound                                                          *)
\* NoEyesLeft is inductive once it is known that the tracked messages are
\* messages.

EyesInv ==
  /\ hand \in [Message -> {"new", "reacting", "reading", "publishing", "done"}]
  /\ tracked \in Seq(Message)
  /\ eyes \subseteq Message
  /\ D!NoEyesLeft

LEMMA EyesInitInv == ASSUME D!Init PROVE EyesInv
  BY DEF D!Init, EyesInv, D!NoEyesLeft, D!ToSet

\* What a pop, a push or both leave of a list.
LEMMA EyesPushed ==
  ASSUME NEW s \in Seq(Message), NEW m \in Message
  PROVE  /\ Append(s, m) \in Seq(Message) /\ Append(s, m) # <<>>
         /\ D!ToSet(Append(s, m)) = D!ToSet(s) \cup {m}
<1> DEFINE t == Append(s, m)
<1>1. /\ t \in Seq(Message) /\ DOMAIN t = 1..Len(s) + 1 /\ DOMAIN s = 1..Len(s) /\ Len(s) \in Nat
      /\ t[Len(s) + 1] = m /\ \A i \in 1..Len(s) : t[i] = s[i]
  OBVIOUS
<1>2. t # <<>>
  OBVIOUS
<1> HIDE DEF t
<1>3. \A i \in DOMAIN t : i \in DOMAIN s \/ i = Len(s) + 1
  BY <1>1
<1>4. D!ToSet(t) \subseteq D!ToSet(s) \cup {m}
  BY <1>1, <1>3 DEF D!ToSet
<1>5. D!ToSet(s) \subseteq D!ToSet(t)
  BY <1>1 DEF D!ToSet
<1>6. m \in D!ToSet(t)
  <2>1. Len(s) + 1 \in DOMAIN t
    BY <1>1
  <2> QED  BY <1>1, <2>1 DEF D!ToSet
<1> QED  BY <1>1, <1>2, <1>4, <1>5, <1>6 DEF t

LEMMA EyesPopped ==
  ASSUME NEW s \in Seq(Message), s # <<>>
  PROVE  /\ Tail(s) \in Seq(Message) /\ Head(s) \in Message
         /\ D!ToSet(s) = D!ToSet(Tail(s)) \cup {Head(s)}
<1>1. Tail(s) \in Seq(Message) /\ Head(s) \in Message
  OBVIOUS
<1>2. ASSUME NEW i \in DOMAIN s  PROVE s[i] \in D!ToSet(Tail(s)) \cup {Head(s)}
  <2>1. CASE i = 1
    BY <2>1
  <2>2. CASE i # 1
    <3>1. i - 1 \in DOMAIN Tail(s) /\ Tail(s)[i - 1] = s[i]
      BY <1>2, <2>2
    <3> QED  BY <3>1 DEF D!ToSet
  <2> QED  BY <2>1, <2>2
<1>3. ASSUME NEW i \in DOMAIN Tail(s)  PROVE Tail(s)[i] \in D!ToSet(s)
  <2>1. i + 1 \in DOMAIN s /\ Tail(s)[i] = s[i + 1]
    BY <1>3
  <2> QED  BY <2>1 DEF D!ToSet
<1>4. Head(s) \in D!ToSet(s)
  BY DEF D!ToSet
<1> QED  BY <1>1, <1>2, <1>3, <1>4 DEF D!ToSet

LEMMA EyesPicked ==
  ASSUME NEW s \in Seq(Message), NEW i \in DOMAIN s
  PROVE  /\ D!RemoveAt(s, i) \in Seq(Message)
         /\ D!ToSet(s) \subseteq D!ToSet(D!RemoveAt(s, i)) \cup {s[i]}
<1> DEFINE rest == D!RemoveAt(s, i)
<1>1. /\ rest \in Seq(Message) /\ Len(rest) = Len(s) - 1
      /\ \A j \in 1..Len(s) - 1 : rest[j] = IF j < i THEN s[j] ELSE s[j + 1]
  <2> DEFINE a == SubSeq(s, 1, i - 1)
             b == SubSeq(s, i + 1, Len(s))
  <2>1. /\ a \in Seq(Message) /\ Len(a) = i - 1 /\ \A j \in 1..i - 1 : a[j] = s[j]
    OBVIOUS
  <2>2. /\ b \in Seq(Message) /\ Len(b) = Len(s) - i /\ \A j \in 1..Len(s) - i : b[j] = s[i + j]
    OBVIOUS
  <2>3. rest = a \o b
    BY DEF D!RemoveAt
  <2>4. i \in Nat /\ Len(s) \in Nat /\ i <= Len(s) /\ i >= 1
    OBVIOUS
  <2> HIDE DEF a, b, rest
  <2>5. rest \in Seq(Message) /\ Len(rest) = Len(s) - 1
    BY <2>1, <2>2, <2>3, <2>4
  <2>6. ASSUME NEW j \in 1..Len(s) - 1  PROVE rest[j] = IF j < i THEN s[j] ELSE s[j + 1]
    <3>1. CASE j < i
      BY <2>1, <2>2, <2>3, <2>4, <3>1
    <3>2. CASE ~ j < i
      <4>1. rest[j] = b[j - (i - 1)]
        BY <2>1, <2>2, <2>3, <2>4, <3>2
      <4> QED  BY <2>2, <2>4, <3>2, <4>1
    <3> QED  BY <3>1, <3>2
  <2> QED  BY <2>5, <2>6
<1> HIDE DEF rest
<1>2. ASSUME NEW j \in DOMAIN s, j # i  PROVE s[j] \in D!ToSet(rest)
  <2>1. CASE j < i
    <3>1. j \in DOMAIN rest /\ rest[j] = s[j]
      BY <1>1, <2>1
    <3> QED  BY <3>1 DEF D!ToSet
  <2>2. CASE j > i
    <3>1. j - 1 \in DOMAIN rest /\ rest[j - 1] = s[j]
      BY <1>1, <2>2
    <3> QED  BY <3>1 DEF D!ToSet
  <2> QED  BY <1>2, <2>1, <2>2
<1>3. D!ToSet(s) \subseteq D!ToSet(rest) \cup {s[i]}
  BY <1>2 DEF D!ToSet
<1> QED  BY <1>1, <1>3 DEF rest

LEMMA TrackKeeps ==
  ASSUME EyesInv, NEW m \in Message, D!Reacted(m)
  PROVE  EyesInv'
<1> DEFINE t == Append(tracked, m)
<1>1. /\ t \in Seq(Message) /\ t # <<>> /\ D!ToSet(t) = D!ToSet(tracked) \cup {m}
      /\ Tail(t) \in Seq(Message) /\ Head(t) \in Message
      /\ D!ToSet(t) = D!ToSet(Tail(t)) \cup {Head(t)}
  <2>1. t \in Seq(Message) /\ t # <<>> /\ D!ToSet(t) = D!ToSet(tracked) \cup {m}
    BY EyesPushed DEF EyesInv
  <2> HIDE DEF t
  <2> QED  BY <2>1, EyesPopped
<1>2. tracked' \in Seq(Message)
  BY <1>1 DEF D!Reacted, D!Track
<1>3. D!ToSet(tracked) \cup {m} \cup removing \cup left \subseteq D!ToSet(tracked') \cup removing' \cup left'
  <2> HIDE DEF t
  <2>1. \/ tracked' = t /\ removing' = removing /\ left' = left
        \/ /\ tracked' = Tail(t)
           /\ \/ removing' = removing \cup {Head(t)} /\ left' = left
              \/ left' = left \cup {Head(t)} /\ removing' = removing
    BY DEF D!Reacted, D!Track, t
  <2> QED  BY <1>1, <2>1
<1>4. hand' \in [Message -> {"new", "reacting", "reading", "publishing", "done"}]
  BY DEF D!Reacted, EyesInv
<1>5. {n \in Message : hand[n] = "reacting"} \subseteq {n \in Message : hand'[n] = "reacting"} \cup {m}
  BY DEF D!Reacted, EyesInv
<1>6. eyes' = eyes
  BY DEF D!Reacted
<1> QED  BY <1>2, <1>3, <1>4, <1>5, <1>6 DEF EyesInv, D!NoEyesLeft

LEMMA EyesStepInv == ASSUME EyesInv, [D!Next]_(D!vars)  PROVE EyesInv'
<1>1. CASE D!Expire
  <2>1. tracked # <<>> /\ tracked' = Tail(tracked) /\ removing' = removing \cup {Head(tracked)}
    BY <1>1 DEF D!Expire
  <2>2. tracked' \in Seq(Message) /\ D!ToSet(tracked) \subseteq D!ToSet(tracked') \cup removing'
    BY <2>1, EyesPopped DEF EyesInv
  <2>3. removing \subseteq removing' /\ UNCHANGED <<hand, eyes, left>>
    BY <1>1, <2>1 DEF D!Expire
  <2> QED  BY <2>2, <2>3 DEF EyesInv, D!NoEyesLeft
<1>2. CASE D!Stop \/ D!Start
  BY <1>2 DEF D!Stop, D!Start, EyesInv, D!NoEyesLeft
<1>3. CASE D!Crash
  <2>1. eyes' \subseteq left' /\ eyes' = eyes /\ tracked' = <<>>
    BY <1>3 DEF D!Crash
  <2>2. hand' \in [Message -> {"new", "reacting", "reading", "publishing", "done"}]
    BY <1>3 DEF D!Crash
  <2> QED  BY <2>1, <2>2 DEF EyesInv, D!NoEyesLeft
<1>4. CASE \E m \in Message : D!Step(m)
  <2>1. PICK m \in Message : D!Step(m)
    BY <1>4
  <2>2. CASE \E reacts \in BOOLEAN : D!Receive(m, reacts)
    BY <2>2 DEF D!Receive, EyesInv, D!NoEyesLeft
  <2>3. CASE D!ReactionShows(m)
    BY <2>3 DEF D!ReactionShows, EyesInv, D!NoEyesLeft
  <2>4. CASE D!Reacted(m)
    BY <2>4, TrackKeeps
  <2>5. CASE D!ReactionFails(m)
    BY <2>5 DEF D!ReactionFails, EyesInv, D!NoEyesLeft
  <2>6. CASE D!Publish(m) \/ D!Published(m) \/ D!PublishFails(m)
    BY <2>6 DEF D!Publish, D!Published, D!PublishFails, EyesInv, D!NoEyesLeft
  <2>7. CASE D!Replied(m)
    <3>1. /\ tracked' \in Seq(Message)
          /\ D!ToSet(tracked) \cup removing \subseteq D!ToSet(tracked') \cup removing'
      <4>1. CASE m \in D!ToSet(tracked)
        <5>1. PICK i \in DOMAIN tracked : tracked[i] = m /\ tracked' = D!RemoveAt(tracked, i)
          BY <2>7, <4>1 DEF D!Replied
        <5>2. removing' = removing \cup {m}
          BY <2>7, <4>1 DEF D!Replied
        <5> QED  BY <5>1, <5>2, EyesPicked DEF EyesInv
      <4>2. CASE m \notin D!ToSet(tracked)
        BY <2>7, <4>2 DEF D!Replied, EyesInv
      <4> QED  BY <4>1, <4>2
    <3>2. UNCHANGED <<hand, eyes, left>>
      BY <2>7 DEF D!Replied
    <3> QED  BY <3>1, <3>2 DEF EyesInv, D!NoEyesLeft
  <2>8. CASE D!Removed(m) \/ D!RemovalFails(m)
    BY <2>8 DEF D!Removed, D!RemovalFails, EyesInv, D!NoEyesLeft
  <2>9. CASE D!TypingEnds(m) \/ D!TypingExpires(m)
    BY <2>9 DEF D!TypingEnds, D!TypingExpires, EyesInv, D!NoEyesLeft
  <2> QED  BY <2>1, <2>2, <2>3, <2>4, <2>5, <2>6, <2>7, <2>8, <2>9 DEF D!Step, D!OnMessage
<1>5. CASE UNCHANGED D!vars
  BY <1>5 DEF D!vars, EyesInv, D!NoEyesLeft
<1> QED  BY <1>1, <1>2, <1>3, <1>4, <1>5 DEF D!Next

\* A reaction is one the endpoint still knows of, or one a failed call, a stop or
\* a crash left behind, for any number of messages and any length of the list.
THEOREM EyesAreKnown == D!Spec => []NoEyesLeft
<1>1. D!Spec => []EyesInv
  BY EyesInitInv, EyesStepInv, PTL DEF D!Spec
<1> QED  BY <1>1, PTL DEF EyesInv, NoEyesLeft

-----------------------------------------------------------------------------
(* Chunking                                                                *)
\* Of what is cut off, every glyph is in a part or is a newline outside of a
\* code block.

----------------------------------------------------------------------------
(* The scan                                                                *)

Scan == [fence : BOOLEAN, code : {"none", "f", "t"}]

LEMMA TicksIsScan ==
  ASSUME NEW st \in Scan, NEW ticks \in {"f", "t"}
  PROVE  C!Ticks(st, ticks) \in Scan
  BY DEF C!Ticks, Scan

\* A newline changes nothing.
LEMMA NewlineChangesNothing ==
  ASSUME text \in Seq(Glyph), NEW i \in 1..Len(text), text[i] = "n"
  PROVE  C!States[i] = C!States[i - 1]
<1> DEFINE N == Len(text)
           Fenced(st, lineStart) ==
             IF lineStart /\ st.code = "none" THEN C!Ticks([st EXCEPT !.fence = ~@], "f")
             ELSE C!Ticks(st, "f")
           Step(k, st) ==
             CASE text[k] = "f" -> Fenced(st, k = 1 \/ text[k - 1] = "n")
               [] text[k] = "t" -> C!Ticks(st, "t")
               [] OTHER -> st
           b == [fence |-> FALSE, code |-> "none"]
           T == [k \in 1..N |-> [st \in Scan |-> Step(k, st)]]
           Is(f) == f = [k \in 0..N |-> IF k = 0 THEN b ELSE Step(k, f[k - 1])]
<1>1. N \in Nat /\ b \in Scan
  BY DEF Scan
<1>2. C!States = CHOOSE f : Is(f)
  BY DEF C!States
<1>3. \A st \in Scan, k \in 1..N : Step(k, st) \in Scan
  <2> SUFFICES ASSUME NEW st \in Scan, NEW k \in 1..N  PROVE Step(k, st) \in Scan
    OBVIOUS
  <2>1. [st EXCEPT !.fence = ~@] \in Scan
    BY DEF Scan
  <2>2. C!Ticks(st, "f") \in Scan /\ C!Ticks(st, "t") \in Scan /\ C!Ticks([st EXCEPT !.fence = ~@], "f") \in Scan
    BY <2>1, TicksIsScan
  <2>3. \A x : Fenced(st, x) \in Scan
    BY <2>2
  <2> HIDE DEF Fenced
  <2> QED  BY <2>2, <2>3
<1> HIDE DEF Step, b
<1>4. T \in [1..N -> [Scan -> Scan]]
  BY <1>3
<1>5. PICK f : Takes(f, Scan, b, N, T)
  <2> HIDE DEF T, N
  <2> QED  BY <1>1, <1>4, Recursion
<1>6. f \in [0..N -> Scan] /\ f[0] = b /\ \A k \in 1..N : f[k] = T[k][f[k - 1]]
  BY <1>5 DEF Takes
<1>7. Is(f)
  <2>1. \A k \in 0..N : k # 0 => k \in 1..N /\ k - 1 \in 0..N
    BY <1>1
  <2>2. \A k \in 1..N : f[k] = Step(k, f[k - 1])
    <3> SUFFICES ASSUME NEW k \in 1..N  PROVE f[k] = Step(k, f[k - 1])
      OBVIOUS
    <3>1. f[k - 1] \in Scan
      BY <1>1, <1>6
    <3> QED  BY <1>6, <3>1
  <2> HIDE DEF N, T
  <2> QED  BY <1>6, <2>1, <2>2
<1>8. Is(C!States)
  <2> HIDE DEF Is
  <2> QED  BY <1>2, <1>7
<1>9. C!States[i] = Step(i, C!States[i - 1])
  <2>1. i \in 0..N /\ i # 0
    BY <1>1
  <2> HIDE DEF N
  <2> QED  BY <1>8, <2>1
<1> QED  BY <1>9 DEF Step

----------------------------------------------------------------------------
(* Where a part ends                                                       *)

LEMMA MaxIs ==
  ASSUME NEW n \in Nat, NEW S \in SUBSET (0..n), S # {}
  PROVE  C!Max(S) \in S /\ \A k \in S : k <= C!Max(S)
<1>1. PICK m \in S : \A k \in S : k <= m
  BY LastPosition
<1>2. \A k \in S : m >= k
  BY <1>1
<1>3. C!Max(S) \in S /\ \A k \in S : C!Max(S) >= k
  BY <1>2 DEF C!Max
<1> QED  BY <1>3

\* A boundary after the position, in the window.
LEMMA SoftSplitIs ==
  ASSUME pos \in Nat, NEW states
  PROVE  C!SoftSplit(states) \in pos + 1..pos + ChunkTarget
<1> DEFINE end == pos + ChunkTarget
           From(lo) == {c \in (1..3) \X (lo + 1..end) :
                         C!Fits(c[1], c[2], end) /\ C!After(c[1], c[2]) /\ C!Safe(states, c[2])}
           Best(cuts) == C!Max({c[2] : c \in {d \in cuts : \A e \in cuts : d[1] <= e[1]}})
           near == From(IF ChunkTarget > TailSearch THEN end - TailSearch ELSE pos)
           hard == {i \in pos + 1..end : C!Safe(states, i)}
<1>0. end \in Nat /\ ChunkTarget \in Nat /\ ChunkTarget > 0 /\ TailSearch \in Nat
  BY OutsideAssumption
<1>1. ASSUME NEW cuts, cuts \subseteq (1..3) \X (pos + 1..end), cuts # {}
      PROVE  Best(cuts) \in pos + 1..end
  <2> DEFINE K == {d[1] : d \in cuts}
             S == {c[2] : c \in {d \in cuts : \A e \in cuts : d[1] <= e[1]}}
  <2>1. \A d \in cuts : d[1] \in 1..3 /\ d[2] \in pos + 1..end
    BY <1>1
  <2>2. K \in SUBSET Nat /\ K # {}
    BY <1>1, <2>1
  <2>3. PICK m \in K : \A k \in K : m <= k
    <3> HIDE DEF K
    <3> QED  BY <2>2, Smallest
  <2>4. PICK d \in cuts : m = d[1]
    OBVIOUS
  <2>5. d[2] \in S
    BY <2>3, <2>4
  <2>6. S \in SUBSET (pos + 1..end)
    BY <2>1
  <2>7. S \in SUBSET (0..end) /\ S # {}
    BY <1>0, <2>5, <2>6
  <2>8. C!Max(S) \in S
    <3> HIDE DEF S, end
    <3> QED  BY <1>0, <2>7, MaxIs
  <2> QED  BY <2>6, <2>8
<1>2. \A lo : lo \in Int /\ lo >= pos => From(lo) \subseteq (1..3) \X (pos + 1..end)
  BY <1>0
<1>3. (IF ChunkTarget > TailSearch THEN end - TailSearch ELSE pos) \in Int
      /\ (IF ChunkTarget > TailSearch THEN end - TailSearch ELSE pos) >= pos
  BY <1>0
<1>4. near \subseteq (1..3) \X (pos + 1..end) /\ From(pos) \subseteq (1..3) \X (pos + 1..end)
  <2>1. pos \in Int /\ pos >= pos
    OBVIOUS
  <2> HIDE DEF From, end
  <2> QED  BY <1>2, <1>3, <2>1
<1>5. hard # {} => C!Max(hard) \in pos + 1..end
  <2>1. hard \in SUBSET (0..end)
    BY <1>0
  <2>2. hard # {} => C!Max(hard) \in hard
    <3> HIDE DEF hard, end
    <3> QED  BY <1>0, <2>1, MaxIs
  <2> QED  BY <2>2
<1>6. end \in pos + 1..end
  BY <1>0
<1>7. /\ near # {} => C!SoftSplit(states) = Best(near)
      /\ near = {} /\ From(pos) # {} => C!SoftSplit(states) = Best(From(pos))
      /\ near = {} /\ From(pos) = {} => C!SoftSplit(states) = IF hard # {} THEN C!Max(hard) ELSE end
  BY DEF C!SoftSplit
<1>8. /\ near # {} => Best(near) \in pos + 1..end
      /\ From(pos) # {} => Best(From(pos)) \in pos + 1..end
  <2> HIDE DEF near, From, Best, end
  <2> QED  BY <1>1, <1>4
<1> HIDE DEF near, From, Best, hard, end
<1>9. C!SoftSplit(states) \in pos + 1..end
  BY <1>5, <1>6, <1>7, <1>8
<1> QED  BY <1>9 DEF end

LEMMA TrimmedIs ==
  ASSUME pos \in Nat, NEW to \in Nat, pos <= to
  PROVE  C!Trimmed(to) \in pos..to
<1> DEFINE S == {pos} \cup {i \in pos + 1..to : text[i] # "n"}
<1>1. S \in SUBSET (pos..to)
  OBVIOUS
<1>2. S \in SUBSET (0..to) /\ S # {}
  OBVIOUS
<1>3. C!Max(S) \in S
  <2> HIDE DEF S
  <2> QED  BY <1>2, MaxIs
<1> QED  BY <1>1, <1>3 DEF C!Trimmed

LEMMA ShrunkIs ==
  ASSUME pos \in Nat, NEW to \in pos + 1..Len(text), NEW states, Len(text) \in Nat
  PROVE  \E cut \in pos + 1..to : C!Shrunk(states, to) = [piece |-> cut, next |-> cut]
<1> DEFINE shorter == {i \in pos + 1..to - 1 : C!Safe(states, i) /\ C!Width(states, pos, i) <= HardLimit}
           cut == IF C!Width(states, pos, to) > HardLimit /\ to - pos > 1 /\ shorter # {}
                  THEN C!Max(shorter) ELSE to
<1>1. shorter \in SUBSET (0..to) /\ shorter \in SUBSET (pos + 1..to)
  OBVIOUS
<1>2. shorter # {} => C!Max(shorter) \in shorter
  <2>1. to \in Nat
    OBVIOUS
  <2> HIDE DEF shorter
  <2> QED  BY <1>1, <2>1, MaxIs
<1>3. C!Shrunk(states, to) = [piece |-> cut, next |-> cut]
  BY DEF C!Shrunk
<1> HIDE DEF shorter
<1>4. cut \in pos + 1..to
  <2>1. to \in pos + 1..to
    OBVIOUS
  <2>2. shorter # {} => C!Max(shorter) \in pos + 1..to
    BY <1>1, <1>2
  <2> QED  BY <2>1, <2>2
<1> QED  BY <1>3, <1>4

\* What is skipped is newlines outside of a code block.
LEMMA SkipIs ==
  ASSUME text \in Seq(Glyph), NEW to \in 0..Len(text)
  PROVE  /\ C!Skip(C!States, to) \in to..Len(text)
         /\ \A i \in to + 1..C!Skip(C!States, to) : text[i] = "n" /\ ~C!States[i].fence
<1> DEFINE N == Len(text)
           S == {i \in to..N : \A j \in to + 1..i : text[j] = "n"}
<1>0. N \in Nat
  OBVIOUS
<1>1. CASE C!States[to].fence
  BY <1>0, <1>1 DEF C!Skip
<1>2. CASE ~C!States[to].fence
  <2>1. C!Skip(C!States, to) = C!Max(S)
    BY <1>2 DEF C!Skip
  <2>2. S \in SUBSET (0..N) /\ to \in S
    BY <1>0
  <2>3. C!Max(S) \in S
    <3> HIDE DEF S, N
    <3> QED  BY <1>0, <2>2, MaxIs
  <2>4. PICK m : m = C!Max(S)
    OBVIOUS
  <2>5. m \in to..N /\ \A j \in to + 1..m : text[j] = "n"
    BY <2>3, <2>4
  <2> DEFINE Bad == {i \in to + 1..m : C!States[i].fence}
  <2>6. Bad = {}
    <3> SUFFICES ASSUME Bad # {}  PROVE FALSE
      OBVIOUS
    <3>1. Bad \in SUBSET Nat
      BY <1>0
    <3>2. PICK i \in Bad : \A k \in Bad : i <= k
      <4> HIDE DEF Bad
      <4> QED  BY <3>1, Smallest
    <3>3. i \in 1..Len(text) /\ text[i] = "n" /\ i \in to + 1..m
      BY <1>0, <2>5
    <3>4. C!States[i] = C!States[i - 1]
      BY <3>3, NewlineChangesNothing
    <3>5. CASE i = to + 1
      <4>1. i - 1 = to
        BY <3>5
      <4> QED  BY <1>2, <3>4, <4>1
    <3>6. CASE i # to + 1
      <4>0. to \in Int /\ m \in Int
        BY <1>0, <2>5
      <4>1. i - 1 \in to + 1..m /\ ~ i <= i - 1
        BY <3>3, <3>6, <4>0
      <4> QED  BY <3>2, <3>4, <4>1
    <3> QED  BY <3>5, <3>6
  <2> QED  BY <2>1, <2>4, <2>5, <2>6
<1> QED  BY <1>1, <1>2

----------------------------------------------------------------------------
(* The invariant                                                           *)

Part == [from : Nat, to : Nat, width : Int]

\* What is cut off is in the parts, up to newlines outside of code blocks.
TextInv ==
  /\ text \in Seq(Glyph) /\ pos \in 0..Len(text) /\ parts \in Seq(Part)
  /\ outcome \in {"none", "cutting", "sent", "refused"}
  /\ outcome = "none" => pos = 0 /\ parts = <<>>
  /\ \A k \in DOMAIN parts : parts[k].from < parts[k].to /\ parts[k].to <= pos
  /\ \A k \in 2..Len(parts) : parts[k - 1].to <= parts[k].from
  /\ \A i \in 1..pos : C!InParts(i) \/ (text[i] = "n" /\ ~C!States[i].fence)
  /\ outcome = "sent" =>
       pos = Len(text) /\ \A k \in DOMAIN parts : parts[k].width <= HardLimit

LEMMA TextInitInv == ASSUME C!Init  PROVE TextInv
  BY DEF C!Init, TextInv

LEMMA TakeKeeps == ASSUME TextInv, C!Take  PROVE TextInv'
<1>1. PICK n \in 1..MaxText : text' \in [1..n -> Glyph]
  BY DEF C!Take
<1>2. n \in Nat /\ text' \in Seq(Glyph) /\ Len(text') = n
  BY <1>1, OutsideAssumption
<1>3. outcome' = "cutting" /\ pos' = 0 /\ parts' = <<>>
  BY DEF C!Take, TextInv
<1> QED  BY <1>2, <1>3 DEF TextInv

\* One more part: it begins where the last one ended and takes in something.
LEMMA CutIs ==
  ASSUME TextInv, C!Cut
  PROVE  \E to \in pos + 1..Len(text), w \in Int, next \in pos + 1..Len(text) :
           /\ parts' = Append(parts, [from |-> pos, to |-> to, width |-> w])
           /\ pos' = next /\ to <= next
           /\ \A i \in to + 1..next : text[i] = "n" /\ ~C!States[i].fence
<1> DEFINE N == Len(text)
           whole == N <= ChunkTarget
           to == IF N - pos <= ChunkTarget THEN N ELSE C!SoftSplit(C!States)
           plain == ~whole /\ ~C!States[pos].fence /\ ~C!States[to].fence
           end == IF plain /\ C!Trimmed(to) > pos THEN C!Trimmed(to) ELSE to
           cut == IF whole THEN [piece |-> to, next |-> to] ELSE C!Shrunk(C!States, end)
           w == IF whole THEN to ELSE C!Width(C!States, pos, cut.piece)
<1>1. /\ parts' = Append(parts, [from |-> pos, to |-> cut.piece, width |-> w])
      /\ pos' = IF whole THEN to ELSE C!Skip(C!States, cut.next)
  BY DEF C!Cut
<1>2. /\ N \in Nat /\ pos \in Nat /\ pos < N /\ text \in Seq(Glyph)
      /\ ChunkTarget \in Nat /\ ChunkTarget > 0 /\ Fence \in Nat
  BY OutsideAssumption DEF C!Cut, TextInv
<1>3. to \in pos + 1..N
  <2>1. C!SoftSplit(C!States) \in pos + 1..pos + ChunkTarget
    BY <1>2, SoftSplitIs
  <2> HIDE DEF N
  <2> QED  BY <1>2, <2>1
<1> HIDE DEF to
<1>4. end \in pos + 1..N
  <2>1. C!Trimmed(to) \in pos..to
    BY <1>2, <1>3, TrimmedIs
  <2> QED  BY <1>2, <1>3, <2>1
<1> HIDE DEF end
<1>5. PICK c \in pos + 1..N : cut = [piece |-> c, next |-> c] /\ (whole => c = to)
  <2>1. \E c \in pos + 1..end : C!Shrunk(C!States, end) = [piece |-> c, next |-> c]
    BY <1>2, <1>4, ShrunkIs
  <2>2. CASE whole
    BY <1>3, <2>2
  <2>3. CASE ~whole
    <3>1. PICK c \in pos + 1..end : C!Shrunk(C!States, end) = [piece |-> c, next |-> c]
      BY <2>1
    <3>2. c \in pos + 1..N
      BY <1>2, <1>4
    <3> QED  BY <2>3, <3>1, <3>2
  <2> QED  BY <2>2, <2>3
<1>6. cut.piece = c /\ cut.next = c
  BY <1>5
<1> HIDE DEF cut
<1>7. w \in Int
  BY <1>2, <1>3, <1>6 DEF C!Width
<1>8. /\ C!Skip(C!States, c) \in c..N
      /\ \A i \in c + 1..C!Skip(C!States, c) : text[i] = "n" /\ ~C!States[i].fence
  <2>1. c \in 0..N
    BY <1>2, <1>5
  <2> QED  BY <1>2, <2>1, SkipIs
<1> HIDE DEF w
<1>9. CASE whole
  <2>1. pos' = c /\ c \in pos + 1..N /\ c <= c /\ \A i \in c + 1..c : FALSE
    BY <1>1, <1>2, <1>5, <1>9
  <2> HIDE DEF whole
  <2> QED  BY <1>1, <1>5, <1>6, <1>7, <2>1
<1>10. CASE ~whole
  <2>1. pos' = C!Skip(C!States, c)
    BY <1>1, <1>6, <1>10
  <2>2. C!Skip(C!States, c) \in pos + 1..N /\ c <= C!Skip(C!States, c)
    <3>1. PICK s : s = C!Skip(C!States, c)
      OBVIOUS
    <3>2. s \in c..N
      BY <1>8, <3>1
    <3>3. s \in pos + 1..N /\ c <= s
      BY <1>2, <1>5, <3>2
    <3> QED  BY <3>1, <3>3
  <2> HIDE DEF whole
  <2> QED  BY <1>1, <1>5, <1>6, <1>7, <1>8, <2>1, <2>2
<1> QED  BY <1>9, <1>10

LEMMA CutKeeps == ASSUME TextInv, C!Cut  PROVE TextInv'
<1>1. PICK to \in pos + 1..Len(text), w \in Int, next \in pos + 1..Len(text) :
        /\ parts' = Append(parts, [from |-> pos, to |-> to, width |-> w])
        /\ pos' = next /\ to <= next
        /\ \A i \in to + 1..next : text[i] = "n" /\ ~C!States[i].fence
  BY CutIs
<1>2. text' = text /\ outcome = "cutting" /\ outcome' = "cutting"
  BY DEF C!Cut
<1> DEFINE n == Len(parts)
           p == [from |-> pos, to |-> to, width |-> w]
<1>3. /\ pos \in Nat /\ Len(text) \in Nat /\ to \in Nat /\ next \in Nat /\ pos < to
      /\ next <= Len(text) /\ n \in Nat /\ parts \in Seq(Part) /\ p \in Part
  BY DEF TextInv, Part
<1>4. /\ parts' \in Seq(Part) /\ Len(parts') = n + 1 /\ parts'[n + 1] = p
      /\ DOMAIN parts' = 1..n + 1 /\ DOMAIN parts = 1..n
      /\ \A k \in 1..n : parts'[k] = parts[k] /\ parts[k] \in Part
  <2> HIDE DEF p
  <2> QED  BY <1>1, <1>3 DEF p
<1>5. p.from = pos /\ p.to = to
  OBVIOUS
<1> HIDE DEF p, n
<1>6. \A k \in 1..n : parts[k].to \in Nat /\ parts[k].from \in Nat
  BY <1>4 DEF Part
<1>7. \A k \in 1..n : parts[k].from < parts[k].to /\ parts[k].to <= pos
  BY <1>4 DEF TextInv
<1>8. \A k \in 1..n + 1 : parts'[k].from < parts'[k].to /\ parts'[k].to <= next
  <2> SUFFICES ASSUME NEW k \in 1..n + 1
               PROVE  parts'[k].from < parts'[k].to /\ parts'[k].to <= next
    OBVIOUS
  <2>1. CASE k = n + 1
    BY <1>1, <1>3, <1>4, <1>5, <2>1
  <2>2. CASE k # n + 1
    <3>1. k \in 1..n
      BY <1>3, <2>2 DEF n
    <3> QED  BY <1>3, <1>4, <1>6, <1>7, <3>1
  <2> QED  BY <2>1, <2>2
<1>9. \A k \in 2..n + 1 : parts'[k - 1].to <= parts'[k].from
  <2> SUFFICES ASSUME NEW k \in 2..n + 1  PROVE parts'[k - 1].to <= parts'[k].from
    OBVIOUS
  <2>0. k - 1 \in 1..n /\ n \in Nat
    BY <1>3
  <2>1. CASE k = n + 1
    <3>1. parts'[k - 1].to <= pos
      BY <1>4, <1>7, <2>0
    <3> QED  BY <1>4, <1>5, <2>1, <3>1
  <2>2. CASE k # n + 1
    <3>1. k \in 1..n /\ k \in 2..n
      BY <2>0, <2>2
    <3>2. parts[k - 1].to <= parts[k].from
      BY <3>1 DEF TextInv, n
    <3> QED  BY <1>4, <2>0, <3>1, <3>2
  <2> QED  BY <2>1, <2>2
<1>10. C!States' = C!States
  BY <1>2 DEF C!States, C!Ticks
<1>11. \A i \in 1..next : C!InParts(i)' \/ (text[i] = "n" /\ ~C!States[i].fence)
  <2> SUFFICES ASSUME NEW i \in 1..next
               PROVE  C!InParts(i)' \/ (text[i] = "n" /\ ~C!States[i].fence)
    OBVIOUS
  <2>0. n + 1 \in 1..n + 1 /\ n \in Nat
    BY <1>3
  <2>1. CASE i \in 1..pos
    <3>1. CASE C!InParts(i)
      <4>1. PICK k \in 1..n : parts[k].from < i /\ i <= parts[k].to
        BY <1>4, <3>1 DEF C!InParts
      <4>2. k \in 1..n + 1 /\ parts'[k] = parts[k]
        BY <1>4, <2>0
      <4>3. \E q \in DOMAIN parts' : parts'[q].from < i /\ i <= parts'[q].to
        BY <1>4, <4>1, <4>2
      <4> QED  BY <4>3 DEF C!InParts
    <3> QED  BY <2>1, <3>1 DEF TextInv
  <2>2. CASE i \in pos + 1..to
    <3>1. parts'[n + 1].from < i /\ i <= parts'[n + 1].to
      BY <1>3, <1>4, <1>5, <2>2
    <3>2. \E q \in DOMAIN parts' : parts'[q].from < i /\ i <= parts'[q].to
      BY <1>4, <2>0, <3>1
    <3> QED  BY <3>2 DEF C!InParts
  <2>3. CASE i \in to + 1..next
    BY <1>1, <2>3
  <2> QED  BY <1>3, <2>1, <2>2, <2>3
<1>12. pos' \in 0..Len(text)
  BY <1>1, <1>3
<1>13. /\ text' \in Seq(Glyph) /\ pos' \in 0..Len(text') /\ parts' \in Seq(Part)
       /\ outcome' \in {"none", "cutting", "sent", "refused"}
       /\ outcome' = "none" => pos' = 0 /\ parts' = <<>>
       /\ outcome' # "sent"
  BY <1>2, <1>4, <1>12 DEF TextInv
<1>14. /\ \A k \in DOMAIN parts' : parts'[k].from < parts'[k].to /\ parts'[k].to <= pos'
       /\ \A k \in 2..Len(parts') : parts'[k - 1].to <= parts'[k].from
       /\ \A i \in 1..pos' : C!InParts(i)' \/ (text'[i] = "n" /\ ~C!States'[i].fence)
  BY <1>1, <1>2, <1>4, <1>8, <1>9, <1>10, <1>11
<1> QED  BY <1>13, <1>14 DEF TextInv

LEMMA ValidateKeeps == ASSUME TextInv, C!Validate  PROVE TextInv'
<1>1. /\ text' = text /\ pos' = pos /\ parts' = parts /\ pos = Len(text) /\ outcome # "none"
      /\ outcome' \in {"sent", "refused"}
      /\ outcome' = "sent" => \A k \in DOMAIN parts : parts[k].width <= HardLimit
  BY DEF C!Validate
<1>2. C!States' = C!States /\ \A i : C!InParts(i)' = C!InParts(i)
  BY <1>1 DEF C!States, C!Ticks, C!InParts
<1> QED  BY <1>1, <1>2 DEF TextInv

LEMMA TextStepInv == ASSUME TextInv, [C!Next]_(C!vars)  PROVE TextInv'
<1>1. CASE C!Take
  BY <1>1, TakeKeeps
<1>2. CASE C!Cut
  BY <1>2, CutKeeps
<1>3. CASE C!Validate
  BY <1>3, ValidateKeeps
<1>4. CASE UNCHANGED C!vars
  <2>1. text' = text /\ pos' = pos /\ parts' = parts /\ outcome' = outcome
    BY <1>4 DEF C!vars
  <2>2. C!States' = C!States /\ \A i : C!InParts(i)' = C!InParts(i)
    BY <2>1 DEF C!States, C!Ticks, C!InParts
  <2> QED  BY <2>1, <2>2 DEF TextInv
<1> QED  BY <1>1, <1>2, <1>3, <1>4 DEF C!Next

LEMMA TextInvIsRight == ASSUME TextInv  PROVE C!NothingLost
  BY DEF TextInv, C!NothingLost

\* What is sent is the text: its parts follow one another and none is too long,
\* and only newlines outside of code blocks are dropped at the cuts, for every
\* text, every window of at least one glyph and every limit.
THEOREM TextIsWhole == C!Spec => []NothingLost
<1>1. C!Spec => []TextInv
  BY TextInitInv, TextStepInv, PTL DEF C!Spec
<1> QED  BY <1>1, TextInvIsRight, PTL DEF NothingLost
=============================================================================
