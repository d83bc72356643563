---------------------------- MODULE CommonLemmas ----------------------------
(***************************************************************************)
(* Lemmas that proofs about several parts need: the smallest and the       *)
(* largest of some numbers, the functions that a recursion defines, and    *)
(* what is kept of a sequence of things met when only so many are kept.    *)
(***************************************************************************)
EXTENDS Naturals, Sequences, FiniteSets, FiniteSetTheorems, WellFoundedInduction, TLAPS

----------------------------------------------------------------------------
(* Numbers                                                                 *)

\* A set of naturals that is not empty has a smallest member.
LEMMA Smallest ==
  ASSUME NEW T \in SUBSET Nat, T # {}
  PROVE  \E m \in T : \A n \in T : m <= n
<1>1. PICK m \in T : \A n \in T : <<n, m>> \notin OpToRel(<, Nat)
  BY WFMin, NatLessThanWellFounded
<1>2. \A n \in T : ~ (n < m)
  BY <1>1 DEF OpToRel
<1> QED  BY <1>2

\* A set of positions that is not empty has a last one.
LEMMA LastPosition ==
  ASSUME NEW n \in Nat, NEW S \in SUBSET (0..n), S # {}
  PROVE  \E m \in S : \A k \in S : k <= m
<1> DEFINE T == {n - k : k \in S}
<1>1. T \in SUBSET Nat /\ T # {}
  <2>1. \A k \in S : n - k \in Nat
    OBVIOUS
  <2> QED  BY <2>1
<1>2. PICK t \in T : \A u \in T : t <= u
  <2> HIDE DEF T
  <2> QED  BY <1>1, Smallest
<1>3. PICK m \in S : t = n - m
  OBVIOUS
<1>4. ASSUME NEW k \in S  PROVE k <= m
  BY <1>2, <1>3
<1> QED  BY <1>4

----------------------------------------------------------------------------
(* Recursive functions                                                     *)

\* f begins with b and takes all of the N steps T[n] of a recursion over S.
Takes(f, S, b, N, T) ==
  f \in [0..N -> S] /\ f[0] = b /\ \A n \in 1..N : f[n] = T[n][f[n - 1]]

\* There is such a function.
LEMMA Recursion ==
  ASSUME NEW S, NEW b \in S, NEW N \in Nat, NEW T \in [1..N -> [S -> S]]
  PROVE  \E f : Takes(f, S, b, N, T)
<1> DEFINE G(f, m) == f \in [0..m -> S] /\ f[0] = b /\ \A n \in 1..m : f[n] = T[n][f[n - 1]]
           Bad == {m \in 0..N : ~ \E f \in [0..m -> S] : G(f, m)}
<1>1. ASSUME NEW m \in Bad  PROVE \E k \in Bad : k < m
  <2>0. m \in 0..N /\ ~ \E f \in [0..m -> S] : G(f, m)
    <3> HIDE DEF G
    <3> QED  OBVIOUS
  <2>1. m # 0
    <3>1. G([n \in 0..0 |-> b], 0)
      OBVIOUS
    <3>2. [n \in 0..0 |-> b] \in [0..0 -> S]
      OBVIOUS
    <3>3. \E f \in [0..0 -> S] : G(f, 0)
      BY <3>1, <3>2
    <3> HIDE DEF G
    <3> QED  BY <3>3
  <2>2. m - 1 \in 0..N /\ m - 1 < m /\ m \in 1..N
    BY <2>1
  <2>3. ASSUME NEW f \in [0..m - 1 -> S], G(f, m - 1)  PROVE FALSE
    <3> DEFINE g == [n \in 0..m |-> IF n = m THEN T[m][f[m - 1]] ELSE f[n]]
    <3>1. g \in [0..m -> S]
      BY <2>2
    <3>2. g[0] = b
      BY <2>1, <2>2, <2>3
    <3>3. ASSUME NEW n \in 1..m  PROVE g[n] = T[n][g[n - 1]]
      <4>1. g[n - 1] = f[n - 1]
        BY <2>2
      <4>2. CASE n = m
        BY <2>2, <4>1, <4>2
      <4>3. CASE n # m
        <5>1. n \in 1..m - 1 /\ g[n] = f[n]
          BY <2>2, <4>3
        <5> QED  BY <2>3, <4>1, <5>1
      <4> QED  BY <4>2, <4>3
    <3>4. G(g, m)
      BY <3>1, <3>2, <3>3
    <3>5. \E h \in [0..m -> S] : G(h, m)
      BY <3>1, <3>4
    <3> QED  BY <2>0, <3>5
  <2>4. m - 1 \in 0..N /\ ~ \E f \in [0..m - 1 -> S] : G(f, m - 1)
    BY <2>2, <2>3
  <2> QED  BY <2>2, <2>4
<1>2. Bad = {}
  <2>1. Bad \in SUBSET Nat
    OBVIOUS
  <2>2. ASSUME Bad # {}  PROVE FALSE
    <3>1. PICK m \in Bad : \A k \in Bad : m <= k
      <4> HIDE DEF Bad
      <4> QED  BY <2>1, <2>2, Smallest
    <3>2. PICK k \in Bad : k < m
      BY <1>1
    <3>3. m \in Nat /\ k \in Nat /\ m <= k
      <4> HIDE DEF Bad
      <4> QED  BY <2>1, <3>1, <3>2
    <3> QED  BY <3>2, <3>3
  <2> QED  BY <2>2
<1>3. N \in 0..N /\ N \notin Bad
  BY <1>2
<1>4. PICK f \in [0..N -> S] : G(f, N)
  <2> HIDE DEF G
  <2> QED  BY <1>3
<1> QED  BY <1>4 DEF Takes

----------------------------------------------------------------------------
(* What is kept of the last things met                                     *)

Things(s) == {s[k] : k \in DOMAIN s}

\* The thing at place p goes to the end.
Renewed(s, p) == Append(SubSeq(s, 1, p - 1) \o SubSeq(s, p + 1, Len(s)), s[p])

\* What was met after the i-th.
MetAfter(l, i) == {l[k] : k \in i + 1..Len(l)}

\* s has the last cap different things of l, the one met last at its end.
LastMet(cap, Thing, s, l) ==
  /\ s \in Seq(Thing) /\ l \in Seq(Thing) /\ Len(s) <= cap
  /\ \A p, q \in DOMAIN s : s[p] = s[q] => p = q
  /\ \A p, q \in DOMAIN s, i \in DOMAIN l :
       p < q /\ l[i] = s[p] => s[q] \in MetAfter(l, i)
  /\ \A i \in DOMAIN l :
       l[i] \notin Things(s) => cap <= Cardinality(MetAfter(l, i) \ {l[i]})

LEMMA AfterIsFinite ==
  ASSUME NEW Thing, NEW l \in Seq(Thing), NEW i \in Nat
  PROVE  IsFiniteSet(MetAfter(l, i))
<1> DEFINE f == [k \in i + 1..Len(l) |-> l[k]]
<1>1. f \in Surjection(i + 1..Len(l), MetAfter(l, i))
  BY DEF MetAfter, Surjection
<1>2. IsFiniteSet(i + 1..Len(l))
  BY FS_Interval
<1> QED  BY <1>1, <1>2, FS_Surjection

LEMMA AfterGrows ==
  ASSUME NEW Thing, NEW l \in Seq(Thing), NEW e \in Thing, NEW i \in 1..Len(l)
  PROVE  MetAfter(Append(l, e), i) = MetAfter(l, i) \cup {e}
<1> DEFINE m == Append(l, e)
<1>1. /\ Len(m) = Len(l) + 1 /\ m[Len(l) + 1] = e /\ Len(l) \in Nat
      /\ \A k \in 1..Len(l) : m[k] = l[k]
  OBVIOUS
<1>2. i + 1..Len(m) = (i + 1..Len(l)) \cup {Len(l) + 1}
  BY <1>1
<1> HIDE DEF m
<1>3. \A k \in i + 1..Len(l) : m[k] = l[k]
  BY <1>1
<1> QED  BY <1>1, <1>2, <1>3 DEF MetAfter, m

\* Meeting e, a thing new or forgotten is still one.
LEMMA StaysForgotten ==
  ASSUME NEW Thing, NEW cap \in Nat, NEW l \in Seq(Thing), NEW e \in Thing, NEW i \in 1..Len(l),
         cap <= Cardinality(MetAfter(l, i) \ {l[i]})
  PROVE  cap <= Cardinality(MetAfter(Append(l, e), i) \ {l[i]})
<1> DEFINE a == MetAfter(l, i) \ {l[i]}
           b == MetAfter(Append(l, e), i) \ {l[i]}
<1>1. a \in SUBSET b
  BY AfterGrows
<1>2. IsFiniteSet(b)
  <2>1. Append(l, e) \in Seq(Thing) /\ i \in Nat
    OBVIOUS
  <2>2. IsFiniteSet(MetAfter(Append(l, e), i))
    BY <2>1, AfterIsFinite
  <2>3. b \in SUBSET MetAfter(Append(l, e), i)
    OBVIOUS
  <2> QED  BY <2>2, <2>3, FS_Subset
<1>3. Cardinality(a) <= Cardinality(b) /\ Cardinality(a) \in Nat /\ Cardinality(b) \in Nat
  BY <1>1, <1>2, FS_Subset, FS_CardinalityType
<1> HIDE DEF a, b
<1>4. cap <= Cardinality(a) => cap <= Cardinality(b)
  BY <1>3
<1> QED  BY <1>4 DEF a, b

LEMMA RenewedIs ==
  ASSUME NEW Thing, NEW s \in Seq(Thing), NEW p \in DOMAIN s, NEW t, t = Renewed(s, p)
  PROVE  /\ t \in Seq(Thing) /\ Len(t) = Len(s) /\ t[Len(s)] = s[p]
         /\ \A q \in 1..Len(s) - 1 : t[q] = IF q < p THEN s[q] ELSE s[q + 1]
<1> DEFINE a == SubSeq(s, 1, p - 1)
           b == SubSeq(s, p + 1, Len(s))
           r == SubSeq(s, 1, p - 1) \o SubSeq(s, p + 1, Len(s))
<1>1. /\ a \in Seq(Thing) /\ Len(a) = p - 1 /\ \A j \in 1..p - 1 : a[j] = s[j]
  OBVIOUS
<1>2. /\ b \in Seq(Thing) /\ Len(b) = Len(s) - p /\ \A j \in 1..Len(s) - p : b[j] = s[p + j]
  OBVIOUS
<1>3. r = a \o b
  OBVIOUS
<1>4. p \in Nat /\ Len(s) \in Nat /\ p <= Len(s) /\ p >= 1 /\ s[p] \in Thing
  OBVIOUS
<1> HIDE DEF a, b, r
<1>5. r \in Seq(Thing) /\ Len(r) = Len(s) - 1
  BY <1>1, <1>2, <1>3, <1>4
<1>6. ASSUME NEW j \in 1..Len(s) - 1  PROVE r[j] = IF j < p THEN s[j] ELSE s[j + 1]
  <2>1. CASE j < p
    BY <1>1, <1>2, <1>3, <1>4, <2>1
  <2>2. CASE ~ j < p
    <3>0. j > Len(a) /\ j <= Len(a) + Len(b)
      BY <1>1, <1>2, <1>4, <2>2
    <3>1. r[j] = b[j - (p - 1)]
      <4>1. \A k \in 1..Len(b) : (a \o b)[Len(a) + k] = b[k]
        BY <1>1, <1>2
      <4>0. Len(a) = p - 1 /\ Len(b) = Len(s) - p
        BY <1>1, <1>2
      <4>2. j - (p - 1) \in 1..Len(b) /\ Len(a) + (j - (p - 1)) = j
        <5>1. j \in Int /\ j >= p /\ j <= Len(s) - 1
          BY <1>4, <2>2
        <5> HIDE DEF a, b
        <5>2. j - (p - 1) \in Int /\ j - (p - 1) >= 1 /\ j - (p - 1) <= Len(s) - p /\ (p - 1) + (j - (p - 1)) = j
          BY <1>4, <5>1
        <5> QED  BY <4>0, <5>2
      <4> QED  BY <1>3, <4>1, <4>2
    <3> QED  BY <1>2, <1>4, <2>2, <3>1
  <2> QED  BY <2>1, <2>2
<1>7. /\ t \in Seq(Thing) /\ Len(t) = Len(s) /\ t[Len(s)] = s[p]
      /\ \A q \in 1..Len(s) - 1 : t[q] = r[q]
  <2>1. t = Append(r, s[p])
    BY DEF r, Renewed
  <2> QED  BY <1>4, <1>5, <2>1
<1> QED  BY <1>6, <1>7

\* A thing kept is met again.
LEMMA MetAgain ==
  ASSUME NEW Thing, NEW cap \in Nat, NEW s, NEW l, LastMet(cap, Thing, s, l), NEW p \in DOMAIN s
  PROVE  LastMet(cap, Thing, Renewed(s, p), Append(l, s[p]))
<1> DEFINE t == Renewed(s, p)
           m == Append(l, s[p])
           n == Len(s)
<1>1. /\ s \in Seq(Thing) /\ l \in Seq(Thing) /\ n \in Nat /\ n <= cap /\ DOMAIN s = 1..n
      /\ \A q, r \in 1..n : s[q] = s[r] => q = r
      /\ s[p] \in Thing /\ p \in 1..n
  BY DEF LastMet
<1>2. /\ t \in Seq(Thing) /\ Len(t) = n /\ t[n] = s[p] /\ DOMAIN t = 1..n
      /\ \A q \in 1..n - 1 : t[q] = IF q < p THEN s[q] ELSE s[q + 1]
  <2>1. /\ t \in Seq(Thing) /\ Len(t) = Len(s) /\ t[Len(s)] = s[p]
        /\ \A q \in 1..Len(s) - 1 : t[q] = IF q < p THEN s[q] ELSE s[q + 1]
    <3>1. t = Renewed(s, p) /\ s \in Seq(Thing) /\ p \in DOMAIN s
      BY <1>1
    <3>2. \A S, q : q = Renewed(s, p) /\ s \in Seq(S) =>
            /\ q \in Seq(S) /\ Len(q) = Len(s) /\ q[Len(s)] = s[p]
            /\ \A k \in 1..Len(s) - 1 : q[k] = IF k < p THEN s[k] ELSE s[k + 1]
      BY RenewedIs
    <3> HIDE DEF t, n, m
    <3> QED  BY <3>1, <3>2
  <2> HIDE DEF t
  <2> QED  BY <1>1, <2>1
<1>3. /\ m \in Seq(Thing) /\ DOMAIN m = 1..Len(l) + 1 /\ m[Len(l) + 1] = s[p]
      /\ Len(l) \in Nat /\ \A i \in 1..Len(l) : m[i] = l[i] /\ MetAfter(m, i) = MetAfter(l, i) \cup {s[p]}
  BY <1>1, AfterGrows
<1> HIDE DEF t, m, n
\* The thing at place q of t was at place w[q] of s.
<1> DEFINE w == [q \in 1..n |-> IF q = n THEN p ELSE IF q < p THEN q ELSE q + 1]
<1>4. /\ \A q \in 1..n : w[q] \in 1..n /\ t[q] = s[w[q]]
      /\ \A q, r \in 1..n : w[q] = w[r] => q = r
      /\ \A q, r \in 1..n : q < r /\ r # n => w[q] < w[r]
      /\ \A r \in 1..n : \E q \in 1..n : w[q] = r
  <2>1. \A q \in 1..n : w[q] \in 1..n /\ t[q] = s[w[q]]
    BY <1>1, <1>2
  <2>2. \A q, r \in 1..n : w[q] = w[r] => q = r
    BY <1>1
  <2>3. \A q, r \in 1..n : q < r /\ r # n => w[q] < w[r]
    BY <1>1
  <2>4. ASSUME NEW r \in 1..n  PROVE \E q \in 1..n : w[q] = r
    <3>1. CASE r = p
      <4>1. w[n] = r /\ n \in 1..n
        BY <1>1, <3>1
      <4> QED  BY <4>1
    <3>2. CASE r < p
      <4>1. w[r] = r
        BY <1>1, <3>2
      <4> QED  BY <4>1
    <3>3. CASE r > p
      <4>1. w[r - 1] = r /\ r - 1 \in 1..n
        BY <1>1, <3>3
      <4> QED  BY <4>1
    <3> QED  BY <1>1, <3>1, <3>2, <3>3
  <2> QED  BY <2>1, <2>2, <2>3, <2>4
<1> HIDE DEF w
<1>5. Things(t) = Things(s)
  <2>1. \A q \in DOMAIN t : t[q] \in Things(s)
    <3>1. \A q \in 1..n : s[q] \in Things(s)
      BY <1>1 DEF Things
    <3>2. \A q \in 1..n : t[q] = s[w[q]] /\ s[w[q]] \in Things(s)
      BY <1>4, <3>1
    <3> QED  BY <1>2, <3>2
  <2>2. \A r \in DOMAIN s : s[r] \in Things(t)
    <3> SUFFICES ASSUME NEW r \in DOMAIN s  PROVE s[r] \in Things(t)
      OBVIOUS
    <3>1. PICK q \in 1..n : w[q] = r
      BY <1>1, <1>4
    <3> QED  BY <1>2, <1>4, <3>1 DEF Things
  <2> QED  BY <2>1, <2>2 DEF Things
<1>6. \A q, r \in 1..n : t[q] = t[r] => q = r
  <2> SUFFICES ASSUME NEW q \in 1..n, NEW r \in 1..n, t[q] = t[r]  PROVE w[q] = w[r]
    BY <1>4
  <2>1. w[q] \in 1..n /\ w[r] \in 1..n /\ s[w[q]] = s[w[r]]
    BY <1>4
  <2> QED  BY <1>1, <2>1
<1>7. ASSUME NEW q \in 1..n, NEW r \in 1..n, NEW i \in 1..Len(l) + 1, q < r, m[i] = t[q]
      PROVE  t[r] \in MetAfter(m, i)
  <2>1. q # n /\ t[q] # s[p]
    BY <1>1, <1>2, <1>6, <1>7
  <2>2. i \in 1..Len(l) /\ l[i] = s[w[q]] /\ MetAfter(m, i) = MetAfter(l, i) \cup {s[p]}
    <3>1. i # Len(l) + 1
      BY <1>3, <1>7, <2>1
    <3>2. i \in 1..Len(l)
      BY <1>3, <3>1
    <3> QED  BY <1>3, <1>4, <1>7, <3>2
  <2>3. CASE r = n
    BY <1>2, <2>2, <2>3
  <2>4. CASE r # n
    <3>1. w[q] < w[r] /\ w[q] \in DOMAIN s /\ w[r] \in DOMAIN s
      BY <1>1, <1>4, <1>7, <2>4
    <3>2. s[w[r]] \in MetAfter(l, i)
      BY <1>1, <2>2, <3>1 DEF LastMet
    <3> QED  BY <1>4, <2>2, <3>2
  <2> QED  BY <2>3, <2>4
<1>8. ASSUME NEW i \in 1..Len(l) + 1, m[i] \notin Things(t)
      PROVE  cap <= Cardinality(MetAfter(m, i) \ {m[i]})
  <2>0. s[p] \in Things(s)
    BY <1>1 DEF Things
  <2>1. i \in 1..Len(l) /\ m[i] = l[i] /\ l[i] \notin Things(s)
    <3>1. i # Len(l) + 1
      BY <1>3, <1>5, <1>8, <2>0
    <3>2. i \in 1..Len(l)
      BY <1>3, <3>1
    <3> QED  BY <1>3, <1>5, <1>8, <3>2
  <2>2. cap <= Cardinality(MetAfter(l, i) \ {l[i]})
    <3>1. \A k \in DOMAIN l :
            l[k] \notin Things(s) => cap <= Cardinality(MetAfter(l, k) \ {l[k]})
      BY DEF LastMet
    <3> QED  BY <1>1, <2>1, <3>1
  <2> QED  BY <1>1, <2>1, <2>2, StaysForgotten DEF m
<1>9. LastMet(cap, Thing, t, m)
  BY <1>1, <1>2, <1>3, <1>6, <1>7, <1>8 DEF LastMet
<1> QED  BY <1>9 DEF t, m

\* Something else is met: with cap things kept the oldest is let go.
KeptOf(cap, s, e) == LET t == Append(s, e) IN IF Len(t) <= cap THEN t ELSE Tail(t)

LEMMA MetFirst ==
  ASSUME NEW Thing, NEW cap \in Nat, NEW s, NEW l, LastMet(cap, Thing, s, l), NEW e \in Thing, e \notin Things(s)
  PROVE  LastMet(cap, Thing, KeptOf(cap, s, e), Append(l, e))
<1> DEFINE t == Append(s, e)
           m == Append(l, e)
           n == Len(s)
<1>1. /\ s \in Seq(Thing) /\ l \in Seq(Thing) /\ n \in Nat /\ n <= cap /\ DOMAIN s = 1..n
      /\ \A q, r \in 1..n : s[q] = s[r] => q = r
      /\ \A q \in 1..n : s[q] # e
  BY DEF LastMet, Things
<1>2. /\ t \in Seq(Thing) /\ Len(t) = n + 1 /\ t[n + 1] = e /\ t # <<>>
      /\ DOMAIN t = 1..n + 1 /\ \A q \in 1..n : t[q] = s[q]
  <2>1. t \in Seq(Thing) /\ Len(t) = n + 1
    BY <1>1
  <2>2. t[n + 1] = e /\ \A q \in 1..n : t[q] = s[q]
    BY <1>1
  <2> HIDE DEF t
  <2> QED  BY <1>1, <2>1, <2>2
<1>3. /\ m \in Seq(Thing) /\ DOMAIN m = 1..Len(l) + 1 /\ m[Len(l) + 1] = e
      /\ Len(l) \in Nat /\ \A i \in 1..Len(l) : m[i] = l[i] /\ MetAfter(m, i) = MetAfter(l, i) \cup {e}
  BY <1>1, AfterGrows
<1> HIDE DEF t, m, n
<1>4. \A q, r \in 1..n + 1 : t[q] = t[r] => q = r
  BY <1>1, <1>2
<1>5. ASSUME NEW q \in 1..n + 1, NEW r \in 1..n + 1, NEW i \in 1..Len(l) + 1, q < r, m[i] = t[q]
      PROVE  t[r] \in MetAfter(m, i)
  <2>1. q \in 1..n /\ t[q] = s[q] /\ s[q] # e
    BY <1>1, <1>2, <1>5
  <2>2. i \in 1..Len(l) /\ m[i] = l[i] /\ l[i] = s[q]
    BY <1>3, <1>5, <2>1
  <2>3. CASE r = n + 1
    BY <1>2, <1>3, <2>2, <2>3
  <2>4. CASE r # n + 1
    <3>1. r \in 1..n /\ t[r] = s[r]
      BY <1>1, <1>2, <2>4
    <3>2. s[r] \in MetAfter(l, i)
      BY <1>1, <1>5, <2>1, <2>2, <3>1 DEF LastMet
    <3> QED  BY <1>3, <2>2, <3>1, <3>2
  <2> QED  BY <2>3, <2>4
<1>6. ASSUME NEW i \in 1..Len(l) + 1, m[i] \notin Things(t)
      PROVE  cap <= Cardinality(MetAfter(m, i) \ {m[i]})
  <2>1. i \in 1..Len(l) /\ m[i] = l[i] /\ l[i] \notin Things(s)
    <3>1. \A q \in 1..n + 1 : t[q] # m[i]
      BY <1>2, <1>6 DEF Things
    <3>2. n + 1 \in 1..n + 1 /\ m[i] # e
      BY <1>1, <1>2, <3>1
    <3>3. i \in 1..Len(l) /\ m[i] = l[i]
      BY <1>3, <3>2
    <3>4. \A q \in 1..n : s[q] # l[i]
      BY <1>1, <1>2, <3>1, <3>3
    <3> QED  BY <1>1, <3>3, <3>4 DEF Things
  <2>2. cap <= Cardinality(MetAfter(l, i) \ {l[i]})
    <3>1. \A k \in DOMAIN l :
            l[k] \notin Things(s) => cap <= Cardinality(MetAfter(l, k) \ {l[k]})
      BY DEF LastMet
    <3> QED  BY <1>1, <2>1, <3>1
  <2> QED  BY <1>1, <2>1, <2>2, StaysForgotten DEF m
<1>7. CASE n + 1 <= cap
  <2>1. LastMet(cap, Thing, t, m)
    BY <1>1, <1>2, <1>3, <1>4, <1>5, <1>6, <1>7 DEF LastMet
  <2> QED  BY <1>2, <1>7, <2>1 DEF KeptOf, t, m
<1>8. CASE ~ n + 1 <= cap
  <2> DEFINE u == Tail(t)
  <2>1. n = cap /\ u \in Seq(Thing) /\ Len(u) = n /\ DOMAIN u = 1..n
        /\ \A q \in 1..n : u[q] = t[q + 1]
    BY <1>1, <1>2, <1>8
  <2> HIDE DEF u
  <2>2. ASSUME NEW q \in 1..n, NEW r \in 1..n, u[q] = u[r]  PROVE q = r
    <3>1. q + 1 \in 1..n + 1 /\ r + 1 \in 1..n + 1 /\ t[q + 1] = t[r + 1]
      BY <1>1, <2>1, <2>2
    <3>2. q + 1 = r + 1
      BY <1>4, <3>1
    <3> QED  BY <1>1, <3>2
  <2>3. ASSUME NEW q \in 1..n, NEW r \in 1..n, NEW i \in 1..Len(l) + 1, q < r, m[i] = u[q]
        PROVE  u[r] \in MetAfter(m, i)
    <3>1. q + 1 \in 1..n + 1 /\ r + 1 \in 1..n + 1 /\ q + 1 < r + 1
      BY <1>1, <2>3
    <3>2. u[q] = t[q + 1] /\ u[r] = t[r + 1]
      BY <2>1
    <3> QED  BY <1>5, <2>3, <3>1, <3>2
  <2>4. ASSUME NEW i \in 1..Len(l) + 1, m[i] \notin Things(u)
        PROVE  cap <= Cardinality(MetAfter(m, i) \ {m[i]})
    <3>1. CASE m[i] \notin Things(t)
      BY <1>6, <3>1
    <3>2. CASE m[i] \in Things(t)
      <4> DEFINE c == MetAfter(m, i) \ {m[i]}
                 f == [q \in 1..n |-> u[q]]
      <4>1. PICK q \in 1..n + 1 : m[i] = t[q]
        BY <1>2, <3>2 DEF Things
      <4>2. q = 1
        <5>1. ASSUME q # 1  PROVE FALSE
          <6>1. q - 1 \in DOMAIN u /\ u[q - 1] = m[i]
            BY <1>1, <2>1, <4>1, <5>1
          <6> QED  BY <2>4, <6>1 DEF Things
        <5> QED  BY <5>1
      <4>3. \A r \in 1..n : u[r] \in MetAfter(m, i) /\ u[r] # m[i]
        <5> SUFFICES ASSUME NEW r \in 1..n  PROVE u[r] \in MetAfter(m, i) /\ u[r] # m[i]
          OBVIOUS
        <5>1. r + 1 \in 1..n + 1 /\ 1 \in 1..n + 1 /\ 1 < r + 1 /\ u[r] = t[r + 1]
          BY <1>1, <2>1
        <5> QED  BY <1>4, <1>5, <4>1, <4>2, <5>1
      <4>4. f \in Injection(1..n, c)
        <5>1. f \in [1..n -> c]
          BY <4>3
        <5>2. IsInjective(f)
          BY <2>2 DEF IsInjective
        <5> QED  BY <5>1, <5>2 DEF Injection
      <4>5. IsFiniteSet(c)
        <5>1. IsFiniteSet(MetAfter(m, i))
          BY <1>3, AfterIsFinite
        <5> QED  BY <5>1, FS_Subset
      <4>6. Cardinality(1..n) = n
        BY <1>1, FS_Interval
      <4> QED  BY <2>1, <4>4, <4>5, <4>6, FS_Injection
    <3> QED  BY <3>1, <3>2
  <2>5. LastMet(cap, Thing, u, m)
    BY <1>1, <1>3, <2>1, <2>2, <2>3, <2>4 DEF LastMet
  <2> QED  BY <1>2, <1>8, <2>5 DEF KeptOf, t, m, u
<1> QED  BY <1>7, <1>8

\* Nothing comes to what is kept but the thing met.
LEMMA RenewedHasThem ==
  ASSUME NEW Thing, NEW s \in Seq(Thing), NEW p \in DOMAIN s
  PROVE  Things(Renewed(s, p)) \subseteq Things(s)
<1> DEFINE t == Renewed(s, p)
           n == Len(s)
<1>1. /\ n \in Nat /\ p \in 1..n /\ DOMAIN s = 1..n
      /\ t \in Seq(Thing) /\ Len(t) = n /\ t[n] = s[p]
      /\ \A q \in 1..n - 1 : t[q] = IF q < p THEN s[q] ELSE s[q + 1]
  BY RenewedIs
<1> HIDE DEF t, n
<1>2. DOMAIN t = 1..n
  BY <1>1
<1>3. ASSUME NEW q \in 1..n  PROVE \E k \in 1..n : t[q] = s[k]
  <2>1. CASE q = n
    BY <1>1, <2>1
  <2>2. CASE q < p /\ q # n
    BY <1>1, <2>2
  <2>3. CASE ~ q < p /\ q # n
    <3>1. q \in 1..n - 1 /\ q + 1 \in 1..n
      BY <1>1, <2>3
    <3> QED  BY <1>1, <2>3, <3>1
  <2> QED  BY <2>1, <2>2, <2>3
<1>4. ASSUME NEW x \in Things(t)  PROVE x \in Things(s)
  <2>1. PICK q \in 1..n : x = t[q]
    BY <1>2 DEF Things
  <2>2. PICK k \in 1..n : t[q] = s[k]
    BY <1>3
  <2> QED  BY <1>1, <2>1, <2>2 DEF Things
<1> QED  BY <1>4 DEF t

LEMMA KeptHasThem ==
  ASSUME NEW Thing, NEW cap \in Nat, NEW s \in Seq(Thing), NEW e \in Thing
  PROVE  Things(KeptOf(cap, s, e)) \subseteq Things(s) \cup {e}
<1> DEFINE t == Append(s, e)
           n == Len(s)
<1>1. /\ n \in Nat /\ t \in Seq(Thing) /\ t # <<>> /\ Len(t) = n + 1 /\ t[n + 1] = e
      /\ DOMAIN s = 1..n /\ \A q \in 1..n : t[q] = s[q]
  OBVIOUS
<1> HIDE DEF t, n
<1>2. \A q \in 1..n + 1 : t[q] \in Things(s) \cup {e}
  BY <1>1 DEF Things
<1>3. Things(t) \subseteq Things(s) \cup {e}
  BY <1>1, <1>2 DEF Things
<1>4. Things(Tail(t)) \subseteq Things(s) \cup {e}
  <2> DEFINE u == Tail(t)
  <2>1. DOMAIN u = 1..n /\ \A q \in 1..n : u[q] = t[q + 1]
    BY <1>1
  <2> HIDE DEF u
  <2>2. \A q \in 1..n : u[q] \in Things(s) \cup {e}
    BY <1>1, <1>2, <2>1
  <2> QED  BY <2>1, <2>2 DEF Things, u
<1>5. KeptOf(cap, s, e) = IF Len(t) <= cap THEN t ELSE Tail(t)
  BY DEF KeptOf, t
<1> QED  BY <1>3, <1>4, <1>5

\* A sequence up to the next place.
LEMMA PrefixGrows ==
  ASSUME NEW Thing, NEW m \in Seq(Thing), NEW k \in Nat, k < Len(m)
  PROVE  SubSeq(m, 1, k + 1) = Append(SubSeq(m, 1, k), m[k + 1])
<1> DEFINE a == SubSeq(m, 1, k)
           b == SubSeq(m, 1, k + 1)
<1>1. /\ a \in Seq(Thing) /\ Len(a) = k /\ \A i \in 1..k : a[i] = m[i]
      /\ b \in Seq(Thing) /\ Len(b) = k + 1 /\ \A i \in 1..k + 1 : b[i] = m[i]
      /\ m[k + 1] \in Thing
  OBVIOUS
<1> HIDE DEF a, b
<1> DEFINE c == Append(a, m[k + 1])
<1>2. c \in Seq(Thing) /\ Len(c) = k + 1 /\ c[k + 1] = m[k + 1] /\ \A i \in 1..k : c[i] = m[i]
  BY <1>1
<1> HIDE DEF c
<1>3. b = c
  BY <1>1, <1>2
<1> QED  BY <1>3 DEF a, b, c
=============================================================================
