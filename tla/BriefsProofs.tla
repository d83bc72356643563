---------------------------- MODULE BriefsProofs ----------------------------
(***************************************************************************)
(* Proofs about the brief framework, for any requests, destinations and    *)
(* submissions at once, and any number of stops and crashes.               *)
(***************************************************************************)
EXTENDS Briefs, TLAPS

\* The variables that the properties are about have their types.
Types ==
  /\ request \in [Request -> {"none", "gathering", "failed", "publishing", "told"}]
  /\ session \in [Request -> {"none", "active", "consumed"}]
  /\ submit \in [Submitter -> [token : Request \cup {"none"}, left : SUBSET Destination]]
  /\ tried \in [Request -> SUBSET Destination]
  /\ sent \in [Request -> [Destination -> Nat]]

\* c has destinations of r before it.
Works(c, r) == submit[c].token = r /\ submit[c].left # {}

\* A token nobody has submitted yet.
Untouched(r) == tried[r] = {} /\ \A c \in Submitter : ~ Works(c, r)

\* Before its session is built a request has none, and until its session is
\* consumed nothing was done with its token.
OneSession ==
  \A r \in Request :
    /\ request[r] \in {"none", "gathering"} => session[r] = "none" /\ Untouched(r)
    /\ session[r] = "active" => Untouched(r)

\* A submission has the token to itself, and what it has not come to was
\* never tried.
OneSubmission ==
  \A r \in Request, c \in Submitter :
    Works(c, r) => /\ tried[r] = Destination \ submit[c].left
                   /\ \A d \in Submitter : Works(d, r) => d = c

\* Nothing is delivered without an attempt, and nothing twice.
SentWhenTried ==
  \A r \in Request, d \in Destination : sent[r][d] <= IF d \in tried[r] THEN 1 ELSE 0

\* SpentForAll, with a submission that still has something to do.
Spent ==
  \A r \in Request :
    session[r] = "consumed" =>
      tried[r] = Destination \/ r \in broken \/ \E c \in Submitter : Works(c, r)

Inv == Types /\ NoDanglingToken /\ OneSession /\ OneSubmission /\ SentWhenTried /\ Spent

----------------------------------------------------------------------------
LEMMA InitInv == ASSUME Init  PROVE Inv
<1> USE DEF Init, NoSubmit
<1>1. Types
  BY DEF Types
<1>2. NoDanglingToken /\ OneSession /\ OneSubmission /\ SentWhenTried /\ Spent
  BY DEF NoDanglingToken, OneSession, OneSubmission, SentWhenTried, Spent, Untouched, Works
<1> QED  BY <1>1, <1>2 DEF Inv

\* Steps that touch no submission, take sessions away at most, and move no
\* request whose session stays.
Harmless ==
  /\ UNCHANGED <<submit, tried, sent, broken>>
  /\ \A r \in Request :
       /\ session'[r] \in {"none", session[r]}
       /\ request'[r] \in {"none", "gathering"} => request[r] \in {"none", "gathering"}
       /\ session'[r] = "active" /\ request[r] \in {"publishing", "told"}
            => request'[r] \in {"publishing", "told"}

LEMMA HarmlessStep ==
  ASSUME Inv, Types', Harmless
  PROVE  Inv'
<1>1. \A c \in Submitter, r \in Request : Works(c, r)' <=> Works(c, r)
  BY DEF Harmless, Works
<1>2. \A r \in Request : Untouched(r)' <=> Untouched(r)
  BY <1>1 DEF Harmless, Untouched
<1>3. NoDanglingToken'
  BY DEF Inv, Harmless, NoDanglingToken
<1>4. OneSession'
  BY <1>2 DEF Inv, Harmless, OneSession
<1>5. OneSubmission' /\ SentWhenTried'
  BY <1>1 DEF Inv, Harmless, OneSubmission, SentWhenTried
<1>6. Spent'
  BY <1>1 DEF Inv, Harmless, Spent
<1> QED  BY <1>3, <1>4, <1>5, <1>6 DEF Inv

\* Build registers the first and only session of a request.
LEMMA BuildStep ==
  ASSUME Inv, NEW r \in Request, Build(r)
  PROVE  Inv'
<1> USE DEF Inv
<1>1. /\ Untouched(r) /\ request[r] = "gathering"
      /\ session' = [session EXCEPT ![r] = "active"]
      /\ \A q \in Request : request'[q] = request[q] \/ (q = r /\ request'[q] \in {"publishing", "told"})
      /\ request'[r] \in {"publishing", "told"}
      /\ UNCHANGED <<submit, tried, sent, broken>>
  BY DEF Build, OneSession, Types
<1>2. Types'
  BY DEF Build, Types
<1>3. \A c \in Submitter, q \in Request : Works(c, q)' <=> Works(c, q)
  BY <1>1 DEF Works
<1>4. \A q \in Request : Untouched(q)' <=> Untouched(q)
  BY <1>1, <1>3 DEF Untouched
<1>5. NoDanglingToken'
  BY <1>1 DEF NoDanglingToken, Types
<1>6. OneSession'
  BY <1>1, <1>4 DEF OneSession, Types
<1>7. OneSubmission' /\ SentWhenTried' /\ Spent'
  BY <1>1, <1>3 DEF OneSubmission, SentWhenTried, Spent, Types
<1> QED  BY <1>2, <1>5, <1>6, <1>7

\* The token is consumed before anything is delivered.
LEMMA SubmitBegins ==
  ASSUME Inv, NEW c \in Submitter, NEW r \in Request, Submit(c, r)
  PROVE  Inv'
<1> USE DEF Inv
<1>1. /\ session[r] = "active" /\ Untouched(r) /\ request[r] \in {"publishing", "told"}
      /\ submit[c] = NoSubmit
      /\ session' = [session EXCEPT ![r] = "consumed"]
      /\ submit' = [submit EXCEPT ![c] = [token |-> r, left |-> Destination]]
      /\ UNCHANGED <<request, tried, sent, broken>>
  BY DEF Submit, Usable, HasToken, OneSession
<1>2. Types'
  BY <1>1 DEF Types
<1>3. \A b \in Submitter, q \in Request :
        Works(b, q)' <=> IF b = c THEN q = r /\ Destination # {} ELSE Works(b, q)
  BY <1>1 DEF Works, Types
<1>4. ~ \E q \in Request : Works(c, q)
  BY <1>1 DEF Works, NoSubmit
<1>5. \A q \in Request : q # r => (Untouched(q)' <=> Untouched(q))
  BY <1>1, <1>3, <1>4 DEF Untouched
<1>6. NoDanglingToken'
  BY <1>1 DEF NoDanglingToken, Types
<1>7. OneSession'
  BY <1>1, <1>5 DEF OneSession, Types
<1>8. OneSubmission'
  <2> SUFFICES ASSUME NEW q \in Request, NEW b \in Submitter, Works(b, q)'
               PROVE  /\ tried'[q] = Destination \ submit'[b].left
                      /\ \A d \in Submitter : Works(d, q)' => d = b
    BY DEF OneSubmission
  <2>1. CASE q = r
    <3>1. b = c
      BY <1>1, <1>3, <2>1 DEF Untouched
    <3> QED  BY <1>1, <1>3, <2>1, <3>1 DEF Untouched, Types
  <2>2. CASE q # r
    <3>1. b # c /\ Works(b, q)
      BY <1>3, <2>2
    <3> QED  BY <1>1, <1>3, <2>2, <3>1 DEF OneSubmission, Types
  <2> QED  BY <2>1, <2>2
<1>9. SentWhenTried'
  BY <1>1 DEF SentWhenTried
<1>10. Spent'
  <2> SUFFICES ASSUME NEW q \in Request, session'[q] = "consumed",
                      tried[q] # Destination, q \notin broken
               PROVE  \E b \in Submitter : Works(b, q)'
    BY <1>1 DEF Spent
  <2>1. CASE q = r
    BY <1>1, <1>3, <2>1 DEF Untouched
  <2>2. CASE q # r
    BY <1>1, <1>3, <1>4, <2>2 DEF Spent, Types
  <2> QED  BY <2>1, <2>2
<1> QED  BY <1>2, <1>6, <1>7, <1>8, <1>9, <1>10

LEMMA EnrichStep ==
  ASSUME Inv, NEW c \in Submitter, NEW r \in Request, EnrichRaises(c, r)
  PROVE  Inv'
<1> USE DEF Inv
<1>1. /\ session[r] = "active" /\ request[r] \in {"publishing", "told"}
      /\ session' = [session EXCEPT ![r] = "consumed"]
      /\ broken' = broken \cup {r}
      /\ UNCHANGED <<request, submit, tried, sent>>
  BY DEF EnrichRaises, Usable, HasToken
<1>2. Types'
  BY <1>1 DEF Types
<1>3. \A b \in Submitter, q \in Request : Works(b, q)' <=> Works(b, q)
  BY <1>1 DEF Works
<1>4. \A q \in Request : Untouched(q)' <=> Untouched(q)
  BY <1>1, <1>3 DEF Untouched
<1>5. NoDanglingToken'
  BY <1>1 DEF NoDanglingToken, Types
<1>6. OneSession'
  BY <1>1, <1>4 DEF OneSession, Types
<1>7. OneSubmission' /\ SentWhenTried' /\ Spent'
  BY <1>1, <1>3 DEF OneSubmission, SentWhenTried, Spent, Types
<1> QED  BY <1>2, <1>5, <1>6, <1>7

\* A destination is come to: once for each token, delivered or not.
LEMMA DestinationStep ==
  ASSUME Inv, NEW c \in Submitter, NEW d \in Destination,
         DestinationDelivers(c, d) \/ DestinationFails(c, d)
  PROVE  Inv'
<1> USE DEF Inv
<1> DEFINE r == submit[c].token
           left == submit[c].left \ {d}
<1>1. /\ d \in submit[c].left
      /\ tried' = [tried EXCEPT ![r] = @ \cup {d}]
      /\ submit' = [submit EXCEPT ![c] = IF left = {} THEN NoSubmit ELSE [token |-> r, left |-> left]]
      /\ UNCHANGED <<request, session, broken>>
  BY DEF DestinationDelivers, DestinationFails, Attempt, Advance
<1>2. sent' = sent \/ sent' = [sent EXCEPT ![r][d] = @ + 1]
  BY DEF DestinationDelivers, DestinationFails
<1>3. /\ \A b \in Submitter : b # c => submit'[b] = submit[b]
      /\ submit'[c] = IF left = {} THEN NoSubmit ELSE [token |-> r, left |-> left]
      /\ submit'[c].left = left
  BY <1>1 DEF Types, NoSubmit
<1>4. Types'
  <2>1. submit' \in [Submitter -> [token : Request \cup {"none"}, left : SUBSET Destination]]
    BY <1>1, <1>3 DEF Types, NoSubmit
  <2>2. tried' \in [Request -> SUBSET Destination]
    BY <1>1 DEF Types
  <2>3. sent' \in [Request -> [Destination -> Nat]]
    <3>1. CASE r \in Request
      <4>1. sent[r] \in [Destination -> Nat]
        BY <3>1 DEF Types
      <4>2. [sent[r] EXCEPT ![d] = @ + 1] \in [Destination -> Nat]
        BY <4>1
      <4> QED  BY <1>2, <4>2 DEF Types
    <3>2. CASE r \notin Request
      BY <1>2, <3>2 DEF Types
    <3> QED  BY <3>1, <3>2
  <2> QED  BY <1>1, <2>1, <2>2, <2>3 DEF Types
<1>5. \A b \in Submitter, q \in Request :
        Works(b, q)' <=> IF b = c THEN q = r /\ left # {} ELSE Works(b, q)
  BY <1>1, <1>3 DEF Works, NoSubmit
<1>6. \A q \in Request : q # r => tried'[q] = tried[q] /\ sent'[q] = sent[q]
  BY <1>1, <1>2 DEF Types
<1>7. \A q \in Request : q # r => (Untouched(q)' <=> Untouched(q))
  BY <1>5, <1>6 DEF Untouched, Works
<1>8. r \in Request => /\ Works(c, r) /\ d \notin tried[r]
                       /\ session[r] # "active" /\ request[r] \notin {"none", "gathering"}
                       /\ \A b \in Submitter : Works(b, r) => b = c
  BY <1>1 DEF Works, OneSession, OneSubmission, Untouched
<1>9. NoDanglingToken'
  BY <1>1 DEF NoDanglingToken
<1>10. OneSession'
  BY <1>1, <1>7, <1>8 DEF OneSession
<1>11. OneSubmission'
  <2> SUFFICES ASSUME NEW q \in Request, NEW b \in Submitter, Works(b, q)'
               PROVE  /\ tried'[q] = Destination \ submit'[b].left
                      /\ \A a \in Submitter : Works(a, q)' => a = b
    BY DEF OneSubmission
  <2>1. CASE q = r
    <3>1. b = c /\ \A a \in Submitter : Works(a, q)' => a = c
      BY <1>5, <1>8, <2>1
    <3>2. tried[q] = Destination \ submit[c].left
      BY <1>8, <2>1 DEF OneSubmission
    <3>3. tried'[q] = tried[q] \cup {d}
      BY <1>1, <2>1 DEF Types
    <3>4. submit'[b].left = left
      BY <1>3, <3>1
    <3> QED  BY <1>1, <3>1, <3>2, <3>3, <3>4
  <2>2. CASE q # r
    <3>1. b # c /\ Works(b, q)
      BY <1>5, <2>2
    <3> QED  BY <1>3, <1>5, <1>6, <2>2, <3>1 DEF OneSubmission
  <2> QED  BY <2>1, <2>2
<1>12. SentWhenTried'
  <2> SUFFICES ASSUME NEW q \in Request, NEW t \in Destination
               PROVE  sent'[q][t] <= IF t \in tried'[q] THEN 1 ELSE 0
    BY DEF SentWhenTried
  <2>0. sent[q][t] <= IF t \in tried[q] THEN 1 ELSE 0
    BY DEF SentWhenTried
  <2>1. CASE q = r /\ t = d
    <3>1. sent[q][t] <= 0 /\ t \in tried'[q]
      BY <1>1, <1>8, <2>0, <2>1 DEF Types
    <3>2. sent'[q][t] \in {sent[q][t], sent[q][t] + 1} /\ sent[q][t] \in Nat
      BY <1>2, <2>1 DEF Types
    <3> QED  BY <3>1, <3>2
  <2>2. CASE ~ (q = r /\ t = d)
    <3>1. sent'[q][t] = sent[q][t] /\ (t \in tried'[q] <=> t \in tried[q])
      BY <1>1, <1>2, <2>2 DEF Types
    <3> QED  BY <2>0, <3>1
  <2> QED  BY <2>1, <2>2
<1>13. Spent'
  <2> SUFFICES ASSUME NEW q \in Request, session[q] = "consumed", q \notin broken
               PROVE  tried'[q] = Destination \/ \E b \in Submitter : Works(b, q)'
    BY <1>1 DEF Spent
  <2>1. CASE q = r
    <3>1. CASE left = {}
      <4>1. tried[q] = Destination \ submit[c].left /\ d \in submit[c].left
        BY <1>1, <1>8, <2>1 DEF OneSubmission
      <4>2. tried'[q] = tried[q] \cup {d}
        BY <1>1, <2>1 DEF Types
      <4> QED  BY <3>1, <4>1, <4>2
    <3>2. CASE left # {}
      BY <1>5, <2>1, <3>2
    <3> QED  BY <3>1, <3>2
  <2>2. CASE q # r
    <3>1. tried[q] = Destination \/ \E b \in Submitter : Works(b, q)
      BY DEF Spent
    <3> QED  BY <1>5, <1>6, <2>2, <3>1 DEF Works
  <2> QED  BY <2>1, <2>2
<1> QED  BY <1>4, <1>9, <1>10, <1>11, <1>12, <1>13

\* The process ends: no session is left to submit, no submission goes on.
LEMMA CrashStep ==
  ASSUME Inv, Crash
  PROVE  Inv'
<1> USE DEF Inv
<1>1. /\ \A r \in Request : session'[r] = "none"
      /\ \A c \in Submitter : submit'[c] = NoSubmit
      /\ \A r \in Request : request'[r] \in {"none", "gathering"} => request[r] = "none"
      /\ UNCHANGED <<tried, sent, broken>>
  BY DEF Crash, Types
<1>2. Types'
  BY DEF Crash, Types, NoSubmit
<1>3. \A c \in Submitter, r \in Request : ~ Works(c, r)'
  BY <1>1 DEF Works, NoSubmit
<1>4. OneSession'
  BY <1>1, <1>3 DEF OneSession, Untouched
<1>5. NoDanglingToken' /\ Spent'
  BY <1>1 DEF NoDanglingToken, Spent
<1>6. OneSubmission'
  BY <1>3 DEF OneSubmission
<1>7. SentWhenTried'
  BY <1>1 DEF SentWhenTried
<1> QED  BY <1>2, <1>4, <1>5, <1>6, <1>7

LEMMA StepInv == ASSUME Inv, [Next]_vars  PROVE Inv'
<1>1. CASE Sweep \/ Stop \/ Start \/ UNCHANGED vars
  <2>1. Types' /\ Harmless
    BY <1>1 DEF Inv, Types, Harmless, Sweep, Stop, Start, vars
  <2> QED  BY <2>1, HarmlessStep
<1>2. ASSUME NEW r \in Request,
             Age(r) \/ Begin(r) \/ BuildFails(r) \/ PublishReturns(r) \/ PublishFails(r) \/ AddOddExtension(r)
      PROVE  Inv'
  <2>1. Types'
    BY <1>2 DEF Inv, Types, Age, Begin, BuildFails, PublishReturns, PublishFails, AddOddExtension
  <2>2. Harmless
    BY <1>2 DEF Inv, Types, OneSession, Harmless, Age, Begin, BuildFails, PublishReturns, PublishFails,
                AddOddExtension
  <2> QED  BY <2>1, <2>2, HarmlessStep
<1>3. ASSUME NEW r \in Request, Build(r)  PROVE Inv'
  BY <1>3, BuildStep
<1>4. ASSUME NEW c \in Submitter, SubmitStep(c)  PROVE Inv'
  BY <1>4, SubmitBegins, EnrichStep, DestinationStep DEF SubmitStep
<1>5. CASE Crash
  BY <1>5, CrashStep
<1> QED  BY <1>1, <1>2, <1>3, <1>4, <1>5 DEF Next, RequestStep

LEMMA AlwaysInv == Spec => []Inv
  BY InitInv, StepInv, PTL DEF Spec

----------------------------------------------------------------------------
\* One-shot tokens: a destination gets a brief at most once, for any number of
\* submissions at once.
THEOREM NeverTwice == Spec => []DeliveredOnce
<1>1. Inv => DeliveredOnce
  <2> SUFFICES ASSUME Inv, NEW r \in Request, NEW d \in Destination  PROVE sent[r][d] <= 1
    BY DEF DeliveredOnce
  <2>1. sent[r][d] \in Nat /\ sent[r][d] <= IF d \in tried[r] THEN 1 ELSE 0
    BY DEF Inv, Types, SentWhenTried
  <2> QED  BY <2>1
<1> QED  BY <1>1, AlwaysInv, PTL

\* A token that can be submitted is known to its agent or on the way, and a
\* spent one was spent for an attempt at every destination.
THEOREM TokensStayRight == Spec => []TokensAreRight
<1>1. Inv => TokensAreRight
  BY DEF Inv, TokensAreRight, SpentForAll, Spent, Works
<1> QED  BY <1>1, AlwaysInv, PTL
=============================================================================
