------------------------------- MODULE Briefs -------------------------------
(***************************************************************************)
(* The brief framework: a BriefRequest is acked, its context gathered, a   *)
(* compose session registered and its token published to the agent         *)
(* (BriefsOrchestratorEndpoint); the agent works on the session with its   *)
(* tools and submits it once; submit_brief fans out to the destinations.   *)
(* A token is the request it was made for: tokens are fresh.               *)
(***************************************************************************)
EXTENDS Naturals

CONSTANTS
  Request,      \* BriefRequest events and compose_brief calls
  SelfLaunched, \* those of Request made by the compose_brief tool
  Destination,  \* destinations of the playbook
  Submitter,    \* submit_brief calls that may be under way at once
  MaxDisturbances \* bound: stops and crashes taken together

VARIABLES
  up,       \* _handle is set
  request,  \* how far each request is
  session,  \* _sessions: "none", "active", "consumed"
  aged,     \* sessions older than the TTL
  odd,      \* sessions with an extension section whose color is no palette name
  submit,   \* submit_brief calls: [token, left], left the destinations to go
  tried,    \* destinations a submission came to
  sent,     \* how often a brief was delivered to a destination
  broken,   \* submissions that raised after the token was consumed
  crashed,  \* requests that were in memory only when the process ended
  used

vars == <<up, request, session, aged, odd, submit, tried, sent, broken, crashed, used>>

NoSubmit == [token |-> "none", left |-> {}]

Disturbed == used < MaxDisturbances /\ used' = used + 1

Init ==
  /\ up = TRUE
  /\ request = [r \in Request |-> "none"]
  /\ session = [r \in Request |-> "none"]
  /\ aged = {} /\ odd = {}
  /\ submit = [c \in Submitter |-> NoSubmit]
  /\ tried = [r \in Request |-> {}]
  /\ sent = [r \in Request |-> [d \in Destination |-> 0]]
  /\ broken = {} /\ crashed = {}
  /\ used = 0

----------------------------------------------------------------------------
(* The registry                                                            *)

\* SessionRegistry.get: an expired session is dropped, a consumed one refused.
Usable(r) == session[r] = "active" /\ r \notin aged

\* Time passes: more than ttl_seconds since the session was made.
Age(r) ==
  /\ session[r] # "none" /\ r \notin aged
  /\ aged' = aged \cup {r}
  /\ UNCHANGED <<up, request, session, odd, submit, tried, sent, broken, crashed, used>>

\* get of an expired token, len(registry) and cleanup_expired.
Sweep ==
  /\ \E expired \in SUBSET aged \ {{}} :
       session' = [r \in Request |-> IF r \in expired THEN "none" ELSE session[r]]
  /\ session' # session
  /\ UNCHANGED <<up, request, aged, odd, submit, tried, sent, broken, crashed, used>>

----------------------------------------------------------------------------
(* From request to token                                                   *)

\* deliver(): the envelope is acked, then the gathering begins. compose_brief
\* has no envelope and does not ask whether the endpoint is started.
Begin(r) ==
  /\ request[r] = "none" /\ (up \/ r \in SelfLaunched)
  /\ request' = [request EXCEPT ![r] = "gathering"]
  /\ UNCHANGED <<up, session, aged, odd, submit, tried, sent, broken, crashed, used>>

\* No target, playbook or fetcher, or a malformed one: logged, never retried.
BuildFails(r) ==
  /\ request[r] = "gathering"
  /\ request' = [request EXCEPT ![r] = "failed"]
  /\ UNCHANGED <<up, session, aged, odd, submit, tried, sent, broken, crashed, used>>

\* gather_context has returned: a fetcher that fails or runs into its timeout
\* only leaves a note. build_compose_session registers the session.
Build(r) ==
  /\ request[r] = "gathering"
  /\ session' = [session EXCEPT ![r] = "active"]
  /\ request' = [request EXCEPT ![r] = IF r \in SelfLaunched THEN "told" ELSE "publishing"]
  /\ UNCHANGED <<up, aged, odd, submit, tried, sent, broken, crashed, used>>

PublishReturns(r) ==
  /\ request[r] = "publishing" /\ up
  /\ request' = [request EXCEPT ![r] = "told"]
  /\ UNCHANGED <<up, session, aged, odd, submit, tried, sent, broken, crashed, used>>

\* Mutant: the session is not rewound.
PublishFailsOnly(r) ==
  /\ request[r] = "publishing"
  /\ request' = [request EXCEPT ![r] = "failed"]
  /\ UNCHANGED <<up, session, aged, odd, submit, tried, sent, broken, crashed, used>>

\* publish() raises, or the endpoint was stopped and there is no handle.
PublishFails(r) ==
  /\ request[r] = "publishing"
  /\ request' = [request EXCEPT ![r] = "failed"]
  /\ session' = [session EXCEPT ![r] = "none"]
  /\ UNCHANGED <<up, aged, odd, submit, tried, sent, broken, crashed, used>>

----------------------------------------------------------------------------
(* The agent                                                               *)

\* The agent may have the ComposeBrief before publish() returns.
HasToken(r) == request[r] \in {"publishing", "told"}

\* add_extension_section takes any name for a color.
AddOddExtension(r) ==
  /\ HasToken(r) /\ Usable(r)
  /\ odd' = odd \cup {r}
  /\ UNCHANGED <<up, request, session, aged, submit, tried, sent, broken, crashed, used>>

\* Mutant: consumes the token when all is delivered.
SubmitConsumingLast(c, r) ==
  /\ submit[c] = NoSubmit
  /\ HasToken(r) /\ Usable(r)
  /\ submit' = [submit EXCEPT ![c] = [token |-> r, left |-> Destination]]
  /\ UNCHANGED <<up, request, session, aged, odd, tried, sent, broken, crashed, used>>

\* A submission without issues: get, validate and consume without an await.
\* (One with issues is audited and changes nothing.)
Submit(c, r) ==
  /\ submit[c] = NoSubmit
  /\ HasToken(r) /\ Usable(r)
  /\ session' = [session EXCEPT ![r] = "consumed"]
  /\ submit' = [submit EXCEPT ![c] = [token |-> r, left |-> Destination]]
  /\ UNCHANGED <<up, request, aged, odd, tried, sent, broken, crashed, used>>

\* _enrich_sections_with_spec meets the color that is none: PlaybookParseError
\* after the token was consumed, and nothing is delivered.
EnrichRaises(c, r) ==
  /\ submit[c] = NoSubmit
  /\ HasToken(r) /\ Usable(r) /\ r \in odd
  /\ session' = [session EXCEPT ![r] = "consumed"]
  /\ broken' = broken \cup {r}
  /\ UNCHANGED <<up, request, aged, odd, submit, tried, sent, crashed, used>>

Attempt(c, d) ==
  /\ d \in submit[c].left
  /\ tried' = [tried EXCEPT ![submit[c].token] = @ \cup {d}]

Advance(c, d) ==
  LET left == submit[c].left \ {d}
  IN submit' = [submit EXCEPT ![c] = IF left = {} THEN NoSubmit ELSE [token |-> @.token, left |-> left]]

DestinationDelivers(c, d) ==
  /\ Attempt(c, d)
  /\ Advance(c, d)
  /\ sent' = [sent EXCEPT ![submit[c].token][d] = @ + 1]
  /\ UNCHANGED <<up, request, session, aged, odd, broken, crashed, used>>

\* It is unknown, its factory or deliver() raises, or it reports a failure.
DestinationFails(c, d) ==
  /\ Attempt(c, d)
  /\ Advance(c, d)
  /\ UNCHANGED <<up, request, session, aged, odd, sent, broken, crashed, used>>

----------------------------------------------------------------------------
Stop ==
  /\ up /\ Disturbed
  /\ up' = FALSE
  /\ UNCHANGED <<request, session, aged, odd, submit, tried, sent, broken, crashed>>

Start ==
  /\ ~up
  /\ up' = TRUE
  /\ UNCHANGED <<request, session, aged, odd, submit, tried, sent, broken, crashed, used>>

\* The sessions and the requests that were acked are in memory only.
Crash ==
  /\ Disturbed
  /\ crashed' = crashed \cup {r \in Request : request[r] # "none"}
  /\ up' = FALSE
  /\ request' = [r \in Request |-> IF request[r] \in {"gathering", "publishing"} THEN "failed" ELSE request[r]]
  /\ session' = [r \in Request |-> "none"] /\ aged' = {} /\ odd' = {}
  /\ submit' = [c \in Submitter |-> NoSubmit]
  /\ UNCHANGED <<tried, sent, broken>>

RequestStep(r) ==
  Age(r) \/ Begin(r) \/ BuildFails(r) \/ Build(r) \/ PublishReturns(r) \/ PublishFails(r) \/ AddOddExtension(r)

SubmitStep(c) ==
  \/ \E r \in Request : Submit(c, r) \/ EnrichRaises(c, r)
  \/ \E d \in Destination : DestinationDelivers(c, d) \/ DestinationFails(c, d)

Next ==
  \/ Sweep \/ Stop \/ Start \/ Crash
  \/ \E r \in Request : RequestStep(r)
  \/ \E c \in Submitter : SubmitStep(c)

Spec == Init /\ [][Next]_vars

----------------------------------------------------------------------------
(* Properties                                                              *)

\* A brief goes to a destination at most once, whatever submissions of its
\* token run at the same time and whichever of them fails ("one-shot").
DeliveredOnce == \A r \in Request, d \in Destination : sent[r][d] <= 1

\* No dangling token: a session that can be submitted is one whose token the
\* agent has or is being sent, also when publish() failed or the endpoint was
\* stopped while the context was gathered.
NoDanglingToken ==
  \A r \in Request : session[r] = "active" => request[r] \in {"publishing", "told"}

\* "One destination's failure does not stop the others": a token is spent for
\* an attempt at every destination, unless the process ended or the sections
\* could not be enriched.
SpentForAll ==
  \A r \in Request :
    session[r] = "consumed" =>
      \/ tried[r] = Destination \/ r \in broken
      \/ \E c \in Submitter : submit[c].token = r

\* A token can be submitted when its agent knows it, and is spent for every
\* destination.
TokensAreRight == NoDanglingToken /\ SpentForAll
=============================================================================
