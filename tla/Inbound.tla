------------------------------ MODULE Inbound ------------------------------
(***************************************************************************)
(* The inbound endpoint: a GitHub webhook whose signature is good reaches  *)
(* Router.receive, which drops what it has seen, asks the connector's      *)
(* allowance file, spends a token, writes the audit line and hands a       *)
(* Notification to the bus. One connector and one target.                  *)
(*                                                                         *)
(* receive() does not await, so it is one step. The publish it hands to    *)
(* the bus handle runs on its own and nothing here learns how it ends.     *)
(***************************************************************************)
EXTENDS Naturals, Sequences, FiniteSets, SequencesExt

CONSTANTS
  Event,      \* ids of events; a webhook redelivered has the same id
  Capacity,   \* dedupe_capacity
  Limit,      \* rate_limit_per_minute
  Window,     \* the minute
  MaxTime,    \* bound: the clock
  MaxLog      \* bound: events handed on or recognised in one life

VARIABLES
  now,
  file,     \* the allowance file: is it there, does it parse, its mtime, what it allows
  rules,    \* _config of the connector
  mtime,    \* _loaded_mtime
  up,       \* the server accepts requests
  seen,     \* _seen, the oldest first
  stamps,   \* _stamps of the token bucket
  log       \* what this life recognised or handed on, and when

Never == 0

vars == <<now, file, rules, mtime, up, seen, stamps, log>>

Init ==
  /\ now = 1
  /\ file = [there |-> TRUE, parses |-> TRUE, mtime |-> 1, allow |-> Event]
  /\ rules = {} /\ mtime = Never
  /\ up = FALSE
  /\ seen = <<>> /\ stamps = <<>> /\ log = <<>>

Tick == now < MaxTime /\ now' = now + 1 /\ UNCHANGED <<file, rules, mtime, up, seen, stamps, log>>

\* The operator edits the file, maybe twice within its mtime's grain, breaks
\* it, or removes it.
Edit ==
  /\ file' \in {[there |-> TRUE, parses |-> p, mtime |-> now, allow |-> a] :
                p \in BOOLEAN, a \in {Event, {}}}
  /\ UNCHANGED <<now, rules, mtime, up, seen, stamps, log>>

Delete ==
  /\ file' = [there |-> FALSE, parses |-> FALSE, mtime |-> Never, allow |-> {}]
  /\ UNCHANGED <<now, rules, mtime, up, seen, stamps, log>>

----------------------------------------------------------------------------
(* The allowance                                                           *)

\* The file is read again only when it is there and its mtime is newer.
ReloadNeeded(loaded) == file.there /\ (loaded = Never \/ file.mtime > loaded)

\* load_allowance raises on a file that does not parse: the request ends in a
\* 500 and what was loaded before stays.
ReloadRaises == ReloadNeeded(mtime) /\ ~file.parses

Rules == IF ReloadNeeded(mtime) THEN file.allow ELSE rules

Reload == rules' = Rules /\ mtime' = IF ReloadNeeded(mtime) THEN file.mtime ELSE mtime

\* start() builds a new connector, audit log and router; a file that does not
\* parse fails the start.
Start ==
  /\ ~up
  /\ ~(file.there /\ ~file.parses)
  /\ up' = TRUE
  /\ rules' = IF file.there THEN file.allow ELSE {}
  /\ mtime' = IF file.there THEN file.mtime ELSE Never
  /\ seen' = <<>> /\ stamps' = <<>> /\ log' = <<>>
  /\ UNCHANGED <<now, file>>

Stop == up /\ up' = FALSE /\ UNCHANGED <<now, file, rules, mtime, seen, stamps, log>>

----------------------------------------------------------------------------
(* The token bucket                                                        *)

Stale(k) == stamps[k] + Window < now

\* Stamps older than the window are taken out from the left.
Live ==
  LET n == CHOOSE n \in 0..Len(stamps) :
             (\A k \in 1..n : Stale(k)) /\ (n < Len(stamps) => ~ Stale(n + 1))
  IN  SubSeq(stamps, n + 1, Len(stamps))

HasToken == Len(Live) < Limit

----------------------------------------------------------------------------
(* Router.receive                                                          *)

Known(e) == Contains(seen, e)

\* Mutant: a redelivery does not move the key to the end.
RedeliveredKeepsPlace(e) ==
  /\ up /\ Known(e) /\ Len(log) < MaxLog
  /\ log' = Append(log, [event |-> e, at |-> now, handed |-> FALSE])
  /\ UNCHANGED <<now, file, rules, mtime, up, seen, stamps>>

Redelivered(e) ==
  /\ up /\ Known(e) /\ Len(log) < MaxLog
  /\ \E p \in DOMAIN seen : seen[p] = e /\ seen' = Append(RemoveAt(seen, p), e)
  /\ log' = Append(log, [event |-> e, at |-> now, handed |-> FALSE])
  /\ UNCHANGED <<now, file, rules, mtime, up, stamps>>

\* No rule matches: an audit line, and the event is not remembered, so that a
\* change of the rules lets its redelivery in.
Denied(e) ==
  /\ up /\ ~Known(e) /\ ~ReloadRaises
  /\ e \notin Rules
  /\ Reload
  /\ UNCHANGED <<now, file, up, seen, stamps, log>>

\* The bucket is empty: an audit line, and the event is not remembered.
Limited(e) ==
  /\ up /\ ~Known(e) /\ ~ReloadRaises
  /\ e \in Rules /\ ~HasToken
  /\ Reload
  /\ stamps' = Live
  /\ UNCHANGED <<now, file, up, seen, log>>

\* The audit file cannot be written: the token is spent, nothing is published.
AuditFails(e) ==
  /\ up /\ ~Known(e) /\ ~ReloadRaises
  /\ e \in Rules /\ HasToken
  /\ Reload
  /\ stamps' = Append(Live, now)
  /\ UNCHANGED <<now, file, up, seen, log>>

\* The oldest is evicted when there are too many.
Remember(e) ==
  LET s == Append(seen, e) IN IF Len(s) <= Capacity THEN s ELSE Tail(s)

HandedOn(e) ==
  /\ up /\ ~Known(e) /\ ~ReloadRaises /\ Len(log) < MaxLog
  /\ e \in Rules /\ HasToken
  /\ Reload
  /\ stamps' = Append(Live, now)
  /\ seen' = Remember(e)
  /\ log' = Append(log, [event |-> e, at |-> now, handed |-> TRUE])
  /\ UNCHANGED <<now, file, up>>

Receive(e) == Redelivered(e) \/ Denied(e) \/ Limited(e) \/ AuditFails(e) \/ HandedOn(e)

Next == Tick \/ Edit \/ Delete \/ Start \/ Stop \/ \E e \in Event : Receive(e)

Spec == Init /\ [][Next]_vars

----------------------------------------------------------------------------
(* Properties                                                              *)

Handed == {i \in DOMAIN log : log[i].handed}

\* The events the router met between the i-th and the j-th entry of the log.
Between(i, j) == {log[k].event : k \in i + 1..j - 1}

\* A redelivered webhook makes a second Notification only when as many other
\* events as the router remembers came in since it last met this one.
NotTwice ==
  \A j \in Handed, i \in DOMAIN log :
    i < j /\ log[i].event = log[j].event => Cardinality(Between(i, j) \ {log[j].event}) >= Capacity

\* Within one life no window, both its ends included, sees more Notifications
\* than the limit, whatever was denied, redelivered or failed in between.
RateHeld == Cardinality({i \in Handed : log[i].at + Window >= now}) <= Limit

\* What the router lets through, both of it.
AdmittedRightly == NotTwice /\ RateHeld
=============================================================================
