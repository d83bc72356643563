------------------------------- MODULE Channel -------------------------------
(***************************************************************************)
(* The relay between the daemon and one Claude Code session: a wake from   *)
(* /notify becomes a notification with the queued envelopes in it, or a    *)
(* bare one. AgentMailbox has the queue and the wakes; here is what the    *)
(* relay makes of a wake: its configuration in layers, the circuit breaker, *)
(* the rendering and the marks on envelopes the session saw before.        *)
(*                                                                         *)
(* A text is its size. A text is never changed but by truncation.          *)
(***************************************************************************)
EXTENDS Naturals, Sequences, SequencesExt, FiniteSets, TLC

CONSTANTS
  Envelope,
  Sender, Size,       \* of each envelope: who sent it, how large its block is
  Failure,            \* yellow, red, or with a note that begins with "error:"
  Plain,              \* envelopes with a renderer that works
  Layers,             \* the choices for the yaml, env and cli layers, in order:
                      \* the fields each gives a value that can be coerced
  Default,            \* RelayConfig: mode, count, bytes, each
  Capacity,           \* of the RedeliveryTracker
  MaxQueued,          \* bound: envelopes in the mailbox
  MaxShown,           \* bound: blocks shown by one relay
  MaxMishaps          \* bound: failures and restarts

VARIABLES
  relay,     \* "down", "starting", "up", "asking", "showing"
  config,
  queue,     \* the mailbox, oldest first
  snapshot,  \* what consume answered
  tracker,   \* the ids the relay remembers, least recently shown first
  counts,    \* how often each of them was shown
  heard,     \* the blocks this relay has shown
  used

vars == <<relay, config, queue, snapshot, tracker, counts, heard, used>>

Mishap == used < MaxMishaps /\ used' = used + 1

\* A field a layer does not give, or not rightly, stays what it was below.
Layered(low, high) == high @@ low

Init ==
  /\ relay = "down"
  /\ config \in {FoldLeft(Layered, Default, layers) : layers \in Layers}
  /\ queue = <<>> /\ snapshot = <<>>
  /\ tracker = <<>> /\ counts = [e \in Envelope |-> 0]
  /\ heard = <<>> /\ used = 0

----------------------------------------------------------------------------
(* The circuit breaker                                                     *)

\* The place in a run of one sender's envelopes, <<>> when it is alone.
Batch(q, i) ==
  LET run == {j \in DOMAIN q : \A k \in DOMAIN q :
                 (k >= j /\ k <= i) \/ (k >= i /\ k <= j) => Sender[q[k]] = Sender[q[i]]}
  IN  IF Cardinality(run) = 1 THEN <<>>
      ELSE <<Cardinality({j \in run : j <= i}), Cardinality(run)>>

\* A block is elided when it is too large, and keeps its batch then; a
\* preview has neither the batch nor the note that it was rendered anyhow.
Block(q, i) ==
  LET e == q[i]
      large == Size[e] > config.each
  IN  IF config.mode = "preview"
      THEN [body |-> "preview", size |-> 1, batch |-> <<>>, fallback |-> FALSE]
      ELSE [body |-> IF large THEN "elided" ELSE "full",
            size |-> IF large THEN 1 ELSE Size[e],
            batch |-> Batch(q, i), fallback |-> e \notin Plain]

Blocks(q) == [i \in DOMAIN q |-> Block(q, i)]

TotalBytes(blocks) == FoldLeft(LAMBDA n, b : n + b.size, 0, blocks)

FallsBack(q) ==
  \/ Len(q) > config.count
  \/ TotalBytes(Blocks(q)) > config.bytes /\ Range(q) \cap Failure = {}

----------------------------------------------------------------------------
(* The marks                                                               *)

\* The cap: the id shown least recently is let go.
Capped(ids) == IF Len(ids) <= Capacity THEN ids ELSE Tail(ids)

\* Mutant: an id keeps the place its first showing gave it.
NoteInPlace(t, e) ==
  IF Contains(t.ids, e) THEN [ids |-> t.ids, counts |-> [t.counts EXCEPT ![e] = @ + 1]]
  ELSE [ids |-> Capped(Append(t.ids, e)), counts |-> [t.counts EXCEPT ![e] = 1]]

\* An id that is remembered counts on and goes to the end, a new or a
\* forgotten one counts from one.
Note(t, e) ==
  IF Contains(t.ids, e)
  THEN LET place == CHOOSE p \in DOMAIN t.ids : t.ids[p] = e
       IN  [ids |-> Append(RemoveAt(t.ids, place), e), counts |-> [t.counts EXCEPT ![e] = @ + 1]]
  ELSE [ids |-> Capped(Append(t.ids, e)), counts |-> [t.counts EXCEPT ![e] = 1]]

\* What the tracker holds as the first n blocks were noted.
Noted(q) ==
  LET f[n \in 0 .. Len(q)] ==
        IF n = 0 THEN [ids |-> tracker, counts |-> counts] ELSE Note(f[n - 1], q[n])
  IN  f

Marked(q) ==
  [n \in DOMAIN q |->
    [id |-> q[n], block |-> Block(q, n), resent |-> Noted(q)[n].counts[q[n]]]]

----------------------------------------------------------------------------
(* The relay                                                               *)

\* Claude Code spawns the relay.
Start ==
  /\ relay = "down"
  /\ relay' = "starting"
  /\ UNCHANGED <<config, queue, snapshot, tracker, counts, heard, used>>

\* The answer to initialize has gone out; /notify is opened only now.
Initialized ==
  /\ relay = "starting"
  /\ relay' = "up"
  /\ UNCHANGED <<config, queue, snapshot, tracker, counts, heard, used>>

Arrives ==
  /\ Len(queue) < MaxQueued
  /\ \E e \in Envelope \ Range(queue) : queue' = Append(queue, e)
  /\ UNCHANGED <<relay, config, snapshot, tracker, counts, heard, used>>

\* The agent reads one. The bus may hand it out again: Arrives.
Consumed ==
  /\ \E i \in DOMAIN queue : queue' = RemoveAt(queue, i)
  /\ UNCHANGED <<relay, config, snapshot, tracker, counts, heard, used>>

\* A wake in disabled mode.
WakeDisabled ==
  /\ relay = "up" /\ config.mode = "disabled"
  /\ UNCHANGED <<relay, config, queue, snapshot, tracker, counts, heard, used>>

\* A wake, and consume answers.
Wake ==
  /\ relay = "up" /\ config.mode # "disabled"
  /\ relay' = "showing" /\ snapshot' = queue
  /\ UNCHANGED <<config, queue, tracker, counts, heard, used>>

\* consume raises.
WakeUnanswered ==
  /\ relay = "up" /\ config.mode # "disabled" /\ Mishap
  /\ UNCHANGED <<relay, config, queue, snapshot, tracker, counts, heard>>

\* An empty answer is not shown.
Suppress ==
  /\ relay = "showing" /\ snapshot = <<>>
  /\ relay' = "up" /\ snapshot' = <<>>
  /\ UNCHANGED <<config, queue, tracker, counts, heard, used>>

\* Too many envelopes, too many bytes, or the pipeline raises.
ShowBare ==
  /\ relay = "showing" /\ snapshot # <<>>
  /\ \/ FallsBack(snapshot) /\ UNCHANGED used
     \/ ~ FallsBack(snapshot) /\ Mishap
  /\ relay' = "up" /\ snapshot' = <<>>
  /\ UNCHANGED <<config, queue, tracker, counts, heard>>

Show ==
  /\ relay = "showing" /\ snapshot # <<>> /\ ~ FallsBack(snapshot)
  /\ Len(heard) + Len(snapshot) <= MaxShown
  /\ tracker' = Noted(snapshot)[Len(snapshot)].ids
  /\ counts' = Noted(snapshot)[Len(snapshot)].counts
  /\ heard' = heard \o Marked(snapshot)
  /\ relay' = "up" /\ snapshot' = <<>>
  /\ UNCHANGED <<config, queue, used>>

\* The session ends, or a line of wake_audit cannot be written: the exception
\* leaves the pump and takes the relay with it, and what it remembers.
Stop ==
  /\ relay # "down" /\ Mishap
  /\ relay' = "down" /\ snapshot' = <<>>
  /\ tracker' = <<>> /\ counts' = [e \in Envelope |-> 0]
  /\ heard' = <<>>
  /\ UNCHANGED <<config, queue>>

Next ==
  \/ Start \/ Initialized \/ Arrives \/ Consumed
  \/ WakeDisabled \/ Wake \/ WakeUnanswered \/ Suppress \/ ShowBare \/ Show \/ Stop

Spec == Init /\ [][Next]_vars

----------------------------------------------------------------------------
(* Properties                                                              *)

Earlier(i) == {j \in 1 .. i - 1 : heard[j].id = heard[i].id}

\* The envelopes shown between i and the last time it was shown before.
Since(i) ==
  {heard[k].id : k \in {k \in 1 .. i - 1 : \A j \in Earlier(i) : k > j}}

\* A session that is shown an envelope for the second time is told so, unless
\* Capacity others were shown in between, and never of one that is new.
ResendIsMarked ==
  \A i \in DOMAIN heard :
    /\ Earlier(i) = {} => heard[i].resent = 1
    /\ Earlier(i) # {} /\ Cardinality(Since(i)) < Capacity => heard[i].resent > 1
=============================================================================
