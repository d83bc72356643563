------------------------------ MODULE Chunking ------------------------------
(***************************************************************************)
(* smart_chunk_discord: a text too long for one Discord message is cut     *)
(* into parts, at a boundary near the end of the window where there is     *)
(* one, never inside a link or inline code if that can be helped; a fence  *)
(* that is open at a cut is closed there and opened again in the next      *)
(* part.                                                                   *)
(*                                                                         *)
(* A text is a sequence of glyphs: a letter "x", a space "s", a newline    *)
(* "n", three ticks "f", one tick "t", and "u", a letter with the link it   *)
(* is in going on to its left. A sentence's end is a space like any other. *)
(* The counters (i/n) are left out: they are added only where they fit.    *)
(***************************************************************************)
EXTENDS Naturals, Sequences, FiniteSetsExt, SequencesExt

CONSTANTS
  Glyph,     \* the glyphs a text is made of
  MaxText,   \* bound: the length of a text
  Limit,     \* DISCORD_CHUNK_TARGET
  TailSearch,
  HardLimit, \* DISCORD_CONTENT_LIMIT
  Fence,     \* the length of what opens or closes a fence at a cut
  MaxChunks  \* MAX_CHUNKS

VARIABLES
  text,    \* the text
  pos,     \* how much of it is cut
  parts,   \* the parts so far: from, to, and what is added around
  outcome  \* "none", "cutting", "sent", or "refused" with a ValueError

vars == <<text, pos, parts, outcome>>

Init == text = <<>> /\ pos = 0 /\ parts = <<>> /\ outcome = "none"

----------------------------------------------------------------------------
(* _scan_markdown_states, _link_boundary_mask: boundary i is after i glyphs *)

\* A fence counts at the start of a line and not in inline code; anywhere else
\* outside a code block, and also where it has just closed one, it is a run of
\* ticks that opens or closes inline code. So the first block to be closed
\* leaves the scanner in inline code, where it takes the next fence for its end.
Ticks(st, run) ==
  IF st.fence THEN st
  ELSE [st EXCEPT !.code = IF @ = "none" THEN run ELSE IF @ = run THEN "none" ELSE @]

States ==
  LET Fenced(st, lineStart) ==
        IF lineStart /\ st.code = "none" THEN Ticks([st EXCEPT !.fence = ~@], "f")
        ELSE Ticks(st, "f")
      f[i \in 0..Len(text)] ==
        IF i = 0 THEN [fence |-> FALSE, code |-> "none"]
        ELSE CASE text[i] = "f" -> Fenced(f[i - 1], i = 1 \/ text[i - 1] = "n")
               [] text[i] = "t" -> Ticks(f[i - 1], "t")
               [] OTHER -> f[i - 1]
  IN f

Safe(states, i) == states[i].code = "none" /\ (i < Len(text) => text[i + 1] # "u")

----------------------------------------------------------------------------
(* _find_soft_split_with_markdown                                          *)

\* Boundaries after a separator of a kind, the best kinds first.
After(kind, i) ==
  CASE kind = 1 -> text[i] = "n" /\ text[i + 1] = "n"
    [] kind = 2 -> text[i] = "n"
    [] kind = 3 -> text[i] = "s"

\* The separator lies in the window as a whole.
Fits(kind, i, end) == IF kind = 1 THEN i + 1 <= end ELSE i <= end

SoftSplit(states) ==
  LET end == pos + Limit
      From(lo) == {c \in (1..3) \X (lo + 1..end) :
                    Fits(c[1], c[2], end) /\ After(c[1], c[2]) /\ Safe(states, c[2])}
      Best(cuts) == Max({c[2] : c \in {d \in cuts : \A e \in cuts : d[1] <= e[1]}})
      near == From(IF Limit > TailSearch THEN end - TailSearch ELSE pos)
      hard == {i \in pos + 1..end : Safe(states, i)}
  IN CASE near # {} -> Best(near)
       [] near = {} /\ From(pos) # {} -> Best(From(pos))
       [] near = {} /\ From(pos) = {} -> IF hard # {} THEN Max(hard) ELSE end

----------------------------------------------------------------------------
(* smart_chunk_discord                                                     *)

Width(states, from, to) ==
  to - from + (IF states[from].fence THEN Fence ELSE 0) + (IF states[to].fence THEN Fence ELSE 0)

\* rstrip("\n"): the end of the piece without its last newlines, or pos when
\* it has nothing else.
Trimmed(to) == Max({pos} \cup {i \in pos + 1..to : text[i] # "n"})

\* Newlines at the start of the next part are skipped, but not in a fence.
Skip(states, to) ==
  IF states[to].fence THEN to
  ELSE Max({i \in to..Len(text) : \A j \in to + 1..i : text[j] = "n"})

\* Mutant: the piece shrinks and the position does not.
ShrunkPieceOnly(states, to) ==
  LET shorter == {i \in pos + 1..to - 1 : Safe(states, i) /\ Width(states, pos, i) <= HardLimit}
  IN IF Width(states, pos, to) > HardLimit /\ to - pos > 1 /\ shorter # {}
     THEN [piece |-> Max(shorter), next |-> to] ELSE [piece |-> to, next |-> to]

\* A part that the fences make too long is cut where it fits, if it fits at all.
Shrunk(states, to) ==
  LET shorter == {i \in pos + 1..to - 1 : Safe(states, i) /\ Width(states, pos, i) <= HardLimit}
      cut == IF Width(states, pos, to) > HardLimit /\ to - pos > 1 /\ shorter # {}
             THEN Max(shorter) ELSE to
  IN [piece |-> cut, next |-> cut]

\* deliver() has a text to send.
Take ==
  /\ outcome = "none"
  /\ \E n \in 1..MaxText : text' \in [1..n -> Glyph]
  /\ outcome' = "cutting"
  /\ UNCHANGED <<pos, parts>>

\* A piece that is all newlines is kept as it is, and they are skipped.
Cut ==
  /\ outcome = "cutting" /\ pos < Len(text)
  /\ LET states == States
         whole == Len(text) <= Limit
         to == IF Len(text) - pos <= Limit THEN Len(text) ELSE SoftSplit(states)
         plain == ~whole /\ ~states[pos].fence /\ ~states[to].fence
         end == IF plain /\ Trimmed(to) > pos THEN Trimmed(to) ELSE to
         cut == IF whole THEN [piece |-> to, next |-> to] ELSE Shrunk(states, end)
     IN /\ parts' = Append(parts,
             [from |-> pos, to |-> cut.piece,
              width |-> IF whole THEN to ELSE Width(states, pos, cut.piece)])
        /\ pos' = IF whole THEN to ELSE Skip(states, cut.next)
  /\ UNCHANGED <<text, outcome>>

\* _validate_chunks
Validate ==
  /\ outcome = "cutting" /\ pos = Len(text)
  /\ outcome' = IF Len(parts) <= MaxChunks /\ \A i \in DOMAIN parts : parts[i].width <= HardLimit
                THEN "sent" ELSE "refused"
  /\ UNCHANGED <<text, pos, parts>>

Next == Take \/ Cut \/ Validate

Spec == Init /\ [][Next]_vars

----------------------------------------------------------------------------
(* Properties                                                              *)

InParts(i) == \E k \in DOMAIN parts : parts[k].from < i /\ i <= parts[k].to

\* What is sent is the text: every glyph is in one part, the parts follow one
\* another, none exceeds what Discord takes, and only newlines outside of what
\* the scanner takes for code blocks are dropped at the cuts.
NothingLost ==
  outcome = "sent" =>
    /\ \A k \in 2..Len(parts) : parts[k - 1].to <= parts[k].from
    /\ \A k \in DOMAIN parts : parts[k].from < parts[k].to /\ parts[k].width <= HardLimit
    /\ \A i \in 1..Len(text) : InParts(i) \/ (text[i] = "n" /\ ~States[i].fence)
=============================================================================
