------------------------------ MODULE Assembly ------------------------------
(***************************************************************************)
(* build_bus_from_config: the daemon's configuration and the fragments of  *)
(* endpoints.d become a bus with its endpoints, each agent with the tools  *)
(* of the endpoints it names (a webcam, a voice, a briefs orchestrator).   *)
(* One being's mistake should not keep the others from starting: most are  *)
(* passed over, some still end the boot.                                   *)
(***************************************************************************)
EXTENDS Naturals, Sequences, SequencesExt

CONSTANTS
  Entry,      \* endpoint entries there may be
  Attr,       \* of each: name, valid (its schema), known (its type), builds
              \* (its constructor and protocol), wants (a name, or ""), offers
  Mains,      \* the choices for agent_core.yaml: endpoints (a sequence of
              \* entries), null (the key has no value), sound (the rest)
  Fragments   \* the choices for a fragment: reads (a file of UTF-8), parses,
              \* mapping, list, endpoints

VARIABLES
  main, fragments,
  at,          \* "merging", "validating", "registering", "wiring", "up", "failed"
  next,        \* the fragment or entry that is next
  merged,      \* raw["endpoints"]
  registered,  \* the entries whose endpoints the bus has
  tools        \* of each registered entry: the endpoints whose tools it mounts

vars == <<main, fragments, at, next, merged, registered, tools>>

Init ==
  /\ main \in Mains
  /\ fragments \in {<<>>} \cup {<<f>> : f \in Fragments} \cup Fragments \X Fragments
  /\ at = "merging" /\ next = 1
  /\ merged = main.endpoints
  /\ registered = {} /\ tools = {}

Fail == at' = "failed" /\ UNCHANGED <<main, fragments, next, merged, registered, tools>>

----------------------------------------------------------------------------
(* Fragments                                                               *)

\* Passed over: a fragment that does not parse, or whose endpoints are no list.
Quarantined(f) == f.reads /\ (~ f.parses \/ (f.mapping /\ ~ f.list))

\* Not caught: a fragment that cannot be read or is not UTF-8, one that is no
\* mapping, and a main file whose key has no value when there is a list to add
\* to it.
Crashes(f) == ~ f.reads \/ (f.parses /\ (~ f.mapping \/ (f.list /\ main.null)))

Fragment == fragments[next]

PassOver ==
  /\ at = "merging" /\ next <= Len(fragments) /\ Quarantined(Fragment)
  /\ next' = next + 1
  /\ UNCHANGED <<main, fragments, at, merged, registered, tools>>

Merge ==
  /\ at = "merging" /\ next <= Len(fragments)
  /\ ~ Quarantined(Fragment) /\ ~ Crashes(Fragment)
  /\ merged' = merged \o Fragment.endpoints
  /\ next' = next + 1
  /\ UNCHANGED <<main, fragments, at, registered, tools>>

MergeFails == at = "merging" /\ next <= Len(fragments) /\ Crashes(Fragment) /\ Fail

Merged ==
  /\ at = "merging" /\ next > Len(fragments)
  /\ at' = "validating" /\ next' = 1
  /\ UNCHANGED <<main, fragments, merged, registered, tools>>

----------------------------------------------------------------------------
(* Entries                                                                 *)

\* DaemonConfig.model_validate takes all or nothing; the bus hooks, the audit
\* and the address are looked at here as well.
Acceptable ==
  /\ main.sound /\ ~ main.null
  /\ \A i \in DOMAIN merged : Attr[merged[i]].valid

Validate ==
  /\ at = "validating"
  /\ IF Acceptable
     THEN at' = "registering" /\ UNCHANGED <<main, fragments, next, merged, registered, tools>>
     ELSE Fail

Named(n) == {e \in registered : Attr[e].name = n}

Builds(e) == Attr[e].known /\ Attr[e].builds

\* An entry that cannot be built is passed over, whatever its name.
Register ==
  /\ at = "registering" /\ next <= Len(merged)
  /\ LET e == merged[next] IN
     /\ Builds(e) => Named(Attr[e].name) = {}
     /\ registered' = IF Builds(e) THEN registered \cup {e} ELSE registered
  /\ next' = next + 1
  /\ UNCHANGED <<main, fragments, at, merged, tools>>

\* Mutant: the name is looked at first.
NameTakenByAny ==
  /\ at = "registering" /\ next <= Len(merged)
  /\ Named(Attr[merged[next]].name) # {}
  /\ Fail

NameTaken ==
  /\ at = "registering" /\ next <= Len(merged)
  /\ Builds(merged[next]) /\ Named(Attr[merged[next]].name) # {}
  /\ Fail

Registered ==
  /\ at = "registering" /\ next > Len(merged)
  /\ at' = "wiring"
  /\ UNCHANGED <<main, fragments, next, merged, registered, tools>>

----------------------------------------------------------------------------
(* Wiring                                                                  *)

\* raw_endpoint_configs has the last entry of a name, also when it was passed
\* over and another of that name was not.
Configured(e) ==
  LET same == {i \in DOMAIN merged : Attr[merged[i]].name = Attr[e].name}
  IN  merged[CHOOSE i \in same : \A j \in same : j <= i]

Wanted(e) == Attr[Configured(e)].wants

Offering(n) == {e \in Named(n) : Attr[e].offers}

\* An agent names an endpoint that is not there or offers nothing: ValueError.
Wire ==
  /\ at = "wiring"
  /\ IF \E e \in registered : Wanted(e) # "" /\ Offering(Wanted(e)) = {}
     THEN Fail
     ELSE /\ tools' = UNION {{<<e, p>> : p \in Offering(Wanted(e))} :
                             e \in {e \in registered : Wanted(e) # ""}}
          /\ at' = "up"
          /\ UNCHANGED <<main, fragments, next, merged, registered>>

Next ==
  \/ PassOver \/ Merge \/ MergeFails \/ Merged
  \/ Validate \/ Register \/ NameTaken \/ Registered \/ Wire

Spec == Init /\ [][Next]_vars

----------------------------------------------------------------------------
(* Properties                                                              *)

\* The entries of what was not passed over.
Given ==
  Range(main.endpoints) \cup
  UNION {Range(f.endpoints) : f \in {f \in Range(fragments) : ~ Quarantined(f)}}

\* The entries that were not passed over, and the only ones that can be wired.
Sound == {e \in Given : Builds(e)}

\* A boot ends early for one of these only: the main file, a fragment that
\* cannot be read or is no mapping, an entry of the wrong form, a name used
\* twice by entries that can be built, a name that leads nowhere.
Culprit ==
  \/ ~ main.sound \/ main.null
  \/ \E f \in Range(fragments) : Crashes(f)
  \/ \E e \in Given : ~ Attr[e].valid
  \/ \E i, j \in DOMAIN merged :
       i # j /\ Attr[merged[i]].name = Attr[merged[j]].name /\ {merged[i], merged[j]} \subseteq Sound
  \/ \E e \in Given : Attr[e].wants # "" /\
       ~ \E p \in Sound : Attr[p].name = Attr[e].wants /\ Attr[p].offers

\* Another entry of the name of e comes after it: one that was passed over, as
\* two that can be built end the boot. Its params count for e.
Displaced(e) ==
  \E i, j \in DOMAIN merged :
    i < j /\ merged[i] = e /\ merged[j] # e /\ Attr[merged[j]].name = Attr[e].name

\* One being's mistake does not keep the others from starting, but for those,
\* and each agent has the tools its own entry names and no others, also when an
\* entry of its name was passed over before it, but not when one was after it.
MistakesAreContained ==
  /\ at = "failed" => Culprit
  /\ at = "up" =>
       /\ registered = Sound
       /\ \A e \in registered : ~ Displaced(e) =>
            \A p \in registered :
              <<e, p>> \in tools <=> Attr[e].wants # "" /\ Attr[p].name = Attr[e].wants
=============================================================================
