------------------------------- MODULE Venvs -------------------------------
(***************************************************************************)
(* The versioned environments of one home and the stable link to one of    *)
(* them: `agent-core venv build` (packages/core/src/agent_core/venv/       *)
(* builder.py) and the doctor's collection of what is left over            *)
(* (daemon/venv_gc.py). A build may run while the doctor does, and either  *)
(* may be cut off.                                                         *)
(***************************************************************************)
EXTENDS Naturals, FiniteSets

CONSTANTS
  Newest,   \* versions are 1 .. Newest; 0 stands for no version
  MaxCuts   \* bound: how often a build or the doctor is cut off

VARIABLES
  dir,      \* venvs/<version>: "none", "empty" (no python), "bare", "whole"
  link,     \* the version .venv points to
  replace,  \* how the link is replaced: "renamed", or "unlinked" first (Windows)
  build,    \* the build: where it is and of which version
  doctor,   \* the doctor: where it is, and what its report still lists
  crossed,  \* monitor: directories reported while they were built on, or before
  cuts

vars == <<dir, link, replace, build, doctor, crossed, cuts>>

Version == 1 .. Newest

NoBuild == [at |-> "idle", version |-> 0]
NoDoctor == [at |-> "idle", superseded |-> {}, broken |-> FALSE, orphans |-> {}]

Init ==
  /\ dir = [v \in Version |-> "none"]
  /\ link = 0
  /\ replace \in {"renamed", "unlinked"}
  /\ build = NoBuild /\ doctor = NoDoctor
  /\ crossed = {} /\ cuts = 0

Building(where) == build.at = where
Step(where) == build' = [build EXCEPT !.at = where]

\* Collected directories that a build works on are no longer as reported.
Touch(v) ==
  crossed' = IF v \in doctor.superseded \cup doctor.orphans THEN crossed \cup {v} ELSE crossed

----------------------------------------------------------------------------
(* build_being_venv                                                        *)

\* The version is that of the agent-core installed now, newer or older than
\* the one built last.
Begin(v) ==
  /\ Building("idle")
  /\ build' = [at |-> "create", version |-> v]
  /\ UNCHANGED <<dir, link, replace, doctor, crossed, cuts>>

\* create_venv: nothing where there is a python; uv may fail half way.
Create ==
  /\ Building("create")
  /\ LET v == build.version IN
     /\ Touch(v)
     /\ IF dir[v] \in {"bare", "whole"} THEN Step("install") /\ UNCHANGED dir
        ELSE \/ dir' = [dir EXCEPT ![v] = "bare"] /\ Step("install")
             \/ dir' = [dir EXCEPT ![v] = "empty"] /\ build' = NoBuild
  /\ UNCHANGED <<link, replace, doctor, cuts>>

\* install_sidecars: pip fails, or returns and has installed packages that
\* can be imported or not.
Install ==
  /\ Building("install")
  /\ LET v == build.version IN
     /\ Touch(v)
     /\ \/ dir[v] = "bare" /\ dir' = [dir EXCEPT ![v] = "whole"] /\ Step("verify")
        \/ dir[v] \in {"bare", "whole"} /\ Step("verify") /\ UNCHANGED dir
        \/ build' = NoBuild /\ UNCHANGED dir
  /\ UNCHANGED <<link, replace, doctor, cuts>>

\* verify_sidecars raises where the import fails.
Verify ==
  /\ Building("verify")
  /\ IF dir[build.version] = "whole" THEN Step("repoint") ELSE build' = NoBuild
  /\ UNCHANGED <<dir, link, replace, doctor, crossed, cuts>>

\* atomic_repoint: a rename over the old link; on Windows the junction is
\* removed first and made by a second command, which may fail.
Repoint ==
  /\ Building("repoint")
  /\ IF replace = "unlinked" /\ link # 0
       THEN link' = 0 /\ UNCHANGED build
       ELSE /\ link' \in {build.version} \cup (IF replace = "unlinked" THEN {0} ELSE {})
            /\ build' = NoBuild
  /\ UNCHANGED <<dir, replace, doctor, crossed, cuts>>

----------------------------------------------------------------------------
(* The doctor: run_venv_doctor makes a report, then --fix works through it *)

Present == {v \in Version : dir[v] # "none"}

NewestOf(set) == {v \in set : \A w \in set : v >= w}

\* Mutant: the two newest are kept.
KeepNewest(current) ==
  NewestOf(Present) \cup NewestOf(Present \ NewestOf(Present))

\* The current one and the newest other; where the link names none of them
\* the two newest.
Keep(current) ==
  IF current \in Present THEN {current} \cup NewestOf(Present \ {current})
  ELSE NewestOf(Present) \cup NewestOf(Present \ NewestOf(Present))

\* find_superseded_venvs
Superseded ==
  IF Cardinality(Present) <= 2 THEN {} ELSE Present \ Keep(link)

\* find_broken_stable_link
Broken == link # 0 /\ dir[link] = "none"

\* find_orphaned_partial_builds
Orphans == {v \in Version : dir[v] = "empty"}

Report ==
  /\ doctor.at = "idle"
  /\ doctor' = [at |-> "prune", superseded |-> Superseded, broken |-> Broken, orphans |-> Orphans]
  /\ crossed' = {v \in crossed : v \in {link, build.version} /\ dir[v] # "whole"}
                  \cup ({build.version} \cap (Superseded \cup Orphans))
  /\ UNCHANGED <<dir, link, replace, build, cuts>>

\* rmtree: an OSError, or a doctor that is cut off, may leave a part.
Remains ==
  [none |-> {"none"}, empty |-> {"none", "empty"}, bare |-> {"none", "empty", "bare"},
   whole |-> {"none", "empty", "bare", "whole"}]

Remove(v) == \E rest \in Remains[dir[v]] : dir' = [dir EXCEPT ![v] = rest]

\* prune_superseded_venvs: one after the other.
Prune ==
  /\ doctor.at = "prune"
  /\ IF doctor.superseded = {}
       THEN doctor' = [doctor EXCEPT !.at = "unlink"] /\ UNCHANGED dir
       ELSE \E v \in doctor.superseded :
              /\ doctor' = [doctor EXCEPT !.superseded = @ \ {v}]
              /\ Remove(v)
  /\ UNCHANGED <<link, replace, build, crossed, cuts>>

\* remove_broken_stable_link looks again before it removes.
Unlink ==
  /\ doctor.at = "unlink"
  /\ doctor' = [doctor EXCEPT !.at = "sweep"]
  /\ link' = IF doctor.broken /\ Broken THEN 0 ELSE link
  /\ UNCHANGED <<dir, replace, build, crossed, cuts>>

\* remove_orphaned_partial_builds does not.
Sweep ==
  /\ doctor.at = "sweep"
  /\ IF doctor.orphans = {}
       THEN doctor' = NoDoctor /\ UNCHANGED dir
       ELSE \E v \in doctor.orphans :
              /\ doctor' = [doctor EXCEPT !.orphans = @ \ {v}]
              /\ Remove(v)
  /\ UNCHANGED <<link, replace, build, crossed, cuts>>

\* Either process ends where it is.
CutOff ==
  /\ cuts < MaxCuts
  /\ cuts' = cuts + 1
  /\ \/ ~Building("idle") /\ build' = NoBuild /\ UNCHANGED doctor
     \/ doctor.at # "idle" /\ doctor' = NoDoctor /\ UNCHANGED build
  /\ UNCHANGED <<dir, link, replace, crossed>>

Next ==
  \/ \E v \in Version : Begin(v)
  \/ Create \/ Install \/ Verify \/ Repoint
  \/ Report \/ Prune \/ Unlink \/ Sweep
  \/ CutOff

Spec == Init /\ [][Next]_vars

----------------------------------------------------------------------------
(* Properties.                                                             *)

\* The stable link only ever leads to an environment whose packages import,
\* whatever failed or was cut off and whatever the doctor collected, in
\* upgrades and in rollbacks to an older version. The one exception: a build
\* works on a directory which a doctor that is still at work has reported.
LinkIsWhole == link # 0 => dir[link] = "whole" \/ link \in crossed
=============================================================================
