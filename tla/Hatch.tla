-------------------------------- MODULE Hatch --------------------------------
(***************************************************************************)
(* hatch-being: a vault, two fragments of the daemon's configuration, an   *)
(* environment and .mcp.json are written for a new being, and what was     *)
(* written is removed again when a step fails. Or, with --init-missing,    *)
(* what a vault lacks is added to it. Then the daemon is restarted.        *)
(*                                                                         *)
(* Between hatches the being lives in its vault and the operator moves     *)
(* files aside.                                                            *)
(***************************************************************************)
EXTENDS Naturals, Sequences, SequencesExt

CONSTANTS
  Vault,       \* the vault's templates, in the order they are written
  Required,    \* those of them that are load-bearing
  MaxHatches   \* bound: hatches

VARIABLES
  file,     \* of each path: "none", "written" by a hatch, or "grown"
  root,     \* the vault's directory is there
  at,       \* "idle", the path that is next, "validate", "reload", "probe"
  topUp,    \* --init-missing
  tracked,  \* what this hatch wrote and will take back
  daemon,   \* "up", "down"
  told,     \* how the last hatch ended
  hatches

vars == <<file, root, at, topUp, tracked, daemon, told, hatches>>

\* The daemon's side, left out of a top-up.
Outside == <<"endpoints.d", "jobs.d", "venv", "mcp.json">>

Order == Vault \o Outside

Path == Range(Order)

InVault == Range(Vault) \cup {"mcp.json"}

Init ==
  /\ file = [p \in Path |-> "none"] /\ root = FALSE
  /\ at = "idle" /\ topUp = FALSE /\ tracked = {}
  /\ daemon = "up" /\ told = "nothing" /\ hatches = 0

After(p) ==
  LET i == SelectInSeq(Order, LAMBDA q : q = p)
  IN  IF i = Len(IF topUp THEN Vault ELSE Order) THEN "validate" ELSE Order[i + 1]

----------------------------------------------------------------------------
(* A hatch                                                                 *)

\* There is a vault and nothing was said of topping it up.
Refuse ==
  /\ at = "idle" /\ root /\ hatches < MaxHatches
  /\ told' = "exists" /\ hatches' = hatches + 1
  /\ UNCHANGED <<file, root, at, topUp, tracked, daemon>>

Begin ==
  /\ at = "idle" /\ hatches < MaxHatches
  /\ topUp' \in BOOLEAN /\ (root => topUp')
  /\ at' = Head(Order) /\ tracked' = {}
  /\ hatches' = hatches + 1
  /\ UNCHANGED <<file, root, daemon, told>>

\* A fragment that is there is not overwritten: the hatch fails.
Taken(p) == p \in {"endpoints.d", "jobs.d"} /\ file[p] # "none"

\* The directory of the vault comes with its first file, and is not tracked.
\* The two fragments are tracked when both are written.
Write ==
  /\ at \in Path /\ ~ Taken(at)
  /\ ~ (topUp /\ file[at] # "none")
  /\ file' = [file EXCEPT ![at] = "written"]
  /\ root' = TRUE
  /\ tracked' = CASE at = "endpoints.d" -> tracked
                  [] at = "jobs.d"      -> tracked \cup {"endpoints.d", "jobs.d"}
                  [] OTHER              -> tracked \cup {at}
  /\ at' = After(at)
  /\ UNCHANGED <<topUp, daemon, told, hatches>>

\* A top-up passes over what is there.
Skip ==
  /\ at \in Path /\ topUp /\ file[at] # "none"
  /\ at' = After(at)
  /\ UNCHANGED <<file, root, topUp, tracked, daemon, told, hatches>>

\* Mutant: what the hatch passed over is taken back as well.
RollbackOfAll ==
  /\ file' = [p \in Path |-> IF p \in Range(Vault) THEN "none" ELSE file[p]]
  /\ at' = "idle" /\ told' = "failed"
  /\ UNCHANGED <<root, topUp, tracked, daemon, hatches>>

Rollback ==
  /\ file' = [p \in Path |-> IF p \in tracked THEN "none" ELSE file[p]]
  /\ at' = "idle" /\ told' = "failed"
  /\ UNCHANGED <<root, topUp, tracked, daemon, hatches>>

\* A template, a scaffold, the disk, the environment's builder.
WriteFails == at \in Path /\ Rollback

\* A load-bearing file must be there, and the fragments of a new being.
Sound ==
  /\ \A p \in Required : file[p] # "none"
  /\ topUp \/ (file["endpoints.d"] # "none" /\ file["jobs.d"] # "none")

\* A load-bearing file may be there and empty, a fragment not to be parsed.
ValidateFails == at = "validate" /\ Rollback

Validate ==
  /\ at = "validate" /\ Sound
  /\ \/ at' = "idle" /\ told' = "hatched"       \* a top-up, or --no-daemon-reload
     \/ ~ topUp /\ at' = "reload" /\ UNCHANGED told
  /\ UNCHANGED <<file, root, topUp, tracked, daemon, hatches>>

----------------------------------------------------------------------------
(* The daemon                                                              *)

\* No configuration of a daemon is there: nothing is stopped.
NoDaemon ==
  /\ at = "reload"
  /\ at' = "idle" /\ told' = "unreachable"
  /\ UNCHANGED <<file, root, topUp, tracked, daemon, hatches>>

\* Stopped as well as it goes, then started.
Reload ==
  /\ at = "reload"
  /\ \/ daemon' = "up" /\ at' = "probe" /\ UNCHANGED told
     \/ daemon' \in {"up", "down"} /\ at' = "idle" /\ told' = "start_failed"
  /\ UNCHANGED <<file, root, topUp, tracked, hatches>>

\* A daemon that does not answer in time may be starting, or gone: that is no
\* failure, and the exit code says so.
Probe ==
  /\ at = "probe"
  /\ at' = "idle"
  /\ \/ told' \in {"hatched", "missing"} /\ UNCHANGED daemon
     \/ told' = "unreachable" /\ daemon' \in {"up", "down"}
  /\ UNCHANGED <<file, root, topUp, tracked, hatches>>

----------------------------------------------------------------------------
(* Between hatches                                                         *)

Grow ==
  /\ at = "idle"
  /\ \E p \in Range(Vault) : file[p] = "written" /\ file' = [file EXCEPT ![p] = "grown"]
  /\ UNCHANGED <<root, at, topUp, tracked, daemon, told, hatches>>

MoveVault ==
  /\ at = "idle" /\ root
  /\ root' = FALSE
  /\ file' = [p \in Path |-> IF p \in InVault THEN "none" ELSE file[p]]
  /\ UNCHANGED <<at, topUp, tracked, daemon, told, hatches>>

MoveFile ==
  /\ at = "idle"
  /\ \E p \in Path : file[p] # "none" /\ file' = [file EXCEPT ![p] = "none"]
  /\ UNCHANGED <<root, at, topUp, tracked, daemon, told, hatches>>

Next ==
  \/ Refuse \/ Begin \/ Write \/ Skip \/ WriteFails \/ Validate \/ ValidateFails
  \/ NoDaemon \/ Reload \/ Probe
  \/ Grow \/ MoveVault \/ MoveFile

Spec == Init /\ [][Next]_vars

----------------------------------------------------------------------------
(* Properties                                                              *)

\* What a being made of its vault outlives every hatch and every rollback:
\* only the operator moves it.
GrowthIsKept ==
  [][\A p \in Path : at # "idle" /\ file[p] = "grown" => file'[p] = "grown"]_vars
=============================================================================
