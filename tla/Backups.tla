------------------------------- MODULE Backups -------------------------------
(***************************************************************************)
(* The snapshots of one store: snapshot_store writes one, apply_retention  *)
(* deletes those no rule keeps. A snapshot is the instant in its name; an  *)
(* hour is two instants and a day two hours.                               *)
(*                                                                         *)
(* Each store has snapshots of its own, told apart by the name.            *)
(***************************************************************************)
EXTENDS Naturals, FiniteSets

CONSTANTS
  HourlyKeep, DailyKeep,
  MaxTime,     \* bound: instants
  MaxMishaps   \* bound: cut-off snapshots and clocks that are set back

VARIABLES
  now,
  dir,      \* the snapshots in backup_dir
  whole,    \* those of them VACUUM INTO finished
  taken,    \* every snapshot there ever was
  pruning,  \* apply_retention is to run
  used

vars == <<now, dir, whole, taken, pruning, used>>

Hour == [t \in 0..MaxTime |-> t \div 2]
Day == [t \in 0..MaxTime |-> t \div 4]

Mishap == used < MaxMishaps /\ used' = used + 1

Init ==
  /\ now = 0 /\ dir = {} /\ whole = {} /\ taken = {}
  /\ pruning = FALSE /\ used = 0

\* An hour passes, or less: the daemon takes one as it starts, too.
Wait ==
  /\ ~ pruning
  /\ now' \in now + 1 .. MaxTime
  /\ UNCHANGED <<dir, whole, taken, pruning, used>>

SetBack ==
  /\ ~ pruning /\ Mishap
  /\ now' \in 0 .. now
  /\ UNCHANGED <<dir, whole, taken, pruning>>

\* VACUUM INTO refuses a file that exists: run_backup logs it.
Snapshot ==
  /\ ~ pruning /\ now \notin dir
  /\ dir' = dir \cup {now} /\ whole' = whole \cup {now} /\ taken' = taken \cup {now}
  /\ pruning' = TRUE
  /\ UNCHANGED <<now, used>>

\* The process ends in VACUUM INTO, or after it.
CutOff ==
  /\ ~ pruning /\ now \notin dir /\ Mishap
  /\ dir' = dir \cup {now} /\ taken' = taken \cup {now}
  /\ whole' \in {whole, whole \cup {now}}
  /\ UNCHANGED <<now, pruning>>

\* The key of unit (Hour or Day) is new as the list is gone through from the
\* newest snapshot down, and fewer than n keys were seen before it.
LastOf(unit, n, s) ==
  /\ ~ \E t \in dir : t > s /\ unit[t] = unit[s]
  /\ Cardinality({unit[t] : t \in {t \in dir : t > s}}) < n

\* Mutant: the list is gone through from the oldest up.
KeptFirst(s) ==
  \/ /\ ~ \E t \in dir : t < s /\ Hour[t] = Hour[s]
     /\ Cardinality({Hour[t] : t \in {t \in dir : t > s}}) < HourlyKeep
  \/ /\ ~ \E t \in dir : t < s /\ Day[t] = Day[s]
     /\ Cardinality({Day[t] : t \in {t \in dir : t > s}}) < DailyKeep

Kept(s) == LastOf(Hour, HourlyKeep, s) \/ LastOf(Day, DailyKeep, s)

\* apply_retention deletes one file after the other; deleting fails for the
\* rest when it fails for one.
Prune ==
  /\ pruning
  /\ \E gone \in SUBSET {s \in dir : ~ Kept(s)} :
       dir' = dir \ gone /\ whole' = whole \ gone
  /\ pruning' = FALSE
  /\ UNCHANGED <<now, taken, used>>

Next == Wait \/ SetBack \/ Snapshot \/ CutOff \/ Prune

Spec == Init /\ [][Next]_vars

----------------------------------------------------------------------------
(* Properties                                                              *)

\* Of each of the last DailyKeep days with a snapshot the last one stays,
\* however often the rest was pruned. It may be one that was cut off:
\* apply_retention looks at names alone.
LastOfDayIsKept ==
  \A s \in taken :
    (/\ \A t \in taken : Day[t] = Day[s] => t <= s
     /\ Cardinality({Day[t] : t \in {t \in taken : t > s}}) < DailyKeep)
    => s \in dir
=============================================================================
