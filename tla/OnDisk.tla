------------------------------- MODULE OnDisk -------------------------------
(***************************************************************************)
(* The parts where somebody relies on what is on disk: the daemon's home   *)
(* and its environments, the memory compiler's log, the backups, the       *)
(* configuration a boot begins with, the hatchery and the vault. They share*)
(* no variable; here they are put side by side, so that one module can     *)
(* state, check and prove what is claimed of them.                         *)
(***************************************************************************)
EXTENDS Naturals, Sequences

CONSTANTS
  \* nothing there, in several of them
  None,
  \* DaemonHome
  Operator, Pid, HomeDisturbances,
  \* Venvs
  Newest, MaxCuts,
  \* MemoryLog
  Context, Session, MaxCrashes,
  \* Backups
  HourlyKeep, DailyKeep, LastInstant, BackupMishaps,
  \* Assembly
  Entry, Attr, Mains, Fragments,
  \* Hatch
  Template, Required, MaxHatches,
  \* Vault
  Process, Service, VaultMishaps

VARIABLES
  pidFile, process, python, env, cache, command, headless, stray, homeUsed,
  dir, link, replace, build, doctor, crossed, cuts,
  recordedSession, contextFile, flush, last, header, daily, failed, evening, compile, read,
  ingested, knowledge, skipped, truncated, crashes,
  clock, shelf, whole, taken, pruning, backupsUsed,
  main, fragments, stage, next, merged, registered, tools,
  planted, root, step, topUp, written, daemon, report, hatches,
  database, keyring, key, data, dotenv, scrubbed, where, uses, held, saved, mixed, orphaned, vaultUsed

H == INSTANCE DaemonHome WITH MaxDisturbances <- HomeDisturbances, used <- homeUsed

V == INSTANCE Venvs

M == INSTANCE MemoryLog WITH
  session <- recordedSession, file <- contextFile, log <- daily, seen <- read

B == INSTANCE Backups WITH
  MaxTime <- LastInstant, MaxMishaps <- BackupMishaps,
  now <- clock, dir <- shelf, used <- backupsUsed

A == INSTANCE Assembly WITH at <- stage

G == INSTANCE Hatch WITH
  Vault <- Template, file <- planted, at <- step, tracked <- written, told <- report

S == INSTANCE Vault WITH
  MaxMishaps <- VaultMishaps,
  env <- dotenv, at <- where, crossed <- mixed, used <- vaultUsed

\* Nothing is none of the things there are; the vault's templates and the files
\* outside of it have paths of their own, and neither is a name of a step.
ASSUME OnDiskAssumption ==
  /\ None \notin Pid \cup Process
  /\ \A s \in SUBSET Context : None # s
  /\ \A s \in SUBSET Service : None # [has |-> s]
  /\ Newest \in Nat /\ LastInstant \in Nat /\ DailyKeep \in Nat
  /\ \A m \in Mains : m.endpoints \in Seq(Entry)
  /\ \A f \in Fragments : f.endpoints \in Seq(Entry)
  /\ Template \in Seq(G!Range(Template))
  /\ {"idle", "validate"} \cap G!Path = {}
  /\ G!Range(Template) \cap G!Range(G!Outside) = {}

homeVars == <<pidFile, process, python, env, cache, command, headless, stray, homeUsed>>
venvVars == <<dir, link, replace, build, doctor, crossed, cuts>>
memoryVars ==
  <<recordedSession, contextFile, flush, last, header, daily, failed, evening, compile, read,
    ingested, knowledge, skipped, truncated, crashes>>
backupVars == <<clock, shelf, whole, taken, pruning, backupsUsed>>
bootVars == <<main, fragments, stage, next, merged, registered, tools>>
hatchVars == <<planted, root, step, topUp, written, daemon, report, hatches>>
vaultVars ==
  <<database, keyring, key, data, dotenv, scrubbed, where, uses, held, saved, mixed, orphaned,
    vaultUsed>>

----------------------------------------------------------------------------
(* Properties, each stated and explained in its component's module         *)

\* Every daemon can be stopped: DaemonHome.
OneDaemon == H!OneDaemon

\* A daemon keeps the environment it runs from: DaemonHome.
LiveVenvIsKept == H!LiveVenvIsKept

\* The stable link leads to a whole environment: Venvs.
LinkIsWhole == V!LinkIsWhole

\* What a hook wrote is kept until it is in the log: MemoryLog.
NothingIsForgotten == M!NothingIsForgotten

\* The last snapshot of a day stays: Backups.
LastOfDayIsKept == B!LastOfDayIsKept

\* A mistake in the configuration stays with its being: Assembly.
MistakesAreContained == A!MistakesAreContained

\* What a being made of its vault is kept: Hatch.
GrowthIsKept == G!GrowthIsKept

\* Neither the password nor a secret is lost: Vault.
NothingIsLost == S!NothingIsLost
=============================================================================
