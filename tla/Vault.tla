-------------------------------- MODULE Vault --------------------------------
(***************************************************************************)
(* The credentials vault and its master password: in the system's keyring, *)
(* or in a file next to a key file, or still in .env, from where the first *)
(* process that looks moves it. Several processes look: the daemon, the    *)
(* adapters' tools, the operator's commands.                               *)
(*                                                                         *)
(* There is one password; the key file holds the name of the process that  *)
(* generated it. A process may be cut off between any two steps.           *)
(***************************************************************************)
EXTENDS Naturals, FiniteSets

CONSTANTS
  Process, Service,
  None,
  MaxMishaps   \* bound: processes cut off, keyrings that come and go

VARIABLES
  database,  \* None, or the services in the vault
  keyring,   \* [up, has]: the keyring answers, and has the password
  key, data, \* the key file, and the key the data file was encrypted with
  env,       \* .env has the password
  scrubbed,  \* it had it once
  at,        \* where each process is
  uses,      \* the backend each of them chose
  held,      \* the key it loaded, or the services it read
  saved,     \* services that were set and not deleted
  crossed,   \* a process wrote over what another wrote since it had looked
  orphaned,  \* init made the vault and did not come to store its password
  used

vars ==
  <<database, keyring, key, data, env, scrubbed, at, uses, held, saved, crossed, orphaned, used>>

passwords == <<keyring, key, data, env, scrubbed>>

Mishap == used < MaxMishaps /\ used' = used + 1

\* A vault that is there has its password in .env, from before the migration.
Init ==
  /\ database \in {None, [has |-> {}]}
  /\ env \in BOOLEAN /\ (database # None => env) /\ scrubbed = FALSE
  /\ keyring \in [up : BOOLEAN, has : {FALSE}]
  /\ key = None /\ data = None
  /\ at = [p \in Process |-> "out"]
  /\ uses = [p \in Process |-> "file"] /\ held = [p \in Process |-> None]
  /\ saved = {} /\ crossed = FALSE /\ orphaned = FALSE /\ used = 0

\* EncryptedFileStore.get: the key is that of the data.
Readable == data # None /\ key = data

Stored(p) == IF uses[p] = "keyring" THEN keyring.has ELSE Readable

Goes(p, where) == at' = [at EXCEPT ![p] = where]

\* _get_backend
Probe(p) == uses' = [uses EXCEPT ![p] = IF keyring.up THEN "keyring" ELSE "file"]

\* init has made the vault and its password is stored nowhere yet.
Unsecured(p) == at[p] \in {"creating", "writing first"}

----------------------------------------------------------------------------
(* The password                                                            *)

\* get_master_password, for a set, a get or a secret of an adapter: the
\* backend is probed.
Look(p) ==
  /\ at[p] = "out"
  /\ Probe(p) /\ Goes(p, "looking")
  /\ UNCHANGED <<database, passwords, held, saved, crossed, orphaned, used>>

Found(p) ==
  /\ at[p] = "looking" /\ Stored(p)
  /\ Goes(p, "opening")
  /\ UNCHANGED <<database, passwords, uses, held, saved, crossed, orphaned, used>>

NotStored(p) ==
  /\ at[p] = "looking" /\ ~ Stored(p)
  /\ Goes(p, "reading")
  /\ UNCHANGED <<database, passwords, uses, held, saved, crossed, orphaned, used>>

\* Not in .env either: the command fails, and secrets.get goes on to the
\* environment.
NotFound(p) ==
  /\ at[p] = "reading" /\ ~ env
  /\ Goes(p, "out")
  /\ UNCHANGED <<database, passwords, uses, held, saved, crossed, orphaned, used>>

\* set() of the backend: with the file, the key is loaded first, and made when
\* there is none. A keyring that is gone raises.
SetPassword(p) ==
  /\ (at[p] = "reading" /\ env) \/ at[p] = "creating"
  /\ \/ /\ uses[p] = "keyring" /\ keyring.up
        /\ keyring' = [keyring EXCEPT !.has = TRUE]
        /\ Goes(p, IF at[p] = "creating" THEN "out" ELSE "scrubbing")
        /\ UNCHANGED <<held, orphaned>>
     \/ /\ uses[p] = "keyring" /\ ~ keyring.up
        /\ Goes(p, "out")
        /\ orphaned' = (orphaned \/ Unsecured(p))
        /\ UNCHANGED <<keyring, held>>
     \/ /\ uses[p] = "file"
        /\ held' = [held EXCEPT ![p] = key]
        /\ Goes(p, IF at[p] = "creating" THEN "writing first"
                   ELSE IF key = None THEN "generating" ELSE "writing")
        /\ UNCHANGED <<keyring, orphaned>>
  /\ UNCHANGED <<database, key, data, env, scrubbed, uses, saved, crossed, used>>

\* Mutant: .env is scrubbed before the password is stored.
WriteKeyScrubbing(p) ==
  /\ \/ at[p] = "generating" /\ Goes(p, "writing")
     \/ at[p] = "writing first" /\ held[p] = None /\ UNCHANGED at
  /\ key' = p /\ held' = [held EXCEPT ![p] = p]
  /\ crossed' = (crossed \/ key # None)
  /\ env' = FALSE /\ scrubbed' = (scrubbed \/ env)
  /\ UNCHANGED <<database, keyring, data, uses, saved, orphaned, used>>

\* A key is made, maybe over one that was made since.
WriteKey(p) ==
  /\ \/ at[p] = "generating" /\ Goes(p, "writing")
     \/ at[p] = "writing first" /\ held[p] = None /\ UNCHANGED at
  /\ key' = p /\ held' = [held EXCEPT ![p] = p]
  /\ crossed' = (crossed \/ key # None)
  /\ UNCHANGED <<database, keyring, data, env, scrubbed, uses, saved, orphaned, used>>

WriteData(p) ==
  /\ \/ at[p] = "writing" /\ Goes(p, "scrubbing")
     \/ at[p] = "writing first" /\ held[p] # None /\ Goes(p, "out")
  /\ data' = held[p]
  /\ UNCHANGED <<database, keyring, key, env, scrubbed, uses, held, saved, crossed, orphaned, used>>

Scrub(p) ==
  /\ at[p] = "scrubbing"
  /\ env' = FALSE /\ scrubbed' = TRUE
  /\ Goes(p, "opening")
  /\ UNCHANGED <<database, keyring, key, data, uses, held, saved, crossed, orphaned, used>>

----------------------------------------------------------------------------
(* The vault                                                               *)

\* init looks whether there is a vault, and asks for a password.
Create(p) ==
  /\ at[p] = "out" /\ database = None
  /\ Goes(p, "founding")
  /\ UNCHANGED <<database, passwords, uses, held, saved, crossed, orphaned, used>>

\* set makes a vault that is not there; the others fail.
Open(p) ==
  /\ at[p] = "opening"
  /\ IF database = None
     THEN Goes(p, "making") \/ Goes(p, "out")
     ELSE Goes(p, "saving")
  /\ held' = [held EXCEPT ![p] = IF database = None THEN {} ELSE database.has]
  /\ UNCHANGED <<database, passwords, uses, saved, crossed, orphaned, used>>

\* create_database, maybe over a vault that was made since. init goes on to
\* store the password.
Make(p) ==
  /\ database' = [has |-> {}]
  /\ crossed' = (crossed \/ database # None)
  /\ \/ at[p] = "founding" /\ Goes(p, "creating") /\ Probe(p)
     \/ at[p] = "making" /\ Goes(p, "saving") /\ UNCHANGED uses
  /\ UNCHANGED <<passwords, held, saved, orphaned, used>>

\* The whole file is written, from what was read, maybe over another save.
Save(p, set) ==
  /\ at[p] = "saving"
  /\ database' = [has |-> set]
  /\ crossed' = (crossed \/ database.has # held[p])
  /\ Goes(p, "out")
  /\ UNCHANGED <<passwords, uses, held, orphaned, used>>

Set(p, s) == Save(p, held[p] \cup {s}) /\ saved' = saved \cup {s}

Delete(p, s) == Save(p, held[p] \ {s}) /\ s \in held[p] /\ saved' = saved \ {s}

\* get and list save nothing, nor does delete of what is not there.
Get(p) ==
  /\ at[p] = "saving"
  /\ Goes(p, "out")
  /\ UNCHANGED <<database, passwords, uses, held, saved, crossed, orphaned, used>>

----------------------------------------------------------------------------

CutOff(p) ==
  /\ at[p] # "out" /\ Mishap
  /\ Goes(p, "out")
  /\ orphaned' = (orphaned \/ Unsecured(p))
  /\ UNCHANGED <<database, passwords, uses, held, saved, crossed>>

\* A session with a desktop, or without one.
KeyringTurns ==
  /\ Mishap
  /\ keyring' = [keyring EXCEPT !.up = ~ @]
  /\ UNCHANGED <<database, key, data, env, scrubbed, at, uses, held, saved, crossed, orphaned>>

Next ==
  \/ \E p \in Process :
       \/ Look(p) \/ Found(p) \/ NotStored(p) \/ NotFound(p) \/ SetPassword(p)
       \/ WriteKey(p) \/ WriteData(p) \/ Scrub(p)
       \/ Create(p) \/ Open(p) \/ Make(p) \/ Get(p) \/ CutOff(p)
       \/ \E s \in Service : Set(p, s) \/ Delete(p, s)
  \/ KeyringTurns

Spec == Init /\ [][Next]_vars

----------------------------------------------------------------------------
(* Properties                                                              *)

\* A password that left .env is in a backend that can give it back, wherever
\* the process that moved it was cut off and whatever others did meanwhile. Two
\* processes that each make a key may lose it: one encrypts under the key the
\* other writes over.
PasswordIsKept == scrubbed /\ ~ crossed => (keyring.has \/ Readable)

\* A vault has its password somewhere, or will have it once init goes on; only
\* an init that ended between the two leaves a vault nobody can open.
VaultHasPassword ==
  database # None /\ ~ crossed /\ ~ orphaned =>
    env \/ keyring.has \/ Readable \/ \E p \in Process : Unsecured(p)

\* What was set is in the vault, unless a process saved or made it over what
\* another had saved since it read.
SavedIsThere == database # None /\ ~ crossed => database.has = saved

NothingIsLost == PasswordIsKept /\ VaultHasPassword /\ SavedIsThere
=============================================================================
