--------------------------- MODULE OnDiskProofs ----------------------------
(***************************************************************************)
(* Proofs about what is on disk, one part after the other: for each the    *)
(* inductive invariant, that the initial state has it and every step keeps *)
(* it, and the property of OnDisk that follows.                            *)
(***************************************************************************)
EXTENDS OnDisk, CommonLemmas

-----------------------------------------------------------------------------
(* DaemonHome                                                              *)
\* A command whose look at the pid file still holds knows of the daemon what
\* is so: it is about to lose none when it writes the pid file.

HomeName == {"start", "stop", "status", "install", "doctor", "refresh"}

HomeStage ==
  {"idle", "begin", "spawn", "record", "kill", "forget", "fetch", "create", "require",
   "wheels", "remove"}

HomeCommand ==
  [todo : Seq(HomeName), at : HomeStage, pid : Pid \cup {None}, stale : BOOLEAN]

HomeTypes ==
  /\ pidFile \in Pid \cup {None}
  /\ process \in [Pid -> {"free", "daemon", "stranger"}]
  /\ command \in [Operator -> HomeCommand]

\* A daemon that nothing but the pid file names and that is not given up yet.
HomeNamed == H!Named(pidFile) /\ pidFile \notin stray

FreshKnows ==
  \A o \in Operator : ~ command[o].stale =>
    /\ H!At(o, "spawn") \/ H!At(o, "record") => pidFile = None
    /\ H!At(o, "forget") => ~ HomeNamed
    /\ H!At(o, "kill") => command[o].pid = pidFile /\ pidFile # None

HomeInv == HomeTypes /\ FreshKnows /\ H!OneDaemon

LEMMA IdleIsCommand == H!Idle \in HomeCommand
  BY DEF H!Idle, HomeCommand, HomeStage

LEMMA HomeInitInv == ASSUME H!Init  PROVE HomeInv
<1>1. HomeTypes
  BY IdleIsCommand DEF H!Init, HomeTypes
<1>2. \A o \in Operator : command[o].at = "idle"
  BY DEF H!Init, H!Idle
<1> QED  BY <1>1, <1>2 DEF H!Init, HomeInv, FreshKnows, H!OneDaemon, H!At

\* One command changes and the others stay.
HomeMoves(o) ==
  /\ command' = [command EXCEPT ![o] = command'[o]]
  /\ command'[o] \in HomeCommand

LEMMA GoMoves ==
  ASSUME HomeTypes, NEW o \in Operator, NEW place \in HomeStage, NEW p \in Pid \cup {None},
         H!Go(o, place, p)
  PROVE  /\ HomeMoves(o) /\ command'[o].at = place /\ command'[o].pid = p
         /\ command'[o].stale = command[o].stale
  BY DEF HomeTypes, HomeCommand, H!Go, HomeMoves

LEMMA AfterIsCommand ==
  ASSUME HomeTypes, NEW o \in Operator
  PROVE  H!After(o) \in HomeCommand /\ H!After(o).at \in {"idle", "begin"}
<1>1. CASE Len(command[o].todo) <= 1
  <2>1. H!After(o) = H!Idle
    BY <1>1 DEF H!After
  <2> QED  BY <2>1, IdleIsCommand DEF H!Idle
<1>2. CASE ~ (Len(command[o].todo) <= 1)
  <2>1. H!After(o) = [H!Idle EXCEPT !.todo = Tail(command[o].todo), !.at = "begin"]
    BY <1>2 DEF H!After
  <2>2. command[o].todo \in Seq(HomeName) /\ command[o].todo # <<>>
    BY <1>2 DEF HomeTypes, HomeCommand
  <2>3. Tail(command[o].todo) \in Seq(HomeName)
    BY <2>2
  <2>4. H!After(o) =
          [todo |-> Tail(command[o].todo), at |-> "begin", pid |-> None, stale |-> FALSE]
    BY <2>1 DEF H!Idle
  <2> QED  BY <2>3, <2>4 DEF HomeCommand, HomeStage
<1> QED  BY <1>1, <1>2

LEMMA FinishMoves ==
  ASSUME HomeTypes, NEW o \in Operator, H!Finish(o)
  PROVE  HomeMoves(o) /\ command'[o].at \in {"idle", "begin"}
<1>1. command'[o] = H!After(o)
  BY DEF H!Finish, HomeTypes
<1> QED  BY <1>1, AfterIsCommand DEF H!Finish, HomeTypes, HomeMoves

LEMMA AbortMoves ==
  ASSUME HomeTypes, NEW o \in Operator, H!Abort(o)
  PROVE  HomeMoves(o) /\ command'[o].at = "idle"
<1>1. command'[o] = H!Idle
  BY DEF H!Abort, HomeTypes
<1> QED  BY <1>1, IdleIsCommand DEF H!Abort, HomeTypes, HomeMoves, H!Idle

\* What a move of one command keeps when the pid file and the processes stay.
LEMMA MoveKeeps ==
  ASSUME HomeInv, NEW o \in Operator, HomeMoves(o),
         UNCHANGED <<pidFile, process, headless>>, stray \subseteq stray',
         H!At(o, "record") /\ process[command[o].pid] = "daemon" => command[o].pid \in stray',
         command'[o].at # "record",
         ~ command'[o].stale =>
           /\ command'[o].at = "spawn" => pidFile = None
           /\ command'[o].at = "forget" => ~ HomeNamed'
           /\ command'[o].at = "kill" => command'[o].pid = pidFile /\ pidFile # None
  PROVE  HomeInv'
<1>1. HomeTypes'
  BY DEF HomeInv, HomeTypes, HomeMoves
<1>2. \A q \in Operator : q # o => command'[q] = command[q]
  BY DEF HomeInv, HomeTypes, HomeMoves
<1>3. \A p \in Pid : process[p] = "daemon" /\ H!Recorded(p) => H!Recorded(p)' \/ p \in stray'
  BY <1>2 DEF H!Recorded, H!At
<1>4. ~ HomeNamed => ~ HomeNamed'
  BY <1>3 DEF HomeNamed, H!Named, HomeInv, HomeTypes
<1>5. FreshKnows'
  BY <1>2, <1>4 DEF HomeInv, FreshKnows, H!At
<1>6. H!OneDaemon'
  BY <1>3 DEF HomeInv, H!OneDaemon
<1> QED  BY <1>1, <1>5, <1>6 DEF HomeInv

\* The pid file is written: what only it named is a stray if the writer's look
\* was stale, and no daemon if it was not.
LEMMA HomeWriteKeeps ==
  ASSUME HomeInv, NEW o \in Operator, NEW p \in Pid \cup {None}, NEW then \in HomeCommand,
         H!Write(o, p, then), UNCHANGED <<process, headless>>,
         H!At(o, "record") \/ H!At(o, "forget"), H!At(o, "record") => p = command[o].pid,
         then.at \in {"idle", "begin", "spawn"}, then.at = "spawn" => p = None
  PROVE  HomeInv'
<1>1. /\ pidFile' = p /\ stray \subseteq stray' /\ command'[o] = then
      /\ \A q \in Pid : q # p /\ H!Named(q) /\ command[o].stale => q \in stray'
  BY DEF H!Write
<1>2. ASSUME NEW q \in Operator, q # o
      PROVE  /\ command'[q] \in HomeCommand
             /\ command'[q].at = command[q].at /\ command'[q].pid = command[q].pid
             /\ command'[q].at \in {"spawn", "record", "kill", "forget"} => command'[q].stale
  <2> DEFINE old == command[q].at \in {"spawn", "record", "kill", "forget"}
  <2>1. command'[q] = [command[q] EXCEPT !.stale = old]
    BY <1>2 DEF H!Write
  <2>2. command[q] \in HomeCommand
    BY DEF HomeInv, HomeTypes
  <2> HIDE DEF old
  <2>3. old \in BOOLEAN
    BY DEF old
  <2>4. command'[q] \in HomeCommand /\ command'[q].at = command[q].at
        /\ command'[q].pid = command[q].pid /\ command'[q].stale = old
    BY <2>1, <2>2, <2>3 DEF HomeCommand
  <2> QED  BY <2>4 DEF old
<1>3. HomeTypes'
  <2>1. \A q \in Operator : command'[q] \in HomeCommand
    BY <1>1, <1>2
  <2>2. command' \in [Operator -> HomeCommand]
    BY <2>1 DEF H!Write
  <2> QED  BY <1>1, <2>2 DEF HomeInv, HomeTypes
<1>4. FreshKnows'
  BY <1>1, <1>2 DEF FreshKnows, H!At
<1>5. ASSUME NEW q \in Pid, H!Recorded(q)  PROVE H!Recorded(q)' \/ pidFile' = q
  <2>1. PICK w \in Operator : command[w].at = "record" /\ command[w].pid = q
    BY <1>5 DEF H!Recorded, H!At
  <2>2. CASE w = o
    BY <1>1, <2>1, <2>2 DEF H!At
  <2>3. CASE w # o
    BY <1>2, <2>1, <2>3 DEF H!Recorded, H!At
  <2> QED  BY <2>2, <2>3
<1>6. ASSUME NEW q \in Pid, process[q] = "daemon", pidFile = q, q \notin headless, ~ H!Recorded(q)
      PROVE  q \in stray' \/ pidFile' = q
  <2>1. H!Named(q)
    BY <1>6, OnDiskAssumption DEF H!Named
  <2>2. CASE command[o].stale
    BY <1>1, <2>1, <2>2
  <2>3. CASE ~ command[o].stale
    <3>1. ~ HomeNamed
      BY <2>3, <1>6, OnDiskAssumption DEF HomeInv, FreshKnows
    <3> QED  BY <1>1, <1>6, <2>1, <3>1 DEF HomeNamed
  <2> QED  BY <2>2, <2>3
<1>7. H!OneDaemon'
  <2> SUFFICES ASSUME NEW q \in Pid, process[q] = "daemon"
               PROVE  pidFile' = q \/ H!Recorded(q)' \/ q \in headless \/ q \in stray'
    BY DEF H!OneDaemon
  <2> QED  BY <1>1, <1>5, <1>6 DEF HomeInv, H!OneDaemon
<1> QED  BY <1>3, <1>4, <1>7 DEF HomeInv

LEMMA InvokeKeeps ==
  ASSUME HomeInv, NEW o \in Operator, NEW name \in DOMAIN H!Steps, H!Invoke(o, name)
  PROVE  HomeInv'
<1>1. H!Steps[name] \in Seq(HomeName)
  <2>1. /\ <<"start">> \in Seq(HomeName) /\ <<"stop">> \in Seq(HomeName) /\ <<"status">> \in Seq(HomeName)
        /\ <<"install">> \in Seq(HomeName) /\ <<"doctor">> \in Seq(HomeName)
        /\ <<"stop", "install", "start">> \in Seq(HomeName)
    BY DEF HomeName
  <2>2. name \in HomeName
    BY DEF H!Steps, HomeName
  <2>3. H!Steps[name] \in {<<"start">>, <<"stop">>, <<"status">>, <<"install">>, <<"doctor">>,
                           <<"stop", "install", "start">>}
    BY <2>2 DEF H!Steps, HomeName
  <2> QED  BY <2>1, <2>3
<1>2. command'[o] = [todo |-> H!Steps[name], at |-> "begin", pid |-> None, stale |-> FALSE]
  BY DEF H!Invoke, H!Idle, HomeInv, HomeTypes
<1>3. HomeMoves(o) /\ command'[o].at = "begin"
  BY <1>1, <1>2 DEF H!Invoke, HomeMoves, HomeCommand, HomeStage, HomeInv, HomeTypes
<1> QED  BY <1>3, MoveKeeps DEF H!Invoke, H!At

\* The steps of a command, by what they do to the home.
LEMMA CommandKeeps ==
  ASSUME HomeInv, NEW o \in Operator,
         \/ H!StartBegin(o) \/ H!StopBegin(o) \/ H!StatusBegin(o) \/ H!InstallBegin(o)
         \/ H!Fetch(o) \/ H!Create(o) \/ H!Require(o) \/ H!Wheels(o)
         \/ H!Examine(o) \/ H!RemoveCorpse(o) \/ H!CutOff(o) \/ H!KillSurvived(o)
  PROVE  HomeInv'
<1>0. HomeTypes
  BY DEF HomeInv
<1>1. CASE H!StartBegin(o)
  <2>1. H!At(o, "begin") /\ UNCHANGED <<pidFile, process, headless, stray>>
    BY <1>1 DEF H!StartBegin, H!Doing
  <2>2. CASE H!Abort(o)
    BY <1>0, <2>1, <2>2, AbortMoves, MoveKeeps DEF H!At
  <2>3. CASE ~ H!IsAlive(pidFile) /\ H!Go(o, IF pidFile = None THEN "spawn" ELSE "forget", None)
    <3>1. PICK to \in HomeStage : /\ H!Go(o, to, None) /\ to \in {"spawn", "forget"}
                                  /\ to = "spawn" => pidFile = None
      BY <2>3 DEF HomeStage
    <3>2. ~ HomeNamed'
      BY <1>0, <2>1, <2>3 DEF H!IsAlive, HomeNamed, H!Named, HomeTypes
    <3>3. HomeMoves(o) /\ command'[o].at = to
      BY <1>0, <3>1, GoMoves
    <3> QED  BY <2>1, <3>1, <3>2, <3>3, MoveKeeps DEF H!At
  <2> QED  BY <1>1, <2>2, <2>3 DEF H!StartBegin
<1>2. CASE H!StopBegin(o)
  <2>1. H!At(o, "begin") /\ UNCHANGED <<pidFile, process, headless, stray>>
    BY <1>2 DEF H!StopBegin, H!Doing
  <2>2. CASE H!Finish(o)
    BY <1>0, <2>1, <2>2, FinishMoves, MoveKeeps DEF H!At
  <2>3. CASE pidFile # None /\ H!Go(o, IF H!IsAlive(pidFile) THEN "kill" ELSE "forget", pidFile)
    <3>1. PICK to \in HomeStage : /\ H!Go(o, to, pidFile) /\ to \in {"kill", "forget"}
                                  /\ to = "forget" => ~ H!IsAlive(pidFile)
      BY <2>3 DEF HomeStage
    <3>2. to = "forget" => ~ HomeNamed'
      BY <1>0, <2>1, <2>3, <3>1 DEF H!IsAlive, HomeNamed, H!Named, HomeTypes
    <3>3. HomeMoves(o) /\ command'[o].at = to /\ command'[o].pid = pidFile
      BY <1>0, <3>1, GoMoves DEF HomeTypes
    <3> QED  BY <2>1, <2>3, <3>1, <3>2, <3>3, MoveKeeps DEF H!At
  <2> QED  BY <1>2, <2>2, <2>3 DEF H!StopBegin
<1>3. CASE H!StatusBegin(o)
  <2>1. H!At(o, "begin") /\ UNCHANGED <<pidFile, process, headless, stray>>
    BY <1>3 DEF H!StatusBegin, H!Doing
  <2>2. CASE H!Finish(o)
    BY <1>0, <2>1, <2>2, FinishMoves, MoveKeeps DEF H!At
  <2>3. CASE ~ H!IsAlive(pidFile) /\ H!Go(o, "forget", None)
    <3>1. ~ HomeNamed'
      BY <1>0, <2>1, <2>3 DEF H!IsAlive, HomeNamed, H!Named, HomeTypes
    <3>2. HomeMoves(o) /\ command'[o].at = "forget"
      BY <1>0, <2>3, GoMoves DEF HomeStage
    <3> QED  BY <2>1, <3>1, <3>2, MoveKeeps DEF H!At
  <2> QED  BY <1>3, <2>2, <2>3 DEF H!StatusBegin
<1>4. CASE H!InstallBegin(o) \/ H!Fetch(o) \/ H!Create(o) \/ H!Require(o) \/ H!Wheels(o)
           \/ H!Examine(o) \/ H!RemoveCorpse(o)
  <2>1. /\ command[o].at # "record" /\ UNCHANGED <<pidFile, process, headless, stray>>
        /\ \/ H!Finish(o) \/ H!Abort(o)
           \/ \E to \in {"fetch", "create", "require", "wheels", "remove"} : H!Go(o, to, None)
    BY <1>4
    DEF H!InstallBegin, H!Fetch, H!Create, H!Require, H!Wheels, H!Examine, H!RemoveCorpse,
        H!Doing, H!At
  <2>2. CASE H!Finish(o)
    BY <1>0, <2>1, <2>2, FinishMoves, MoveKeeps DEF H!At
  <2>3. CASE H!Abort(o)
    BY <1>0, <2>1, <2>3, AbortMoves, MoveKeeps DEF H!At
  <2>4. ASSUME NEW to \in {"fetch", "create", "require", "wheels", "remove"}, H!Go(o, to, None)
        PROVE  HomeInv'
    <3>1. HomeMoves(o) /\ command'[o].at = to
      BY <1>0, <2>4, GoMoves DEF HomeStage
    <3> QED  BY <2>1, <3>1, MoveKeeps DEF H!At
  <2> QED  BY <2>1, <2>2, <2>3, <2>4
<1>5. CASE H!CutOff(o)
  <2>1. /\ H!Abort(o) /\ UNCHANGED <<pidFile, process, headless>>
        /\ stray \subseteq stray'
        /\ H!At(o, "record") /\ process[command[o].pid] = "daemon" => command[o].pid \in stray'
    BY <1>5 DEF H!CutOff
  <2> QED  BY <1>0, <2>1, AbortMoves, MoveKeeps DEF H!At
<1>6. CASE H!KillSurvived(o)
  <2>1. /\ H!At(o, "kill") /\ H!Go(o, "forget", None) /\ UNCHANGED <<pidFile, process, headless>>
        /\ stray' = stray \cup {command[o].pid}
    BY <1>6 DEF H!KillSurvived
  <2>2. HomeMoves(o) /\ command'[o].at = "forget" /\ command'[o].stale = command[o].stale
    BY <1>0, <2>1, GoMoves DEF HomeStage
  <2>3. ~ command[o].stale => ~ HomeNamed'
    BY <2>1 DEF HomeInv, FreshKnows, HomeNamed
  <2> QED  BY <2>1, <2>2, <2>3, MoveKeeps DEF H!At
<1> QED  BY <1>1, <1>2, <1>3, <1>4, <1>5, <1>6

\* A daemon that is new to the pid is recorded by its start or is the service's.
LEMMA SpawnKeeps ==
  ASSUME HomeInv, NEW p \in Pid, process[p] = "free",
         process' = [process EXCEPT ![p] = "daemon"], UNCHANGED <<pidFile, stray>>,
         \/ /\ \E o \in Operator : H!At(o, "spawn") /\ H!Go(o, "record", p)
            /\ UNCHANGED headless
         \/ headless = {} /\ headless' = {p} /\ UNCHANGED command
  PROVE  HomeInv'
<1>0. HomeTypes
  BY DEF HomeInv
<1>1. CASE UNCHANGED command /\ headless = {} /\ headless' = {p}
  <2>1. HomeTypes'
    BY <1>0, <1>1 DEF HomeTypes
  <2>2. ~ HomeNamed => ~ HomeNamed'
    BY <1>0, <1>1 DEF HomeNamed, H!Named, H!Recorded, H!At, HomeTypes
  <2>3. FreshKnows'
    BY <1>1, <2>2 DEF HomeInv, FreshKnows, H!At
  <2>4. H!OneDaemon'
    BY <1>0, <1>1 DEF HomeInv, H!OneDaemon, H!Recorded, H!At, HomeTypes
  <2> QED  BY <2>1, <2>3, <2>4 DEF HomeInv
<1>2. ASSUME NEW o \in Operator, H!At(o, "spawn"), H!Go(o, "record", p), UNCHANGED headless
      PROVE  HomeInv'
  <2>1. /\ HomeMoves(o) /\ command'[o].at = "record" /\ command'[o].pid = p
        /\ command'[o].stale = command[o].stale
    BY <1>0, <1>2, GoMoves DEF HomeStage
  <2>2. \A q \in Operator : q # o => command'[q] = command[q]
    BY <1>0, <2>1 DEF HomeMoves, HomeTypes
  <2>3. HomeTypes'
    BY <1>0, <2>1 DEF HomeTypes, HomeMoves
  <2>4. H!Recorded(p)' /\ \A q \in Pid : H!Recorded(q) => H!Recorded(q)'
    BY <1>2, <2>1, <2>2 DEF H!Recorded, H!At
  <2>5. ~ HomeNamed => ~ HomeNamed'
    BY <1>0, <1>2, <2>4 DEF HomeNamed, H!Named, HomeTypes
  <2>6. FreshKnows'
    BY <1>2, <2>1, <2>2, <2>5 DEF HomeInv, FreshKnows, H!At
  <2>7. H!OneDaemon'
    BY <1>0, <1>2, <2>4 DEF HomeInv, H!OneDaemon, HomeTypes
  <2> QED  BY <2>3, <2>6, <2>7 DEF HomeInv
<1> QED  BY <1>1, <1>2

LEMMA RecordKeeps == ASSUME HomeInv, NEW o \in Operator, H!Record(o)  PROVE HomeInv'
<1>0. HomeTypes
  BY DEF HomeInv
<1>1. /\ H!At(o, "record") /\ H!Write(o, command[o].pid, H!After(o))
      /\ UNCHANGED <<process, headless>>
  BY DEF H!Record
<1>2. command[o].pid \in Pid \cup {None}
  BY <1>0 DEF HomeTypes, HomeCommand
<1>3. H!After(o) \in HomeCommand /\ H!After(o).at \in {"idle", "begin"}
  BY <1>0, AfterIsCommand
<1> QED  BY <1>1, <1>2, <1>3, HomeWriteKeeps

LEMMA ForgetKeeps == ASSUME HomeInv, NEW o \in Operator, H!Forget(o)  PROVE HomeInv'
<1>0. HomeTypes
  BY DEF HomeInv
<1> DEFINE on == [command[o] EXCEPT !.at = "spawn", !.pid = None, !.stale = FALSE]
<1>1. on \in HomeCommand /\ on.at = "spawn"
  BY <1>0 DEF HomeTypes, HomeCommand, HomeStage
<1>2. H!After(o) \in HomeCommand /\ H!After(o).at \in {"idle", "begin"}
  BY <1>0, AfterIsCommand
<1>3. PICK then \in HomeCommand :
        H!Write(o, None, then) /\ then.at \in {"idle", "begin", "spawn"}
  <2>1. H!Write(o, None, IF Head(command[o].todo) = "start" THEN on ELSE H!After(o))
    BY DEF H!Forget
  <2> QED  BY <1>1, <1>2, <2>1
<1>4. H!At(o, "forget") /\ UNCHANGED <<process, headless>>
  BY DEF H!Forget
<1> QED  BY <1>3, <1>4, HomeWriteKeeps DEF H!At

\* A process that ends, is killed or turns out to be a stranger.
LEMMA ProcessKeeps ==
  ASSUME HomeInv, NEW p \in Pid, NEW state \in {"free", "stranger"},
         process' = [process EXCEPT ![p] = state], UNCHANGED <<pidFile, command>>,
         stray \ {p} \subseteq stray', headless \ {p} \subseteq headless'
  PROVE  HomeInv'
<1>1. HomeTypes'
  BY DEF HomeInv, HomeTypes
<1>2. \A q \in Pid : process'[q] = "daemon" => q # p /\ process[q] = "daemon"
  BY DEF HomeInv, HomeTypes
<1>3. ~ HomeNamed => ~ HomeNamed'
  BY <1>1, <1>2 DEF HomeNamed, H!Named, H!Recorded, H!At, HomeInv, HomeTypes
<1>4. FreshKnows'
  BY <1>3 DEF HomeInv, FreshKnows, H!At
<1>5. H!OneDaemon'
  BY <1>2 DEF HomeInv, H!OneDaemon, H!Recorded, H!At
<1> QED  BY <1>1, <1>4, <1>5 DEF HomeInv

LEMMA HomeKillKeeps == ASSUME HomeInv, NEW o \in Operator, H!Kill(o)  PROVE HomeInv'
<1>0. HomeTypes
  BY DEF HomeInv
<1> DEFINE p == command[o].pid
<1>1. /\ H!At(o, "kill") /\ process' = [process EXCEPT ![p] = "free"]
      /\ stray' = stray \ {p} /\ headless' = headless \ {p}
      /\ H!Go(o, "forget", None) /\ UNCHANGED pidFile
  BY DEF H!Kill
<1>2. HomeMoves(o) /\ command'[o].at = "forget" /\ command'[o].stale = command[o].stale
  BY <1>0, <1>1, GoMoves DEF HomeStage
<1>3. \A q \in Operator : q # o => command'[q] = command[q]
  BY <1>0, <1>2 DEF HomeMoves, HomeTypes
<1>4. /\ process' \in [Pid -> {"free", "daemon", "stranger"}]
      /\ \A q \in Pid : process'[q] = "daemon" => q # p /\ process[q] = "daemon"
  BY <1>0, <1>1, OnDiskAssumption DEF HomeTypes
<1> HIDE DEF p
<1>5. HomeTypes'
  BY <1>0, <1>1, <1>2, <1>4 DEF HomeTypes, HomeMoves
<1>6. \A q : H!Recorded(q) => H!Recorded(q)'
  BY <1>1, <1>3 DEF H!Recorded, H!At
<1>7. ~ HomeNamed => ~ HomeNamed'
  BY <1>0, <1>1, <1>4, <1>6 DEF HomeNamed, H!Named, HomeTypes
<1>8. ~ command[o].stale => ~ HomeNamed'
  BY <1>0, <1>1, <1>4 DEF p, HomeInv, FreshKnows, HomeNamed, H!Named, HomeTypes
<1>9. FreshKnows'
  BY <1>1, <1>2, <1>3, <1>7, <1>8 DEF HomeInv, FreshKnows, H!At
<1>10. H!OneDaemon'
  BY <1>1, <1>4, <1>6 DEF HomeInv, H!OneDaemon
<1> QED  BY <1>5, <1>9, <1>10 DEF HomeInv

LEMMA HomeStepInv == ASSUME HomeInv, [H!Next]_(H!vars)  PROVE HomeInv'
<1>1. ASSUME NEW p \in Pid, H!ProcessEnds(p)  PROVE HomeInv'
  BY <1>1, ProcessKeeps DEF H!ProcessEnds
<1>2. ASSUME NEW p \in Pid, H!PidReused(p)  PROVE HomeInv'
  BY <1>2, ProcessKeeps DEF H!PidReused
<1>3. ASSUME NEW o \in Operator, H!Spawn(o)  PROVE HomeInv'
  BY <1>3, SpawnKeeps DEF H!Spawn
<1>4. CASE H!SvcDoRun
  BY <1>4, SpawnKeeps DEF H!SvcDoRun
<1>5. CASE UNCHANGED H!vars
  BY <1>5
  DEF H!vars, HomeInv, HomeTypes, FreshKnows, HomeNamed, H!Named, H!Recorded, H!OneDaemon, H!At
<1> QED
  BY <1>1, <1>2, <1>3, <1>4, <1>5, InvokeKeeps, CommandKeeps, RecordKeeps, ForgetKeeps,
     HomeKillKeeps
  DEF H!Next

\* A daemon is one the pid file names, its start is about to record or the Windows
\* service runs, or it was lost as OneDaemon says; a command whose look at the pid
\* file still holds loses none, for any number of operators, pids and overlaps.
THEOREM EveryDaemonIsFound == H!Spec => []OneDaemon
<1>1. H!Spec => []HomeInv
  BY HomeInitInv, HomeStepInv, PTL DEF H!Spec
<1> QED  BY <1>1, PTL DEF HomeInv, OneDaemon

-----------------------------------------------------------------------------
(* Venvs                                                                   *)
\* The link leads to a whole environment once it is known of a build what it
\* has verified, and of a doctor what it is going to remove.

VenvTypes ==
  /\ dir \in [V!Version -> {"none", "empty", "bare", "whole"}]
  /\ link \in V!Version \cup {0}
  /\ build \in [at : {"idle", "create", "install", "verify", "repoint"},
                version : V!Version \cup {0}]
  /\ build.at # "idle" => build.version \in V!Version
  /\ doctor \in [at : {"idle", "prune", "unlink", "sweep"}, superseded : SUBSET V!Version,
                 broken : BOOLEAN, orphans : SUBSET V!Version]

\* What the doctor will remove.
Doomed == doctor.superseded \cup doctor.orphans

\* A link to a directory that is doomed, and a build that has worked on one,
\* are crossed by the doctor.
DoomedIsCrossed ==
  /\ link \in Doomed => link \in crossed
  /\ V!Building("install") \/ V!Building("verify") \/ V!Building("repoint") =>
       (build.version \in Doomed => build.version \in crossed)

VerifiedIsWhole ==
  V!Building("repoint") => dir[build.version] = "whole" \/ build.version \in crossed

VenvInv == VenvTypes /\ DoomedIsCrossed /\ VerifiedIsWhole /\ V!LinkIsWhole

LEMMA VenvInitInv == ASSUME V!Init  PROVE VenvInv
  BY OnDiskAssumption
  DEF V!Init, VenvInv, VenvTypes, Doomed, DoomedIsCrossed, VerifiedIsWhole, V!LinkIsWhole,
      V!Version, V!Building, V!NoBuild, V!NoDoctor

\* Only the doctor empties a directory, and only a doomed one.
LEMMA RemovalKeeps ==
  ASSUME VenvInv, NEW v \in Doomed, V!Remove(v), UNCHANGED <<link, build, crossed>>,
         doctor' \in [at : {"idle", "prune", "unlink", "sweep"}, superseded : SUBSET V!Version,
                      broken : BOOLEAN, orphans : SUBSET V!Version],
         Doomed' \subseteq Doomed
  PROVE  VenvInv'
<1> USE DEF VenvInv, VenvTypes, DoomedIsCrossed, VerifiedIsWhole, V!LinkIsWhole, V!Building
<1>0. PICK rest \in {"none", "empty", "bare", "whole"} : dir' = [dir EXCEPT ![v] = rest]
  <2>1. dir[v] \in {"none", "empty", "bare", "whole"}
    BY DEF Doomed
  <2>2. V!Remains[dir[v]] \subseteq {"none", "empty", "bare", "whole"}
    BY <2>1 DEF V!Remains
  <2> QED  BY <2>2 DEF V!Remove
<1>1. \A w \in V!Version : dir'[w] = dir[w] \/ w = v
  BY <1>0
<1>2. dir' \in [V!Version -> {"none", "empty", "bare", "whole"}]
  BY <1>0
<1>3. 0 \notin V!Version
  BY OnDiskAssumption DEF V!Version
<1> QED  BY <1>1, <1>2, <1>3

LEMMA ReportKeeps == ASSUME VenvInv, V!Report  PROVE VenvInv'
<1> USE DEF VenvInv, VenvTypes, DoomedIsCrossed, VerifiedIsWhole, V!LinkIsWhole, V!Building
<1>1. V!Superseded \subseteq V!Version /\ V!Orphans \subseteq V!Version /\ V!Broken \in BOOLEAN
  BY DEF V!Superseded, V!Present, V!Orphans, V!Broken
<1>2. doctor' = [at |-> "prune", superseded |-> V!Superseded, broken |-> V!Broken,
                 orphans |-> V!Orphans]
      /\ UNCHANGED <<dir, link, build>>
  BY DEF V!Report
<1>3. VenvTypes' /\ Doomed' = V!Superseded \cup V!Orphans
  BY <1>1, <1>2 DEF Doomed
<1>4. crossed' = {v \in crossed : v \in {link, build.version} /\ dir[v] # "whole"}
                   \cup ({build.version} \cap (V!Superseded \cup V!Orphans))
  BY DEF V!Report
<1>5. link \notin V!Superseded
  BY DEF V!Superseded, V!Keep, V!Present
<1>6. link \in V!Orphans => link # 0 /\ dir[link] # "whole"
  BY OnDiskAssumption DEF V!Orphans, V!Version
<1>7. DoomedIsCrossed'
  BY <1>2, <1>3, <1>4, <1>5, <1>6
<1>8. VerifiedIsWhole' /\ V!LinkIsWhole'
  BY <1>2, <1>4
<1> QED  BY <1>3, <1>7, <1>8

LEMMA VenvStepInv == ASSUME VenvInv, [V!Next]_(V!vars)  PROVE VenvInv'
<1> USE OnDiskAssumption
    DEF VenvInv, VenvTypes, Doomed, DoomedIsCrossed, VerifiedIsWhole, V!LinkIsWhole, V!Building
<1>0. 0 \notin V!Version
  BY DEF V!Version
<1>1. ASSUME NEW v \in V!Version, V!Begin(v)  PROVE VenvInv'
  BY <1>1 DEF V!Begin
<1>2. CASE V!Create
  <2> DEFINE v == build.version
  <2>1. /\ v \in V!Version /\ build.at = "create" /\ UNCHANGED <<link, doctor>>
        /\ crossed' = IF v \in Doomed THEN crossed \cup {v} ELSE crossed
    BY <1>2 DEF V!Create, V!Touch
  <2>2. \/ UNCHANGED dir
        \/ dir[v] # "whole" /\ \E d \in {"bare", "empty"} : dir' = [dir EXCEPT ![v] = d]
    BY <1>2, <2>1 DEF V!Create
  <2>3. build' = [build EXCEPT !.at = "install"] \/ build' = V!NoBuild
    BY <1>2 DEF V!Create, V!Step
  <2>4. VenvTypes'
    BY <1>0, <2>1, <2>2, <2>3 DEF V!NoBuild
  <2>5. V!LinkIsWhole' /\ DoomedIsCrossed'
    BY <1>0, <2>1, <2>2, <2>3 DEF V!NoBuild
  <2>6. VerifiedIsWhole'
    BY <2>3 DEF V!NoBuild
  <2> QED  BY <2>4, <2>5, <2>6
<1>3. CASE V!Install
  <2> DEFINE v == build.version
  <2>1. /\ v \in V!Version /\ build.at = "install" /\ UNCHANGED <<link, doctor>>
        /\ crossed' = IF v \in Doomed THEN crossed \cup {v} ELSE crossed
    BY <1>3 DEF V!Install, V!Touch
  <2>2. UNCHANGED dir \/ dir' = [dir EXCEPT ![v] = "whole"]
    BY <1>3 DEF V!Install
  <2>3. build' = [build EXCEPT !.at = "verify"] \/ build' = V!NoBuild
    BY <1>3 DEF V!Install, V!Step
  <2>4. VenvTypes'
    BY <1>0, <2>1, <2>2, <2>3 DEF V!NoBuild
  <2>5. V!LinkIsWhole' /\ DoomedIsCrossed'
    BY <1>0, <2>1, <2>2, <2>3 DEF V!NoBuild
  <2>6. VerifiedIsWhole'
    BY <2>3 DEF V!NoBuild
  <2> QED  BY <2>4, <2>5, <2>6
<1>4. CASE V!Verify
  <2>1. \/ dir[build.version] = "whole" /\ build' = [build EXCEPT !.at = "repoint"]
        \/ build' = V!NoBuild
    BY <1>4 DEF V!Verify, V!Step
  <2> QED  BY <1>0, <1>4, <2>1 DEF V!Verify, V!NoBuild
<1>5. CASE V!Repoint
  <2>1. link' \in {0, build.version} /\ (build' = V!NoBuild \/ (link' = 0 /\ UNCHANGED build))
    <3>1. CASE replace = "unlinked"
      BY <1>5, <3>1 DEF V!Repoint
    <3>2. CASE replace # "unlinked"
      <4>1. link' = build.version /\ build' = V!NoBuild
        BY <1>5, <3>2 DEF V!Repoint
      <4> QED  BY <4>1
    <3> QED  BY <3>1, <3>2
  <2>2. build.version \in V!Version /\ UNCHANGED <<dir, doctor, crossed>>
    BY <1>5 DEF V!Repoint
  <2>3. CASE link' = 0 /\ UNCHANGED build
    BY <1>0, <2>2, <2>3
  <2>4. CASE link' = 0 /\ build' = V!NoBuild
    BY <1>0, <2>2, <2>4 DEF V!NoBuild
  <2>5. CASE link' = build.version /\ build' = V!NoBuild
    <3>1. link' \in Doomed => link' \in crossed
      BY <1>5, <2>5 DEF V!Repoint
    <3>2. dir[link'] = "whole" \/ link' \in crossed
      BY <1>5, <2>5 DEF V!Repoint
    <3> QED  BY <2>2, <2>5, <3>1, <3>2 DEF V!NoBuild
  <2> QED  BY <2>1, <2>3, <2>4, <2>5
<1>6. CASE V!Prune
  <2>1. CASE doctor.superseded = {}
    BY <1>6, <2>1 DEF V!Prune
  <2>2. CASE doctor.superseded # {}
    <3>1. PICK v \in doctor.superseded :
            /\ doctor' = [doctor EXCEPT !.superseded = doctor.superseded \ {v}]
            /\ V!Remove(v)
      BY <1>6, <2>2 DEF V!Prune
    <3> QED  BY <1>6, <3>1, RemovalKeeps DEF V!Prune
  <2> QED  BY <2>1, <2>2
<1>7. CASE V!Unlink
  <2>1. link' \in {0, link}
    BY <1>7 DEF V!Unlink
  <2> QED  BY <1>0, <1>7, <2>1 DEF V!Unlink
<1>8. CASE V!Sweep
  <2>1. CASE doctor.orphans = {}
    <3>1. doctor' = V!NoDoctor /\ UNCHANGED <<dir, link, build, crossed>>
      BY <1>8, <2>1 DEF V!Sweep
    <3> QED  BY <3>1 DEF V!NoDoctor
  <2>2. CASE doctor.orphans # {}
    <3>1. PICK v \in doctor.orphans :
            /\ doctor' = [doctor EXCEPT !.orphans = doctor.orphans \ {v}]
            /\ V!Remove(v)
      BY <1>8, <2>2 DEF V!Sweep
    <3> QED  BY <1>8, <3>1, RemovalKeeps DEF V!Sweep
  <2> QED  BY <2>1, <2>2
<1>9. CASE V!CutOff
  <2>1. CASE build' = V!NoBuild /\ UNCHANGED doctor
    BY <1>9, <2>1 DEF V!CutOff, V!NoBuild
  <2>2. CASE doctor' = V!NoDoctor /\ UNCHANGED build
    BY <1>9, <2>2 DEF V!CutOff, V!NoDoctor
  <2> QED  BY <1>9, <2>1, <2>2 DEF V!CutOff
<1>10. CASE UNCHANGED V!vars
  BY <1>10 DEF V!vars
<1> QED
  BY <1>1, <1>2, <1>3, <1>4, <1>5, <1>6, <1>7, <1>8, <1>9, <1>10, ReportKeeps DEF V!Next

\* The link leads to an environment that is whole at every moment of builds,
\* rollbacks, cuts and the doctor's work, for any number of versions, unless a
\* build works on what a doctor at work has reported.
THEOREM LinkLeadsToWhole == V!Spec => []LinkIsWhole
<1>1. V!Spec => []VenvInv
  BY VenvInitInv, VenvStepInv, PTL DEF V!Spec
<1> QED  BY <1>1, PTL DEF VenvInv, LinkIsWhole

-----------------------------------------------------------------------------
(* MemoryLog                                                               *)
\* A flush that is about to mark its work as done has appended its entry.

MemoryStage ==
  {"none", "start", "stranded", "asking", "create", "append", "mark", "unlink", "trigger", "done"}

\* What has, or had, an entry in the log.
Entered == daily \cup truncated

MemoryTypes ==
  /\ recordedSession \in [Context -> Session \cup {None}]
  /\ contextFile \subseteq Context /\ daily \subseteq Context /\ truncated \subseteq Context
  /\ flush \in [Context -> MemoryStage]
  /\ compile \in [Context -> {"none", "start", "asking"}]
  /\ read \in [Context -> SUBSET Context]
  /\ last \in [session : Session \cup {None}, recent : BOOLEAN]

\* The stages a flush is in once it has appended, and those that say it has.
Appended ==
  \A c \in Context :
    /\ flush[c] = "none" => recordedSession[c] = None
    /\ c \in Entered => flush[c] \in {"mark", "unlink", "trigger", "done", "stranded"}
    /\ flush[c] \in {"mark", "unlink", "trigger"} => c \in Entered

\* The session that was flushed last has an entry.
LastHasEntry ==
  last.session # None => \E d \in Entered : recordedSession[d] = last.session

MemoryInv == MemoryTypes /\ Appended /\ LastHasEntry /\ M!NothingIsForgotten

LEMMA MemoryInitInv == ASSUME M!Init  PROVE MemoryInv
  BY DEF M!Init, MemoryInv, MemoryTypes, MemoryStage, Entered, Appended, LastHasEntry,
         M!NothingIsForgotten, M!LostButTold

\* A step of one flush to a later stage that neither appends nor truncates.
LEMMA FlushMoves ==
  ASSUME MemoryInv, NEW c \in Context, NEW to \in MemoryStage,
         flush[c] # "none", flush' = [flush EXCEPT ![c] = to],
         UNCHANGED <<recordedSession, daily, truncated, read, ingested, knowledge>>,
         UNCHANGED compile \/ compile' = [compile EXCEPT ![c] = "start"],
         c \in Entered => to \in {"mark", "unlink", "trigger", "done", "stranded"},
         to \in {"none", "mark", "unlink", "trigger"} => to # "none" /\ c \in Entered,
         last' \in [session : Session \cup {None}, recent : BOOLEAN],
         UNCHANGED last \/ (last'.session = recordedSession[c] /\ c \in Entered),
         contextFile' \subseteq Context, skipped \subseteq skipped',
         \A d \in contextFile \ contextFile' :
           recordedSession[d] # None =>
             \/ d \in Entered
             \/ d \in skipped' /\ \E e \in Entered : e # d /\ recordedSession[e] = recordedSession[d]
  PROVE  MemoryInv'
<1> USE DEF MemoryInv, MemoryTypes, Entered
<1>1. MemoryTypes'
  OBVIOUS
<1>2. Entered' = Entered
  OBVIOUS
<1>3. Appended'
  BY <1>2 DEF Appended
<1>4. LastHasEntry'
  BY <1>2 DEF LastHasEntry
<1>5. M!NothingIsForgotten'
  BY <1>2 DEF M!NothingIsForgotten, M!LostButTold
<1> QED  BY <1>1, <1>3, <1>4, <1>5

LEMMA MemoryStepInv == ASSUME MemoryInv, [M!Next]_(M!vars)  PROVE MemoryInv'
<1> USE DEF MemoryInv, MemoryTypes, Entered
<1>1. ASSUME NEW c \in Context, NEW s \in Session, M!Hook(c, s)  PROVE MemoryInv'
  <2>1. PICK to \in {"start", "stranded"} : flush[c] = "none" /\ flush' = [flush EXCEPT ![c] = to]
    BY <1>1 DEF M!Hook, M!Move
  <2>2. /\ recordedSession' = [recordedSession EXCEPT ![c] = s] /\ contextFile' = contextFile \cup {c}
        /\ UNCHANGED <<last, daily, skipped, truncated, compile, read, ingested, knowledge>>
    BY <1>1 DEF M!Hook, M!compileVars
  <2>3. MemoryTypes'
    BY <2>1, <2>2 DEF MemoryStage
  <2>4. c \notin Entered
    BY <2>1 DEF Appended
  <2>5. Appended'
    BY <2>1, <2>2, <2>4 DEF Appended
  <2>6. LastHasEntry'
    BY <2>2, <2>4 DEF LastHasEntry
  <2>7. M!NothingIsForgotten'
    BY <2>2, <2>4 DEF M!NothingIsForgotten, M!LostButTold
  <2> QED  BY <2>3, <2>5, <2>6, <2>7
<1>2. ASSUME NEW c \in Context, M!Start(c)  PROVE MemoryInv'
  <2> DEFINE duplicate == last.recent /\ last.session = recordedSession[c]
             to == IF duplicate THEN "done" ELSE "asking"
  <2>1. /\ flush[c] = "start" /\ flush' = [flush EXCEPT ![c] = to] /\ to \in MemoryStage
        /\ UNCHANGED <<recordedSession, last, daily, truncated, compile, read, ingested, knowledge>>
    BY <1>2 DEF M!Start, M!Move, MemoryStage, M!compileVars
  <2>2. c \notin Entered
    BY <2>1 DEF Appended
  <2>3. CASE duplicate
    <3>1. contextFile' = contextFile \ {c} /\ skipped' = skipped \cup {c}
      BY <1>2, <2>3 DEF M!Start
    <3>2. recordedSession[c] # None => \E e \in Entered : e # c /\ recordedSession[e] = recordedSession[c]
      BY <2>2, <2>3 DEF LastHasEntry
    <3>3. to = "done"
      BY <2>3
    <3> HIDE DEF duplicate, to
    <3> QED  BY <2>1, <2>2, <3>1, <3>2, <3>3, FlushMoves
  <2>4. CASE ~ duplicate
    <3>1. contextFile' = contextFile /\ skipped' = skipped
      BY <1>2, <2>4 DEF M!Start
    <3>2. to = "asking"
      BY <2>4
    <3> HIDE DEF duplicate, to
    <3> QED  BY <2>1, <2>2, <3>1, <3>2, FlushMoves
  <2> QED  BY <2>3, <2>4
<1>3. ASSUME NEW c \in Context, M!Reply(c)  PROVE MemoryInv'
  <2>1. PICK to \in {"append", "create"} : flush[c] = "asking" /\ flush' = [flush EXCEPT ![c] = to]
    BY <1>3 DEF M!Reply, M!Move
  <2>2. c \notin Entered
    BY <2>1 DEF Appended
  <2>3. UNCHANGED <<recordedSession, contextFile, last, daily, skipped, truncated, compile, read, ingested,
                    knowledge>>
    BY <1>3 DEF M!Reply, M!compileVars
  <2>4. to \in MemoryStage
    BY DEF MemoryStage
  <2> QED  BY <2>1, <2>2, <2>3, <2>4, FlushMoves
<1>4. ASSUME NEW c \in Context, M!Create(c)  PROVE MemoryInv'
  <2>1. /\ flush[c] = "create" /\ flush' = [flush EXCEPT ![c] = "append"]
        /\ daily' = {} /\ truncated' = truncated \cup daily
        /\ UNCHANGED <<recordedSession, contextFile, last, skipped, compile, read, ingested, knowledge>>
    BY <1>4 DEF M!Create, M!Move, M!compileVars
  <2>2. MemoryTypes' /\ Entered' = Entered
    BY <2>1 DEF MemoryStage
  <2>3. Appended' /\ LastHasEntry'
    BY <2>1, <2>2 DEF Appended, LastHasEntry
  <2>4. M!NothingIsForgotten'
    BY <2>1, <2>2 DEF M!NothingIsForgotten, M!LostButTold
  <2> QED  BY <2>2, <2>3, <2>4
<1>5. ASSUME NEW c \in Context, M!Append(c)  PROVE MemoryInv'
  <2>1. /\ flush[c] = "append" /\ flush' = [flush EXCEPT ![c] = "mark"]
        /\ daily' = daily \cup {c}
        /\ UNCHANGED <<recordedSession, contextFile, last, skipped, truncated, compile, read, ingested, knowledge>>
    BY <1>5 DEF M!Append, M!Move, M!compileVars
  <2>2. MemoryTypes' /\ Entered' = Entered \cup {c}
    BY <2>1 DEF MemoryStage
  <2>3. Appended' /\ LastHasEntry'
    BY <2>1, <2>2 DEF Appended, LastHasEntry
  <2>4. M!NothingIsForgotten'
    BY <2>1, <2>2 DEF M!NothingIsForgotten, M!LostButTold
  <2> QED  BY <2>2, <2>3, <2>4
<1>6. ASSUME NEW c \in Context, M!Mark(c)  PROVE MemoryInv'
  <2>1. flush[c] = "mark" /\ c \in Entered
    BY <1>6 DEF M!Mark, M!Move, Appended
  <2> QED  BY <1>6, <2>1, FlushMoves DEF M!Mark, M!Move, MemoryStage, M!compileVars
<1>7. ASSUME NEW c \in Context, M!Unlink(c)  PROVE MemoryInv'
  <2>1. flush[c] = "unlink" /\ c \in Entered
    BY <1>7 DEF M!Unlink, M!Move, Appended
  <2> QED  BY <1>7, <2>1, FlushMoves DEF M!Unlink, M!Move, MemoryStage, M!compileVars
<1>8. ASSUME NEW c \in Context, M!Trigger(c)  PROVE MemoryInv'
  <2>1. flush[c] = "trigger"
    BY <1>8 DEF M!Trigger, M!Move
  <2>2. /\ flush' = [flush EXCEPT ![c] = "done"] /\ "done" \in MemoryStage
        /\ UNCHANGED compile \/ compile' = [compile EXCEPT ![c] = "start"]
    BY <1>8 DEF M!Trigger, M!Move, MemoryStage
  <2>3. UNCHANGED <<recordedSession, contextFile, last, daily, skipped, truncated, read, ingested, knowledge>>
    BY <1>8 DEF M!Trigger
  <2> QED  BY <2>1, <2>2, <2>3, FlushMoves
<1>9. ASSUME NEW c \in Context, M!CompileStart(c)  PROVE MemoryInv'
  <2>1. \/ compile' = [compile EXCEPT ![c] = "none"] /\ UNCHANGED read
        \/ compile' = [compile EXCEPT ![c] = "asking"] /\ read' = [read EXCEPT ![c] = daily]
    BY <1>9 DEF M!CompileStart
  <2>2. UNCHANGED <<M!flushVars, ingested, knowledge>>
    BY <1>9 DEF M!CompileStart
  <2>3. MemoryTypes' /\ Entered' = Entered
    BY <2>1, <2>2 DEF M!flushVars
  <2>4. Appended' /\ LastHasEntry' /\ M!NothingIsForgotten'
    BY <2>2, <2>3 DEF M!flushVars, Appended, LastHasEntry, M!NothingIsForgotten, M!LostButTold
  <2> QED  BY <2>3, <2>4
<1>10. ASSUME NEW c \in Context, M!CompileEnd(c)  PROVE MemoryInv'
  <2>1. /\ compile[c] = "asking" /\ compile' = [compile EXCEPT ![c] = "none"]
        /\ read' = [read EXCEPT ![c] = {}] /\ UNCHANGED M!flushVars
    BY <1>10 DEF M!CompileEnd
  <2>3. MemoryTypes' /\ Entered' = Entered
    BY <2>1 DEF M!flushVars
  <2>4. Appended' /\ LastHasEntry' /\ M!NothingIsForgotten'
    BY <2>1, <2>3 DEF M!flushVars, Appended, LastHasEntry, M!NothingIsForgotten, M!LostButTold
  <2> QED  BY <2>3, <2>4
<1>11. ASSUME NEW c \in Context, M!Crash(c)  PROVE MemoryInv'
  <2>1. CASE /\ flush[c] \notin {"none", "stranded", "done"}
             /\ flush' = [flush EXCEPT ![c] = "stranded"] /\ UNCHANGED <<compile, read>>
    <3>1. UNCHANGED <<recordedSession, contextFile, last, daily, skipped, truncated, ingested, knowledge>>
      BY <1>11 DEF M!Crash
    <3>2. "stranded" \in MemoryStage
      BY DEF MemoryStage
    <3> QED  BY <2>1, <3>1, <3>2, FlushMoves
  <2>2. CASE /\ compile' = [compile EXCEPT ![c] = "none"] /\ read' = [read EXCEPT ![c] = {}]
             /\ UNCHANGED flush
    <3>1. UNCHANGED <<M!flushVars, ingested, knowledge>>
      BY <1>11, <2>2 DEF M!Crash, M!flushVars
    <3>2. MemoryTypes' /\ Entered' = Entered
      BY <2>2, <3>1 DEF M!flushVars
    <3>3. Appended' /\ LastHasEntry' /\ M!NothingIsForgotten'
      BY <3>1, <3>2 DEF M!flushVars, Appended, LastHasEntry, M!NothingIsForgotten, M!LostButTold
    <3> QED  BY <3>2, <3>3
  <2> QED  BY <1>11, <2>1, <2>2 DEF M!Crash
<1>12. CASE M!MinutePasses
  <2>1. /\ last' = [last EXCEPT !.recent = FALSE]
        /\ UNCHANGED <<recordedSession, contextFile, flush, daily, skipped, truncated, M!compileVars>>
    BY <1>12 DEF M!MinutePasses
  <2>2. last'.session = last.session
    BY <2>1
  <2> QED
    BY <2>1, <2>2 DEF M!compileVars, Appended, LastHasEntry, M!NothingIsForgotten, M!LostButTold
<1>13. CASE M!EveningComes \/ UNCHANGED M!vars
  <2>1. UNCHANGED <<M!flushVars, M!compileVars>>
    BY <1>13 DEF M!EveningComes, M!vars
  <2> QED
    BY <2>1
    DEF M!flushVars, M!compileVars, Appended, LastHasEntry, M!NothingIsForgotten, M!LostButTold
<1> QED
  BY <1>1, <1>2, <1>3, <1>4, <1>5, <1>6, <1>7, <1>8, <1>9, <1>10, <1>11, <1>12, <1>13 DEF M!Next

\* What a hook put aside is still on disk, or its summary is in the log, or it was
\* lost in one of the ways LostButTold names, for any number of contexts and
\* sessions and any crashes.
THEOREM NothingGetsForgotten == M!Spec => []NothingIsForgotten
<1>1. M!Spec => []MemoryInv
  BY MemoryInitInv, MemoryStepInv, PTL DEF M!Spec
<1> QED  BY <1>1, PTL DEF MemoryInv, NothingIsForgotten

-----------------------------------------------------------------------------
(* Backups                                                                 *)
\* LastOfDayIsKept is inductive: a prune keeps what is among the days it
\* counts, and those only become fewer as it removes.

BackupTypes == clock \in 0..LastInstant /\ taken \subseteq 0..LastInstant /\ shelf \subseteq taken

BackupInv == BackupTypes /\ B!LastOfDayIsKept

\* A set of days of earlier or fewer snapshots is no larger.
LEMMA FewerDays ==
  ASSUME NEW few, NEW many \in SUBSET (0..LastInstant), few \subseteq many, NEW s
  PROVE  LET a == {B!Day[t] : t \in {t \in few : t > s}}
             b == {B!Day[t] : t \in {t \in many : t > s}}
         IN  Cardinality(b) < DailyKeep => Cardinality(a) < DailyKeep
<1> DEFINE later == {t \in many : t > s}
           a == {B!Day[t] : t \in {t \in few : t > s}}
           b == {B!Day[t] : t \in later}
<1>1. IsFiniteSet(0..LastInstant)
  BY OnDiskAssumption, FS_Interval
<1>2. IsFiniteSet(b)
  <2>1. \A t \in 0..LastInstant : B!Day[t] \in 0..LastInstant
    BY OnDiskAssumption DEF B!Day
  <2>2. b \subseteq 0..LastInstant
    BY <2>1
  <2> QED  BY <1>1, <2>2, FS_Subset
<1>3. a \subseteq b
  OBVIOUS
<1>4. IsFiniteSet(a) /\ Cardinality(a) <= Cardinality(b)
  BY <1>2, <1>3, FS_Subset
<1>5. Cardinality(a) \in Nat /\ Cardinality(b) \in Nat
  BY <1>2, <1>4, FS_CardinalityType
<1> HIDE DEF a, b
<1>6. Cardinality(b) < DailyKeep => Cardinality(a) < DailyKeep
  BY OnDiskAssumption, <1>4, <1>5
<1> QED  BY <1>6 DEF a, b

\* Backups counts as FiniteSets does.
LEMMA BackupCounts == \A N : B!Cardinality(N) = Cardinality(N)
  BY DEF B!Cardinality, Cardinality

LEMMA BackupInitInv == ASSUME B!Init  PROVE BackupInv
  BY OnDiskAssumption DEF B!Init, BackupInv, BackupTypes, B!LastOfDayIsKept

\* One more snapshot is one that may be the last of its day.
LEMMA TakenKeeps ==
  ASSUME BackupInv, shelf' = shelf \cup {clock}, taken' = taken \cup {clock}, UNCHANGED clock
  PROVE  BackupInv'
<1>1. BackupTypes'
  BY DEF BackupInv, BackupTypes
<1>2. ASSUME NEW s \in taken', \A t \in taken' : B!Day[t] = B!Day[s] => t <= s,
             Cardinality({B!Day[t] : t \in {t \in taken' : t > s}}) < DailyKeep
      PROVE  s \in shelf'
  <2>1. CASE s = clock
    BY <2>1
  <2>2. CASE s \in taken
    <3>1. Cardinality({B!Day[t] : t \in {t \in taken : t > s}}) < DailyKeep
      BY <1>1, <1>2, FewerDays DEF BackupTypes
    <3> QED  BY <1>2, <2>2, <3>1, BackupCounts DEF BackupInv, B!LastOfDayIsKept
  <2> QED  BY <2>1, <2>2
<1> QED  BY <1>1, <1>2, BackupCounts DEF BackupInv, B!LastOfDayIsKept

LEMMA PruneKeeps == ASSUME BackupInv, B!Prune  PROVE BackupInv'
<1>1. PICK gone \in SUBSET {s \in shelf : ~ B!Kept(s)} :
        shelf' = shelf \ gone /\ UNCHANGED <<clock, taken>>
  BY DEF B!Prune
<1>2. ASSUME NEW s \in taken, \A t \in taken : B!Day[t] = B!Day[s] => t <= s,
             Cardinality({B!Day[t] : t \in {t \in taken : t > s}}) < DailyKeep
      PROVE  s \in shelf'
  <2>1. s \in shelf
    BY <1>2, BackupCounts DEF BackupInv, B!LastOfDayIsKept
  <2>2. Cardinality({B!Day[t] : t \in {t \in shelf : t > s}}) < DailyKeep
    BY <1>2, FewerDays DEF BackupInv, BackupTypes
  <2>3. ~ \E t \in shelf : t > s /\ B!Day[t] = B!Day[s]
    <3> SUFFICES ASSUME NEW t \in shelf, t > s, B!Day[t] = B!Day[s]  PROVE FALSE
      OBVIOUS
    <3>1. t \in 0..LastInstant /\ s \in 0..LastInstant /\ t <= s
      BY <1>2, <2>1 DEF BackupInv, BackupTypes
    <3> QED  BY <3>1, OnDiskAssumption
  <2>4. B!Kept(s)
    BY <2>2, <2>3, BackupCounts DEF B!Kept, B!LastOf
  <2> QED  BY <1>1, <2>1, <2>4
<1> QED  BY <1>1, <1>2, BackupCounts DEF BackupInv, BackupTypes, B!LastOfDayIsKept

LEMMA BackupStepInv == ASSUME BackupInv, [B!Next]_(B!vars)  PROVE BackupInv'
<1>1. CASE B!Wait \/ B!SetBack
  <2>1. clock' \in 0..LastInstant
    BY <1>1, OnDiskAssumption DEF B!Wait, B!SetBack, BackupInv, BackupTypes
  <2>2. UNCHANGED <<taken, shelf>>
    BY <1>1 DEF B!Wait, B!SetBack
  <2>3. B!LastOfDayIsKept'
    BY <2>2, BackupCounts DEF BackupInv, B!LastOfDayIsKept
  <2> QED  BY <2>1, <2>2, <2>3 DEF BackupInv, BackupTypes
<1>2. CASE B!Snapshot \/ B!CutOff
  BY <1>2, TakenKeeps DEF B!Snapshot, B!CutOff
<1>3. CASE UNCHANGED B!vars
  BY <1>3 DEF B!vars, BackupInv, BackupTypes, B!LastOfDayIsKept
<1> QED  BY <1>1, <1>2, <1>3, PruneKeeps DEF B!Next

\* The last snapshot of each of the last days stays on the shelf, for any number of
\* days, however often the rest is pruned and wherever a prune is cut off.
THEOREM LastOfDayStays == B!Spec => []LastOfDayIsKept
<1>1. B!Spec => []BackupInv
  BY BackupInitInv, BackupStepInv, PTL DEF B!Spec
<1> QED  BY <1>1, PTL DEF BackupInv, LastOfDayIsKept

-----------------------------------------------------------------------------
(* Assembly                                                                *)
\* What is merged, validated and registered so far is what the entries before
\* this one call for.

\* The entries of the fragments before the n-th that were not passed over.
BootBefore(n) ==
  UNION {A!Range(fragments[i].endpoints) : i \in {i \in 1..n - 1 : ~ A!Quarantined(fragments[i])}}

\* The entries before the n-th that can be built have names of their own.
BuiltBefore(n) == {i \in 1..n - 1 : A!Builds(merged[i])}

RegisteredBefore(n) ==
  /\ registered = {merged[i] : i \in BuiltBefore(n)}
  /\ \A i, j \in BuiltBefore(n) : Attr[merged[i]].name = Attr[merged[j]].name => i = j

BootTypes ==
  /\ main \in Mains /\ fragments \in Seq(Fragments)
  /\ merged \in Seq(Entry) /\ next \in Nat \ {0}

ToolsAreOnes ==
  \A e \in registered : ~ A!Displaced(e) =>
    \A p \in registered :
      <<e, p>> \in tools <=> Attr[e].wants # "" /\ Attr[p].name = Attr[e].wants

BootInv ==
  /\ BootTypes
  /\ stage \in {"merging", "validating", "registering", "wiring", "up", "failed"}
  /\ stage = "merging" =>
       next <= Len(fragments) + 1 /\ A!Range(merged) = A!Range(main.endpoints) \cup BootBefore(next)
  /\ stage \in {"validating", "registering", "wiring", "up"} => A!Range(merged) = A!Given
  /\ stage \in {"merging", "validating"} => registered = {}
  /\ stage = "validating" => next = 1
  /\ stage = "registering" => next <= Len(merged) + 1 /\ RegisteredBefore(next)
  /\ stage \in {"wiring", "up"} => RegisteredBefore(Len(merged) + 1)
  /\ stage = "up" => ToolsAreOnes
  /\ stage = "failed" => A!Culprit

LEMMA BootInitInv == ASSUME A!Init  PROVE BootInv
<1>1. fragments \in Seq(Fragments)
  <2>1. CASE fragments = <<>>
    BY <2>1
  <2>2. CASE \E f \in Fragments : fragments = <<f>>
    BY <2>2
  <2>3. CASE fragments \in Fragments \X Fragments
    <3>1. PICK f \in Fragments, g \in Fragments : fragments = <<f, g>>
      BY <2>3
    <3> QED  BY <3>1
  <2> QED  BY <2>1, <2>2, <2>3 DEF A!Init
<1>2. merged \in Seq(Entry)
  BY OnDiskAssumption DEF A!Init
<1>3. BootBefore(1) = {}
  BY DEF BootBefore
<1> QED  BY <1>1, <1>2, <1>3 DEF A!Init, BootInv, BootTypes

LEMMA ConfiguredIsLast ==
  ASSUME BootTypes, NEW e \in A!Range(merged)
  PROVE  /\ A!Configured(e) \in A!Range(merged) /\ Attr[A!Configured(e)].name = Attr[e].name
         /\ ~ A!Displaced(e) => A!Configured(e) = e
<1> DEFINE same == {i \in DOMAIN merged : Attr[merged[i]].name = Attr[e].name}
           final == CHOOSE i \in same : \A j \in same : j <= i
<1>1. same \in SUBSET (0..Len(merged)) /\ Len(merged) \in Nat /\ same # {}
  BY DEF BootTypes, A!Range
<1>2. \E i \in same : \A j \in same : j <= i
  <2> HIDE DEF same
  <2> QED  BY <1>1, LastPosition
<1>3. final \in same /\ \A j \in same : j <= final
  <2> HIDE DEF same
  <2> QED  BY <1>2
<1>4. A!Configured(e) = merged[final]
  BY DEF A!Configured
<1>5. PICK i \in same : merged[i] = e
  BY DEF A!Range
<1> HIDE DEF final
<1>6. i < final \/ i = final
  BY <1>3, <1>1
<1>7. ~ A!Displaced(e) => merged[final] = e
  BY <1>3, <1>5, <1>6 DEF A!Displaced
<1> QED  BY <1>3, <1>4, <1>7 DEF A!Range

LEMMA BootJoined ==
  ASSUME NEW s \in Seq(Entry), NEW t \in Seq(Entry)
  PROVE  s \o t \in Seq(Entry) /\ A!Range(s \o t) = A!Range(s) \cup A!Range(t)
<1> DEFINE u == s \o t
<1>1. /\ u \in Seq(Entry) /\ DOMAIN u = 1..Len(s) + Len(t)
      /\ DOMAIN s = 1..Len(s) /\ DOMAIN t = 1..Len(t) /\ Len(s) \in Nat /\ Len(t) \in Nat
      /\ \A i \in 1..Len(s) : u[i] = s[i]
      /\ \A i \in 1..Len(t) : u[Len(s) + i] = t[i]
  OBVIOUS
<1> HIDE DEF u
<1>2. ASSUME NEW i \in DOMAIN u  PROVE u[i] \in A!Range(s) \cup A!Range(t)
  <2>1. CASE i <= Len(s)
    BY <1>1, <2>1 DEF A!Range
  <2>2. CASE i > Len(s)
    <3>1. i - Len(s) \in DOMAIN t /\ u[i] = t[i - Len(s)]
      <4>1. i - Len(s) \in 1..Len(t) /\ Len(s) + (i - Len(s)) = i
        BY <1>1, <1>2, <2>2
      <4> QED  BY <1>1, <4>1
    <3> QED  BY <3>1 DEF A!Range
  <2> QED  BY <1>1, <1>2, <2>1, <2>2
<1>3. A!Range(s) \subseteq A!Range(u)
  BY <1>1 DEF A!Range
<1>4. A!Range(t) \subseteq A!Range(u)
  <2> SUFFICES ASSUME NEW i \in DOMAIN t  PROVE t[i] \in A!Range(u)
    BY DEF A!Range
  <2>1. Len(s) + i \in DOMAIN u /\ u[Len(s) + i] = t[i]
    BY <1>1
  <2> QED  BY <2>1 DEF A!Range
<1> QED  BY <1>1, <1>2, <1>3, <1>4 DEF u, A!Range

\* What is merged when the fragments are.
LEMMA AllGiven ==
  ASSUME BootTypes
  PROVE  A!Range(main.endpoints) \cup BootBefore(Len(fragments) + 1) = A!Given
<1>1. DOMAIN fragments = 1..Len(fragments) + 1 - 1 /\ Len(fragments) \in Nat
  BY DEF BootTypes
<1> QED  BY <1>1 DEF BootBefore, A!Given, A!Range

LEMMA MergeInv ==
  ASSUME BootInv, stage = "merging", A!PassOver \/ A!Merge \/ A!Merged
  PROVE  BootInv'
<1>0. main \in Mains /\ fragments \in Seq(Fragments) /\ next \in Nat \ {0} /\ merged \in Seq(Entry)
      /\ Len(fragments) \in Nat /\ next <= Len(fragments) + 1 /\ registered = {}
      /\ A!Range(merged) = A!Range(main.endpoints) \cup BootBefore(next)
  BY DEF BootInv, BootTypes
<1>1. CASE A!PassOver
  <2>1. next \in DOMAIN fragments /\ next' = next + 1 /\ A!Quarantined(fragments[next])
        /\ UNCHANGED <<main, fragments, stage, merged, registered, tools>>
    BY <1>0, <1>1 DEF A!PassOver, A!Fragment
  <2>2. BootBefore(next + 1) = BootBefore(next)
    BY <1>0, <2>1 DEF BootBefore
  <2>3. BootBefore(next)' = BootBefore(next + 1)
    BY <2>1 DEF BootBefore
  <2> QED  BY <1>0, <2>1, <2>2, <2>3 DEF BootInv, BootTypes
<1>2. CASE A!Merge
  <2>1. next \in DOMAIN fragments /\ next' = next + 1 /\ ~ A!Quarantined(fragments[next])
        /\ merged' = merged \o fragments[next].endpoints
        /\ UNCHANGED <<main, fragments, stage, registered, tools>>
    BY <1>0, <1>2 DEF A!Merge, A!Fragment
  <2>2. fragments[next].endpoints \in Seq(Entry)
    BY <1>0, <2>1, OnDiskAssumption
  <2>3. merged' \in Seq(Entry) /\ A!Range(merged') = A!Range(merged) \cup A!Range(fragments[next].endpoints)
    BY <1>0, <2>1, <2>2, BootJoined
  <2>4. BootBefore(next + 1) = BootBefore(next) \cup A!Range(fragments[next].endpoints)
    BY <1>0, <2>1 DEF BootBefore
  <2>5. BootBefore(next)' = BootBefore(next + 1)
    BY <2>1 DEF BootBefore
  <2> QED  BY <1>0, <2>1, <2>3, <2>4, <2>5 DEF BootInv, BootTypes
<1>3. CASE A!Merged
  <2>1. next = Len(fragments) + 1 /\ next' = 1 /\ stage' = "validating"
        /\ UNCHANGED <<main, fragments, merged, registered, tools>>
    BY <1>0, <1>3 DEF A!Merged
  <2>2. A!Given' = A!Given
    BY <2>1 DEF A!Given
  <2>3. A!Range(merged) = A!Given
    BY <1>0, <2>1, AllGiven DEF BootTypes
  <2> QED  BY <1>0, <2>1, <2>2, <2>3 DEF BootInv, BootTypes
<1> QED  BY <1>1, <1>2, <1>3

LEMMA CulpritStays ==
  ASSUME UNCHANGED <<main, fragments, merged>>
  PROVE  A!Given' = A!Given /\ (A!Culprit => A!Culprit')
<1>1. A!Given' = A!Given
  BY DEF A!Given
<1>2. A!Sound' = A!Sound
  BY <1>1 DEF A!Sound
<1>3. \A f : A!Crashes(f)' <=> A!Crashes(f)
  BY DEF A!Crashes
<1>4. ASSUME \E f \in A!Range(fragments) : A!Crashes(f)
      PROVE  \E f \in A!Range(fragments)' : A!Crashes(f)'
  BY <1>3, <1>4
<1>5. CASE \E f \in A!Range(fragments) : A!Crashes(f)
  BY <1>1, <1>4, <1>5 DEF A!Culprit
<1>6. CASE \E e \in A!Given : ~ Attr[e].valid
  BY <1>1, <1>6 DEF A!Culprit
<1>7. CASE \E i, j \in DOMAIN merged :
             i # j /\ Attr[merged[i]].name = Attr[merged[j]].name /\ {merged[i], merged[j]} \subseteq A!Sound
  <2>1. PICK i \in DOMAIN merged, j \in DOMAIN merged :
          i # j /\ Attr[merged[i]].name = Attr[merged[j]].name /\ {merged[i], merged[j]} \subseteq A!Sound
    BY <1>7
  <2>2. /\ i \in DOMAIN merged' /\ j \in DOMAIN merged'
        /\ Attr[merged'[i]].name = Attr[merged'[j]].name /\ {merged'[i], merged'[j]} \subseteq A!Sound'
    BY <1>2, <2>1
  <2> QED  BY <1>1, <2>1, <2>2 DEF A!Culprit
<1>8. CASE \E e \in A!Given : Attr[e].wants # "" /\
             ~ \E p \in A!Sound : Attr[p].name = Attr[e].wants /\ Attr[p].offers
  <2>1. PICK e \in A!Given : Attr[e].wants # "" /\
          ~ \E p \in A!Sound : Attr[p].name = Attr[e].wants /\ Attr[p].offers
    BY <1>8
  <2>2. ~ \E p \in A!Sound' : Attr[p].name = Attr[e].wants /\ Attr[p].offers
    BY <1>2, <2>1
  <2> QED  BY <1>1, <2>1, <2>2 DEF A!Culprit
<1>9. CASE ~ main.sound \/ main.null
  BY <1>1, <1>9 DEF A!Culprit
<1> QED  BY <1>1, <1>5, <1>6, <1>7, <1>8, <1>9 DEF A!Culprit

\* A boot that fails leaves everything else as it is.
LEMMA FailInv == ASSUME BootInv, A!Fail, A!Culprit  PROVE BootInv'
<1>1. A!Culprit'
  BY CulpritStays DEF A!Fail
<1> QED  BY <1>1 DEF A!Fail, BootInv, BootTypes

LEMMA ValidateInv == ASSUME BootInv, A!Validate  PROVE BootInv'
<1>1. stage = "validating" /\ A!Range(merged) = A!Given /\ merged \in Seq(Entry)
  BY DEF BootInv, BootTypes, A!Validate
<1>2. CASE A!Acceptable
  <2>1. stage' = "registering" /\ UNCHANGED <<main, fragments, next, merged, registered, tools>>
    BY <1>2 DEF A!Validate
  <2>2. next = 1 /\ registered = {}
    BY <1>1 DEF BootInv
  <2>3. RegisteredBefore(1)'
    BY <2>1, <2>2 DEF RegisteredBefore, BuiltBefore
  <2>4. A!Given' = A!Given
    BY <2>1 DEF A!Given
  <2> QED  BY <1>1, <2>1, <2>2, <2>3, <2>4 DEF BootInv, BootTypes
<1>3. CASE ~ A!Acceptable
  <2>1. A!Culprit
    BY <1>1, <1>3 DEF A!Acceptable, A!Culprit, A!Range
  <2> QED  BY <1>3, <2>1, FailInv DEF A!Validate
<1> QED  BY <1>2, <1>3

LEMMA RegisterInv == ASSUME BootInv, A!Register  PROVE BootInv'
<1> DEFINE e == merged[next]
<1>1. /\ stage = "registering" /\ next \in Nat \ {0} /\ next <= Len(merged) /\ Len(merged) \in Nat
      /\ A!Builds(e) => A!Named(Attr[e].name) = {}
      /\ registered' = IF A!Builds(e) THEN registered \cup {e} ELSE registered
      /\ next' = next + 1 /\ UNCHANGED <<main, fragments, stage, merged, tools>>
  BY DEF A!Register, BootInv, BootTypes
<1>2. RegisteredBefore(next)
  BY <1>1 DEF BootInv
<1>3. BuiltBefore(next + 1) = IF A!Builds(e) THEN BuiltBefore(next) \cup {next} ELSE BuiltBefore(next)
  BY <1>1 DEF BuiltBefore
<1>4. registered' = {merged[i] : i \in BuiltBefore(next + 1)}
  BY <1>1, <1>2, <1>3 DEF RegisteredBefore
<1>5. ASSUME NEW i \in BuiltBefore(next + 1), NEW j \in BuiltBefore(next + 1),
             Attr[merged[i]].name = Attr[merged[j]].name
      PROVE  i = j
  <2>1. \A k \in BuiltBefore(next) : A!Builds(e) => Attr[merged[k]].name # Attr[e].name
    BY <1>1, <1>2 DEF RegisteredBefore, A!Named
  <2> QED  BY <1>2, <1>3, <1>5, <2>1 DEF RegisteredBefore
<1>6. RegisteredBefore(next)'
  <2>1. BuiltBefore(next)' = BuiltBefore(next + 1)
    BY <1>1 DEF BuiltBefore
  <2> QED  BY <1>1, <1>4, <1>5, <2>1 DEF RegisteredBefore
<1>7. A!Given' = A!Given
  BY <1>1 DEF A!Given
<1> HIDE DEF e
<1> QED  BY <1>1, <1>6, <1>7 DEF BootInv, BootTypes

LEMMA NameTakenInv == ASSUME BootInv, A!NameTaken  PROVE BootInv'
<1>1. /\ stage = "registering" /\ next \in Nat \ {0} /\ next <= Len(merged) /\ Len(merged) \in Nat
      /\ A!Builds(merged[next]) /\ A!Named(Attr[merged[next]].name) # {} /\ A!Fail
      /\ RegisteredBefore(next) /\ A!Range(merged) = A!Given /\ merged \in Seq(Entry)
  BY DEF A!NameTaken, BootInv, BootTypes
<1>2. PICK i \in BuiltBefore(next) : Attr[merged[i]].name = Attr[merged[next]].name
  BY <1>1 DEF A!Named, RegisteredBefore
<1>3. i \in DOMAIN merged /\ next \in DOMAIN merged /\ i # next /\ A!Builds(merged[i])
  BY <1>1, <1>2 DEF BuiltBefore
<1>4. {merged[i], merged[next]} \subseteq A!Sound
  BY <1>1, <1>3 DEF A!Sound, A!Range
<1>5. A!Culprit
  BY <1>2, <1>3, <1>4 DEF A!Culprit
<1> QED  BY <1>1, <1>5, FailInv

LEMMA RegisteredInv == ASSUME BootInv, A!Registered  PROVE BootInv'
<1>1. /\ stage = "registering" /\ next = Len(merged) + 1 /\ stage' = "wiring"
      /\ UNCHANGED <<main, fragments, next, merged, registered, tools>>
      /\ RegisteredBefore(next) /\ A!Range(merged) = A!Given
  BY DEF BootInv, BootTypes, A!Registered
<1>2. A!Given' = A!Given /\ RegisteredBefore(Len(merged) + 1)'
  BY <1>1 DEF A!Given, RegisteredBefore, BuiltBefore
<1> QED  BY <1>1, <1>2 DEF BootInv, BootTypes

LEMMA AllRegistered ==
  ASSUME BootTypes, A!Range(merged) = A!Given, RegisteredBefore(Len(merged) + 1)
  PROVE  registered = A!Sound
<1>1. BuiltBefore(Len(merged) + 1) = {i \in DOMAIN merged : A!Builds(merged[i])}
  BY DEF BuiltBefore, BootTypes
<1> QED  BY <1>1 DEF RegisteredBefore, A!Sound, A!Range

LEMMA WireInv == ASSUME BootInv, A!Wire  PROVE BootInv'
<1>1. /\ stage = "wiring" /\ BootTypes /\ A!Range(merged) = A!Given /\ RegisteredBefore(Len(merged) + 1)
      /\ registered = A!Sound
  BY AllRegistered DEF BootInv, A!Wire
<1>2. CASE \E e \in registered : A!Wanted(e) # "" /\ A!Offering(A!Wanted(e)) = {}
  <2>1. PICK e \in registered : A!Wanted(e) # "" /\ A!Offering(A!Wanted(e)) = {}
    BY <1>2
  <2>2. A!Configured(e) \in A!Given
    BY <1>1, ConfiguredIsLast DEF A!Sound
  <2>3. ~ \E p \in A!Sound : Attr[p].name = Attr[A!Configured(e)].wants /\ Attr[p].offers
    BY <1>1, <2>1 DEF A!Wanted, A!Offering, A!Named
  <2>4. A!Culprit
    BY <2>1, <2>2, <2>3 DEF A!Culprit, A!Wanted
  <2> QED  BY <1>2, <2>4, FailInv DEF A!Wire
<1>3. CASE ~ \E e \in registered : A!Wanted(e) # "" /\ A!Offering(A!Wanted(e)) = {}
  <2>1. /\ tools' = UNION {{<<e, p>> : p \in A!Offering(A!Wanted(e))} : e \in {e \in registered : A!Wanted(e) # ""}}
        /\ stage' = "up" /\ UNCHANGED <<main, fragments, next, merged, registered>>
    BY <1>1, <1>3 DEF A!Wire
  <2>2. A!Given' = A!Given /\ RegisteredBefore(Len(merged) + 1)'
    BY <1>1, <2>1 DEF A!Given, RegisteredBefore, BuiltBefore
  <2>3. ASSUME NEW e \in registered, NEW p \in registered, ~ A!Displaced(e)
        PROVE  <<e, p>> \in tools' <=> Attr[e].wants # "" /\ Attr[p].name = Attr[e].wants
    <3>1. A!Configured(e) = e
      BY <1>1, <2>3, ConfiguredIsLast DEF A!Sound
    <3>2. <<e, p>> \in tools' <=> Attr[e].wants # "" /\ p \in A!Offering(Attr[e].wants)
      <4>1. A!Wanted(e) = Attr[e].wants
        BY <3>1 DEF A!Wanted
      <4>2. ASSUME A!Wanted(e) # "", p \in A!Offering(A!Wanted(e))  PROVE <<e, p>> \in tools'
        <5>1. <<e, p>> \in {<<e, q>> : q \in A!Offering(A!Wanted(e))}
          BY <4>2
        <5> QED  BY <2>1, <4>2, <5>1
      <4>3. ASSUME <<e, p>> \in tools'  PROVE A!Wanted(e) # "" /\ p \in A!Offering(A!Wanted(e))
        <5>1. PICK f \in {f \in registered : A!Wanted(f) # ""} :
                <<e, p>> \in {<<f, q>> : q \in A!Offering(A!Wanted(f))}
          BY <2>1, <4>3
        <5>2. PICK q \in A!Offering(A!Wanted(f)) : <<e, p>> = <<f, q>>
          BY <5>1
        <5> QED  BY <5>2
      <4> QED  BY <4>1, <4>2, <4>3
    <3>3. ASSUME Attr[e].wants # "", Attr[p].name = Attr[e].wants
          PROVE  p \in A!Offering(Attr[e].wants)
      <4>1. PICK q \in A!Offering(Attr[e].wants) : TRUE
        BY <1>3, <3>1, <3>3 DEF A!Wanted
      <4>2. q \in registered /\ Attr[q].offers /\ Attr[q].name = Attr[p].name
        BY <3>3, <4>1 DEF A!Offering, A!Named
      <4>3. q = p
        BY <1>1, <4>2 DEF RegisteredBefore
      <4> QED  BY <4>1, <4>3
    <3> QED  BY <3>2, <3>3 DEF A!Offering, A!Named
  <2>4. ToolsAreOnes'
    <3>1. \A e : A!Displaced(e)' <=> A!Displaced(e)
      BY <2>1 DEF A!Displaced
    <3>2. registered' = registered
      BY <2>1
    <3> QED  BY <2>3, <3>1, <3>2 DEF ToolsAreOnes
  <2> QED  BY <1>1, <2>1, <2>2, <2>4 DEF BootInv, BootTypes
<1> QED  BY <1>2, <1>3

LEMMA MergeFailsInv == ASSUME BootInv, A!MergeFails  PROVE BootInv'
<1>1. next \in DOMAIN fragments /\ A!Crashes(fragments[next]) /\ A!Fail
  BY DEF A!MergeFails, A!Fragment, BootInv, BootTypes
<1>2. A!Culprit
  BY <1>1 DEF A!Culprit, A!Range
<1> QED  BY <1>1, <1>2, FailInv

LEMMA BootStepInv == ASSUME BootInv, [A!Next]_(A!vars)  PROVE BootInv'
<1>1. CASE A!PassOver \/ A!Merge \/ A!Merged
  BY <1>1, MergeInv DEF A!PassOver, A!Merge, A!Merged
<1>2. CASE UNCHANGED A!vars
  <2>1. UNCHANGED <<main, fragments, stage, next, merged, registered, tools>>
    BY <1>2 DEF A!vars
  <2>2. A!Given' = A!Given /\ (A!Culprit => A!Culprit')
    BY <2>1, CulpritStays
  <2>3. /\ BootBefore(next)' = BootBefore(next) /\ BuiltBefore(next)' = BuiltBefore(next)
        /\ BuiltBefore(Len(merged) + 1)' = BuiltBefore(Len(merged) + 1)
    BY <2>1 DEF BootBefore, BuiltBefore
  <2>4. ToolsAreOnes => ToolsAreOnes'
    BY <2>1, <2>2 DEF ToolsAreOnes, A!Displaced
  <2> QED  BY <2>1, <2>2, <2>3, <2>4 DEF BootInv, BootTypes, RegisteredBefore
<1> QED
  BY <1>1, <1>2, MergeFailsInv, ValidateInv, RegisterInv, NameTakenInv, RegisteredInv, WireInv
  DEF A!Next

LEMMA InvIsContained == ASSUME BootInv  PROVE A!MistakesAreContained
<1>1. ASSUME stage = "up"  PROVE registered = A!Sound /\ ToolsAreOnes
  BY <1>1, AllRegistered DEF BootInv
<1> QED  BY <1>1 DEF BootInv, ToolsAreOnes, A!MistakesAreContained

\* A boot that failed has a culprit (an unreadable fragment is one), and one that
\* is up has registered exactly the sound entries, each with the tools it names
\* unless an entry of its name was passed over after it, for any files.
THEOREM MistakesStayContained == A!Spec => []MistakesAreContained
<1>1. A!Spec => []BootInv
  BY BootInitInv, BootStepInv, PTL DEF A!Spec
<1> QED  BY <1>1, InvIsContained, PTL DEF MistakesAreContained

-----------------------------------------------------------------------------
(* Hatch                                                                   *)
\* A hatch takes back nothing that was there before it.

\* Only what is in the vault grows, and it goes where the vault goes.
InTheVault ==
  /\ \A p \in G!Path : planted[p] = "grown" => p \in G!Range(Template)
  /\ \A p \in G!Range(Template) : planted[p] # "none" => root

\* A hatch takes back nothing that was there, and one that makes a new vault
\* finds nothing grown.
TakesBackItsOwn ==
  step # "idle" =>
    /\ \A p \in written \cap G!Path : planted[p] # "grown"
    /\ topUp \in BOOLEAN
    /\ topUp \/ \A p \in G!Path : planted[p] # "grown"

HatchInv == planted \in [G!Path -> {"none", "written", "grown"}] /\ InTheVault /\ TakesBackItsOwn

LEMMA PathFacts ==
  /\ G!Range(Template) \subseteq G!Path
  /\ \A p \in {"endpoints.d", "jobs.d", "mcp.json"} : p \in G!Path /\ p \notin G!Range(Template)
<1>1. ASSUME NEW i \in DOMAIN Template  PROVE Template[i] \in G!Path
  <2>1. i \in DOMAIN G!Order /\ G!Order[i] = Template[i]
    BY OnDiskAssumption DEF G!Order, G!Outside
  <2> QED  BY <2>1 DEF G!Path, G!Range
<1>2. ASSUME NEW i \in DOMAIN G!Outside  PROVE G!Outside[i] \in G!Path
  <2>1. i \in 1..4 /\ Len(Template) \in Nat
    BY OnDiskAssumption DEF G!Outside
  <2>2. i + Len(Template) \in DOMAIN G!Order /\ G!Order[i + Len(Template)] = G!Outside[i]
    BY OnDiskAssumption, <2>1 DEF G!Order, G!Outside
  <2> QED  BY <2>2 DEF G!Path, G!Range
<1>3. /\ 1 \in DOMAIN G!Outside /\ G!Outside[1] = "endpoints.d"
      /\ 2 \in DOMAIN G!Outside /\ G!Outside[2] = "jobs.d"
      /\ 4 \in DOMAIN G!Outside /\ G!Outside[4] = "mcp.json"
  BY DEF G!Outside
<1>4. \A p \in {"endpoints.d", "jobs.d", "mcp.json"} : p \in G!Path /\ p \in G!Range(G!Outside)
  BY <1>2, <1>3 DEF G!Range
<1> QED  BY OnDiskAssumption, <1>1, <1>4 DEF G!Range

LEMMA HatchInitInv == ASSUME G!Init  PROVE HatchInv
  BY PathFacts DEF G!Init, HatchInv, InTheVault, TakesBackItsOwn

\* What a rollback takes away was not grown.
LEMMA RollbackKeeps ==
  ASSUME HatchInv, step # "idle", G!Rollback
  PROVE  HatchInv' /\ \A p \in G!Path : planted[p] = "grown" => planted'[p] = "grown"
<1>1. \A p \in G!Path : planted'[p] = IF p \in written THEN "none" ELSE planted[p]
  BY DEF G!Rollback
<1> QED  BY <1>1, PathFacts DEF G!Rollback, HatchInv, InTheVault, TakesBackItsOwn

LEMMA HatchWriteKeeps ==
  ASSUME HatchInv, G!Write
  PROVE  HatchInv' /\ \A p \in G!Path : planted[p] = "grown" => planted'[p] = "grown"
<1>1. step \in G!Path /\ step # "idle" /\ planted[step] # "grown"
  BY OnDiskAssumption DEF G!Write, HatchInv, TakesBackItsOwn
<1>2. \A p \in G!Path : planted'[p] = IF p = step THEN "written" ELSE planted[p]
  BY <1>1 DEF G!Write, HatchInv
<1>3. written' \subseteq written \cup {step, "endpoints.d", "jobs.d"}
  BY DEF G!Write
<1>4. \A p \in {"endpoints.d", "jobs.d"} : planted[p] # "grown"
  BY PathFacts DEF HatchInv, InTheVault
<1>5. \A p \in written' \cap G!Path : planted'[p] # "grown"
  BY <1>1, <1>2, <1>3, <1>4 DEF HatchInv, TakesBackItsOwn
<1>6. planted' \in [G!Path -> {"none", "written", "grown"}]
  BY DEF G!Write, HatchInv
<1> QED  BY <1>1, <1>2, <1>5, <1>6, PathFacts DEF G!Write, HatchInv, InTheVault, TakesBackItsOwn

LEMMA HatchStepInv ==
  ASSUME HatchInv, [G!Next]_(G!vars)
  PROVE  HatchInv' /\ \A p \in G!Path : step # "idle" /\ planted[p] = "grown" => planted'[p] = "grown"
<1> USE DEF HatchInv, InTheVault, TakesBackItsOwn
<1>1. CASE G!Refuse \/ G!Validate \/ G!NoDaemon \/ G!Reload \/ G!Probe
  BY <1>1 DEF G!Refuse, G!Validate, G!NoDaemon, G!Reload, G!Probe
<1>2. CASE G!Begin
  <2>1. topUp' \/ \A p \in G!Path : planted[p] # "grown"
    BY <1>2 DEF G!Begin
  <2> QED  BY <1>2, <2>1 DEF G!Begin
<1>3. CASE G!Skip
  <2>1. step # "idle"
    BY <1>3, OnDiskAssumption DEF G!Skip
  <2> QED  BY <1>3, <2>1 DEF G!Skip
<1>4. CASE G!WriteFails \/ G!ValidateFails
  <2>1. step # "idle" /\ G!Rollback
    BY <1>4, OnDiskAssumption DEF G!WriteFails, G!ValidateFails
  <2> QED  BY <2>1, RollbackKeeps
<1>5. CASE G!Grow
  <2>1. PICK p \in G!Range(Template) : planted[p] = "written" /\ planted' = [planted EXCEPT ![p] = "grown"]
    BY <1>5 DEF G!Grow
  <2> QED  BY <1>5, <2>1, PathFacts DEF G!Grow
<1>6. CASE G!MoveVault
  <2>1. \A p \in G!Path : planted'[p] = IF p \in G!InVault THEN "none" ELSE planted[p]
    BY <1>6 DEF G!MoveVault
  <2> QED  BY <1>6, <2>1, PathFacts DEF G!MoveVault, G!InVault
<1>7. CASE G!MoveFile
  BY <1>7, PathFacts DEF G!MoveFile
<1>8. CASE UNCHANGED G!vars
  BY <1>8 DEF G!vars
<1> QED
  BY <1>1, <1>2, <1>3, <1>4, <1>5, <1>6, <1>7, <1>8, HatchWriteKeeps DEF G!Next

\* No rollback of a hatch and no hatch on top of another takes what the being made
\* of a file of its vault, for any vault and any files around it.
THEOREM WhatGrewIsKept == G!Spec => GrowthIsKept
<1>1. G!Spec => []HatchInv
  BY HatchInitInv, HatchStepInv, PTL DEF G!Spec
<1>2. HatchInv /\ [G!Next]_(G!vars) =>
        [\A p \in G!Path : step # "idle" /\ planted[p] = "grown" => planted'[p] = "grown"]_(G!vars)
  BY HatchStepInv
<1> QED  BY <1>1, <1>2, PTL DEF G!Spec, G!GrowthIsKept, GrowthIsKept

-----------------------------------------------------------------------------
(* Vault                                                                   *)
\* Whoever opened the vault got its password from a backend that still has it,
\* and what a process loaded is what is there, unless one wrote over another.

VaultPlace ==
  {"out", "looking", "opening", "reading", "founding", "making", "creating", "generating",
   "writing", "writing first", "scrubbing", "saving"}

VaultTypes ==
  /\ keyring \in [up : BOOLEAN, has : BOOLEAN]
  /\ key \in Process \cup {None}
  /\ where \in [Process -> VaultPlace]
  /\ DOMAIN held = Process
  /\ saved \subseteq Service
  /\ mixed \in BOOLEAN /\ orphaned \in BOOLEAN /\ scrubbed \in BOOLEAN

\* A backend can give the password back.
Secured == keyring.has \/ S!Readable

VaultHeld ==
  ~ mixed => \A p \in Process :
    /\ where[p] = "writing" => held[p] = key /\ key # None
    /\ where[p] = "writing first" => held[p] \in {None, key}
    /\ where[p] \in {"scrubbing", "opening", "making"} => Secured
    /\ where[p] = "saving" => database # None

\* The vault holds what was saved, and before there is one nothing was.
VaultKept == ~ mixed => (database = None /\ saved = {}) \/ database = [has |-> saved]

VaultInv == VaultTypes /\ VaultHeld /\ VaultKept /\ S!PasswordIsKept /\ S!VaultHasPassword

\* What is in the vault is a record, and None is no record.
LEMMA VaultRecords ==
  \A set \in SUBSET Service : [has |-> set].has = set /\ [has |-> set] # None
  BY OnDiskAssumption

LEMMA VaultInitInv == ASSUME S!Init  PROVE VaultInv
<1>1. VaultTypes
  BY DEF S!Init, VaultTypes, VaultPlace
<1>2. VaultHeld /\ VaultKept /\ S!PasswordIsKept /\ S!VaultHasPassword
  BY DEF S!Init, VaultHeld, VaultKept, S!PasswordIsKept, S!VaultHasPassword
<1> QED  BY <1>1, <1>2 DEF VaultInv

\* A process that goes on without touching what is stored.
LEMMA VaultMoves ==
  ASSUME VaultInv, NEW p \in Process,
         NEW to \in {"out", "looking", "opening", "reading", "founding", "making", "saving"},
         S!Goes(p, to),
         UNCHANGED held \/ \E h : held' = [held EXCEPT ![p] = h],
         UNCHANGED <<database, keyring, key, data, dotenv, scrubbed, saved, mixed>>,
         orphaned' = (orphaned \/ S!Unsecured(p)),
         to \in {"opening", "making"} => Secured,
         to = "saving" => database # None
  PROVE  VaultInv'
<1> USE DEF VaultInv, VaultTypes, S!Goes
<1>1. VaultTypes'
  BY DEF VaultPlace, S!Unsecured
<1>2. /\ where'[p] = to
      /\ \A q \in Process : q # p => (where'[q] = where[q] /\ held'[q] = held[q])
      /\ S!Readable' = S!Readable /\ Secured' = Secured
  BY DEF S!Readable, Secured
<1>3. VaultHeld'
  BY <1>2 DEF VaultHeld
<1>4. VaultKept' /\ S!PasswordIsKept'
  BY <1>2 DEF VaultKept, S!PasswordIsKept, Secured
<1>5. \A q \in Process : S!Unsecured(q) => S!Unsecured(q)' \/ orphaned'
  BY <1>2 DEF S!Unsecured
<1>6. S!VaultHasPassword'
  BY <1>2, <1>5 DEF S!VaultHasPassword
<1> QED  BY <1>1, <1>3, <1>4, <1>6

LEMMA PasswordKeeps ==
  ASSUME VaultInv, NEW p \in Process, S!SetPassword(p) \/ S!WriteKey(p) \/ S!WriteData(p) \/ S!Scrub(p)
  PROVE  VaultInv'
<1> USE DEF VaultInv, VaultTypes, S!Goes, VaultPlace
<1>1. UNCHANGED <<database, saved>> /\ (mixed => mixed')
  BY DEF S!SetPassword, S!WriteKey, S!WriteData, S!Scrub
<1>2. VaultKept'
  BY <1>1 DEF VaultKept
<1>3. CASE S!SetPassword(p)
  <2>1. UNCHANGED <<key, data, scrubbed, dotenv, mixed>> /\ where[p] \in {"reading", "creating"}
    BY <1>3 DEF S!SetPassword
  <2>2. CASE /\ keyring' = [keyring EXCEPT !.has = TRUE] /\ UNCHANGED <<held, orphaned>>
             /\ S!Goes(p, IF where[p] = "creating" THEN "out" ELSE "scrubbing")
    <3>1. VaultTypes' /\ Secured'
      BY <1>1, <2>1, <2>2 DEF Secured
    <3>2. VaultHeld'
      BY <1>1, <2>1, <2>2, <3>1 DEF VaultHeld
    <3> QED
      BY <1>2, <3>1, <3>2 DEF S!PasswordIsKept, S!VaultHasPassword, Secured
  <2>3. CASE /\ S!Goes(p, "out") /\ UNCHANGED <<keyring, held>>
             /\ orphaned' = (orphaned \/ S!Unsecured(p))
    BY <1>1, <2>1, <2>3, VaultMoves
  <2>4. CASE /\ held' = [held EXCEPT ![p] = key] /\ UNCHANGED <<keyring, orphaned>>
             /\ S!Goes(p, IF where[p] = "creating" THEN "writing first"
                          ELSE IF key = None THEN "generating" ELSE "writing")
    <3>1. PICK to \in {"writing first", "generating", "writing"} :
            /\ where' = [where EXCEPT ![p] = to]
            /\ to = "writing" => key # None
            /\ where[p] = "creating" => to = "writing first"
      BY <2>4
    <3>2. VaultTypes' /\ S!Readable' = S!Readable /\ Secured' = Secured
      BY <1>1, <2>1, <2>4, <3>1 DEF S!Readable, Secured
    <3>3. VaultHeld'
      BY <1>1, <2>1, <2>4, <3>1, <3>2 DEF VaultHeld
    <3>4. \A q \in Process : S!Unsecured(q) => S!Unsecured(q)'
      BY <2>1, <3>1 DEF S!Unsecured
    <3>5. S!PasswordIsKept' /\ S!VaultHasPassword'
      BY <1>1, <2>1, <2>4, <3>2, <3>4 DEF S!PasswordIsKept, S!VaultHasPassword
    <3> QED  BY <1>2, <3>2, <3>3, <3>5
  <2> QED  BY <1>3, <2>2, <2>3, <2>4 DEF S!SetPassword
<1>4. CASE S!WriteKey(p)
  <2>1. /\ key' = p /\ held' = [held EXCEPT ![p] = p] /\ mixed' = (mixed \/ key # None)
        /\ UNCHANGED <<keyring, data, dotenv, scrubbed, orphaned>>
        /\ \/ where[p] = "generating" /\ where' = [where EXCEPT ![p] = "writing"]
           \/ where[p] = "writing first" /\ held[p] = None /\ UNCHANGED where
    BY <1>4 DEF S!WriteKey
  <2>2. VaultTypes'
    BY <1>1, <2>1
  <2>3. ~ mixed' => ~ mixed /\ key = None /\ ~ S!Readable /\ (Secured => Secured')
    BY <2>1 DEF S!Readable, Secured
  <2>4. VaultHeld'
    <3> SUFFICES ASSUME ~ mixed'  PROVE VaultHeld'
      BY DEF VaultHeld
    <3>1. /\ where'[p] \in {"writing", "writing first"} /\ held'[p] = p /\ key' = p /\ p # None
          /\ \A q \in Process : q # p => where'[q] = where[q] /\ held'[q] = held[q]
      BY OnDiskAssumption, <2>1
    <3> QED  BY <1>1, <2>3, <3>1 DEF VaultHeld
  <2>5. \A q \in Process : S!Unsecured(q) => S!Unsecured(q)'
    BY <2>1 DEF S!Unsecured
  <2>6. S!PasswordIsKept' /\ S!VaultHasPassword'
    BY <1>1, <2>1, <2>3, <2>5 DEF S!PasswordIsKept, S!VaultHasPassword, Secured
  <2> QED  BY <1>2, <2>2, <2>4, <2>6
<1>5. CASE S!WriteData(p)
  <2>1. /\ data' = held[p] /\ UNCHANGED <<keyring, key, dotenv, scrubbed, held, mixed, orphaned>>
        /\ \/ where[p] = "writing" /\ where' = [where EXCEPT ![p] = "scrubbing"]
           \/ where[p] = "writing first" /\ held[p] # None /\ where' = [where EXCEPT ![p] = "out"]
    BY <1>5 DEF S!WriteData
  <2>2. VaultTypes'
    BY <1>1, <2>1
  <2>3. ~ mixed => S!Readable' /\ Secured'
    BY <2>1 DEF VaultHeld, S!Readable, Secured
  <2>4. VaultHeld'
    BY <1>1, <2>1, <2>3 DEF VaultHeld
  <2> QED  BY <1>2, <2>1, <2>2, <2>3, <2>4 DEF S!PasswordIsKept, S!VaultHasPassword
<1>6. CASE S!Scrub(p)
  <2>1. /\ where[p] = "scrubbing" /\ where' = [where EXCEPT ![p] = "opening"]
        /\ scrubbed' = TRUE /\ UNCHANGED <<keyring, key, data, held, mixed, orphaned>>
    BY <1>6 DEF S!Scrub
  <2>2. VaultTypes' /\ S!Readable' = S!Readable /\ Secured' = Secured /\ (~ mixed => Secured)
    BY <1>1, <2>1 DEF S!Readable, Secured, VaultHeld
  <2>3. VaultHeld'
    BY <1>1, <2>1, <2>2 DEF VaultHeld
  <2> QED
    BY <1>1, <1>2, <2>1, <2>2, <2>3 DEF S!PasswordIsKept, S!VaultHasPassword, Secured
<1> QED  BY <1>3, <1>4, <1>5, <1>6

LEMMA VaultKeeps ==
  ASSUME VaultInv, NEW p \in Process,
         S!Make(p) \/ \E s \in Service : S!Set(p, s) \/ S!Delete(p, s)
  PROVE  VaultInv'
<1> USE DEF VaultInv, VaultTypes, S!Goes, VaultPlace
<1>1. UNCHANGED <<keyring, key, data, dotenv, scrubbed, held, orphaned>> /\ (mixed => mixed')
  BY DEF S!Make, S!Set, S!Delete, S!Save, S!passwords
<1>2. S!Readable' = S!Readable /\ Secured' = Secured
  BY <1>1 DEF S!Readable, Secured
<1>3. S!PasswordIsKept'
  BY <1>1, <1>2 DEF S!PasswordIsKept
<1>4. CASE S!Make(p)
  <2>1. /\ database' = [has |-> {}] /\ mixed' = (mixed \/ database # None) /\ UNCHANGED saved
        /\ \/ where[p] = "founding" /\ where' = [where EXCEPT ![p] = "creating"]
           \/ where[p] = "making" /\ where' = [where EXCEPT ![p] = "saving"]
    BY <1>4 DEF S!Make
  <2>2. VaultTypes' /\ database' # None
    BY <1>1, <2>1, VaultRecords
  <2>3. VaultHeld'
    BY <1>1, <1>2, <2>1, <2>2 DEF VaultHeld
  <2>4. VaultKept'
    <3>1. ASSUME ~ mixed'  PROVE database' = [has |-> saved']
      <4>1. ~ mixed /\ database = None
        BY <2>1, <3>1
      <4>2. saved = {}
        BY <4>1, VaultRecords DEF VaultKept
      <4> QED  BY <2>1, <4>2
    <3> QED  BY <3>1 DEF VaultKept
  <2>5. S!VaultHasPassword'
    <3>1. CASE where[p] = "founding"
      BY <2>1, <3>1 DEF S!VaultHasPassword, S!Unsecured
    <3>2. CASE where[p] = "making"
      BY <1>1, <1>2, <2>1, <3>2 DEF S!VaultHasPassword, VaultHeld, Secured
    <3> QED  BY <2>1, <3>1, <3>2
  <2> QED  BY <1>3, <2>2, <2>3, <2>4, <2>5
<1>5. ASSUME NEW s \in Service, S!Set(p, s) \/ S!Delete(p, s)  PROVE VaultInv'
  <2>1. PICK set \in {held[p] \cup {s}, held[p] \ {s}} :
          /\ where[p] = "saving" /\ where' = [where EXCEPT ![p] = "out"]
          /\ database' = [has |-> set] /\ mixed' = (mixed \/ database.has # held[p])
          /\ \/ set = held[p] \cup {s} /\ saved' = saved \cup {s}
             \/ set = held[p] \ {s} /\ saved' = saved \ {s}
    BY <1>5 DEF S!Set, S!Delete, S!Save
  <2>2. VaultTypes'
    BY <1>1, <2>1
  <2>3. ASSUME ~ mixed'  PROVE database' = [has |-> saved'] /\ database # None /\ database' # None
    <3>1. database = [has |-> saved]
      BY <2>1, <2>3 DEF VaultHeld, VaultKept
    <3>2. held[p] = saved
      BY <2>1, <2>3, <3>1, VaultRecords
    <3>3. set = saved' /\ saved' \in SUBSET Service
      BY <2>1, <3>2
    <3> QED  BY <2>1, <3>1, <3>3, VaultRecords
  <2>4. VaultKept'
    BY <2>3 DEF VaultKept
  <2>5. VaultHeld'
    BY <1>1, <1>2, <2>1, <2>3 DEF VaultHeld
  <2>6. \A q \in Process : S!Unsecured(q) => S!Unsecured(q)'
    BY <2>1 DEF S!Unsecured
  <2>7. S!VaultHasPassword'
    BY <1>1, <1>2, <2>3, <2>6 DEF S!VaultHasPassword
  <2> QED  BY <1>3, <2>2, <2>4, <2>5, <2>7
<1> QED  BY <1>4, <1>5

LEMMA VaultStepInv == ASSUME VaultInv, [S!Next]_(S!vars)  PROVE VaultInv'
<1>1. ASSUME NEW p \in Process,
             S!Look(p) \/ S!Found(p) \/ S!NotStored(p) \/ S!NotFound(p) \/ S!Create(p) \/ S!Get(p)
      PROVE  VaultInv'
  <2>1. PICK to \in {"looking", "opening", "reading", "out", "founding"} :
          S!Goes(p, to) /\ (to = "opening" => S!Stored(p)) /\ ~ S!Unsecured(p)
    BY <1>1 DEF S!Look, S!Found, S!NotStored, S!NotFound, S!Create, S!Get, S!Unsecured
  <2>2. UNCHANGED <<database, keyring, key, data, dotenv, scrubbed, held, saved, mixed, orphaned>>
    BY <1>1 DEF S!Look, S!Found, S!NotStored, S!NotFound, S!Create, S!Get, S!passwords
  <2>3. orphaned' = (orphaned \/ S!Unsecured(p))
    BY <2>1, <2>2 DEF VaultInv, VaultTypes
  <2>4. S!Stored(p) => Secured
    BY DEF S!Stored, Secured
  <2> QED  BY <2>1, <2>2, <2>3, <2>4, VaultMoves
<1>2. ASSUME NEW p \in Process, S!CutOff(p)  PROVE VaultInv'
  <2>1. /\ S!Goes(p, "out") /\ orphaned' = (orphaned \/ S!Unsecured(p))
        /\ UNCHANGED <<database, keyring, key, data, dotenv, scrubbed, held, saved, mixed>>
    BY <1>2 DEF S!CutOff, S!passwords
  <2> QED  BY <2>1, VaultMoves
<1>3. ASSUME NEW p \in Process, S!Open(p)  PROVE VaultInv'
  <2>1. PICK to \in {"making", "out", "saving"} :
          /\ S!Goes(p, to) /\ where[p] = "opening" /\ (to = "saving" => database # None)
          /\ held' = [held EXCEPT ![p] = IF database = None THEN {} ELSE database.has]
    BY <1>3 DEF S!Open
  <2>2. UNCHANGED <<database, keyring, key, data, dotenv, scrubbed, saved, mixed, orphaned>>
    BY <1>3 DEF S!Open, S!passwords
  <2>3. orphaned' = (orphaned \/ S!Unsecured(p))
    BY <2>1, <2>2 DEF VaultInv, VaultTypes, S!Unsecured
  <2>4. CASE mixed
    <3>1. mixed' /\ VaultTypes'
      BY <2>1, <2>2, <2>4 DEF VaultInv, VaultTypes, VaultPlace, S!Goes
    <3> QED
      BY <3>1 DEF VaultInv, VaultHeld, VaultKept, S!PasswordIsKept, S!VaultHasPassword
  <2>5. CASE ~ mixed
    <3>1. Secured
      BY <2>1, <2>5 DEF VaultInv, VaultHeld
    <3> QED  BY <2>1, <2>2, <2>3, <3>1, VaultMoves
  <2> QED  BY <2>4, <2>5 DEF VaultInv, VaultTypes
<1>4. CASE S!KeyringTurns \/ UNCHANGED S!vars
  <2>1. /\ keyring'.has = keyring.has /\ keyring' \in [up : BOOLEAN, has : BOOLEAN]
        /\ UNCHANGED <<database, key, data, dotenv, scrubbed, where, held, saved, mixed, orphaned>>
    BY <1>4 DEF S!KeyringTurns, S!vars, VaultInv, VaultTypes
  <2>2. /\ S!Readable' = S!Readable /\ Secured' = Secured
        /\ \A p \in Process : S!Unsecured(p)' = S!Unsecured(p)
    BY <2>1 DEF S!Readable, Secured, S!Unsecured
  <2> QED
    BY <2>1, <2>2
    DEF VaultInv, VaultTypes, VaultHeld, VaultKept, S!PasswordIsKept, S!VaultHasPassword
<1> QED  BY <1>1, <1>2, <1>3, <1>4, PasswordKeeps, VaultKeeps DEF S!Next

\* A password that was scrubbed from .env can be given back, a vault has its
\* password somewhere unless an init that made it did not come to store it, and
\* what was set is in it, for any processes and services, cut off anywhere, as
\* long as none writes over what another wrote since it looked.
THEOREM NothingGetsLost == S!Spec => []NothingIsLost
<1>1. S!Spec => []VaultInv
  BY VaultInitInv, VaultStepInv, PTL DEF S!Spec
<1>2. VaultInv => S!NothingIsLost
  BY VaultRecords DEF VaultInv, VaultTypes, VaultKept, S!NothingIsLost, S!SavedIsThere
<1> QED  BY <1>1, <1>2, PTL DEF NothingIsLost
=============================================================================
