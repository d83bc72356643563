------------------------------ MODULE MCAgent ------------------------------
(***************************************************************************)
(* Small instances of the agent's endpoint for TLC: its mailbox and the    *)
(* parts of AgentSide. They share no variable, so one run explores each on *)
(* its own: a behaviour is one of a single part.                           *)
(***************************************************************************)
EXTENDS AgentMailbox, AgentSide

CONSTANTS m1, m2, e1, e2, e3, c1, s1, s2, Parts

VARIABLE part

Ranks == [e \in Mail |-> IF e = m1 THEN 2 ELSE 0]
Delays == [red |-> 1, yellow |-> 2, green |-> 4]

\* Two of one sender, and a failure of another; two of them are small, and the
\* last has no renderer.
Senders == [e \in {e1, e2, e3} |-> IF e = e3 THEN 2 ELSE 1]
Sizes == [e \in {e1, e2, e3} |-> IF e = e2 THEN 4 ELSE 2]
RelayDefaults == [mode |-> "full", count |-> 2, bytes |-> 2, each |-> 3]

\* yaml, env and cli: nothing is set, a preview is asked for on top, or the
\* relay is told to be still.
Nothing == [f \in {} |-> 0]
LayerChoices ==
  {<<Nothing, Nothing, Nothing>>,
   <<[mode |-> "disabled"], Nothing, [mode |-> "preview", count |-> 1]>>,
   <<[mode |-> "disabled"], Nothing, Nothing>>}

MCInit ==
  /\ part \in Parts
  /\ Init /\ O!Init /\ W!Init /\ S!Init /\ C!Init
  /\ part = "channel" \/ config = RelayDefaults

MCNext ==
  /\ part' = part
  /\ \/ part = "mailbox" /\ Next /\ UNCHANGED <<outboundsVars, timerVars, sessionVars, channelVars>>
     \/ part = "outbounds" /\ O!Next /\ UNCHANGED <<vars, timerVars, sessionVars, channelVars>>
     \/ part = "timer" /\ W!Next /\ UNCHANGED <<vars, outboundsVars, sessionVars, channelVars>>
     \/ part = "sessions" /\ S!Next /\ UNCHANGED <<vars, outboundsVars, timerVars, channelVars>>
     \/ part = "channel" /\ C!Next /\ UNCHANGED <<vars, outboundsVars, timerVars, sessionVars>>

\* The fairness of the mailbox; the properties of the other parts are safety.
MCSpec == MCInit /\ [][MCNext]_<<part, vars, outboundsVars, timerVars, sessionVars, channelVars>> /\ Fairness
=============================================================================
