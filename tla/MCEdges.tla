------------------------------- MODULE MCEdges -------------------------------
(***************************************************************************)
(* Small instances for TLC of the briefs and of the parts of Outside and   *)
(* OnDisk. They share no variable, so one run explores each on its own: a  *)
(* behaviour is one of a single part.                                      *)
(***************************************************************************)
EXTENDS Briefs, Outside, OnDisk

CONSTANTS
  r1, r2, d1, d2, c1, c2, e1, e2, e3, m1, m2, m3, o1, o2, p1, p2, k1, k2, k3, s1, Parts

VARIABLE part

\* 1 is an agent that wants the camera 2 offers; 3, 4 and 5 are of an unknown
\* type, cannot be built or are of the wrong form; 7 wants what 1 does not offer.
Ok == [name |-> "x", valid |-> TRUE, known |-> TRUE, builds |-> TRUE, wants |-> "", offers |-> FALSE]
Entries ==
  <<[Ok EXCEPT !.name = "agent", !.wants = "cam"],
    [Ok EXCEPT !.name = "cam", !.offers = TRUE],
    [Ok EXCEPT !.name = "cam", !.known = FALSE, !.offers = TRUE],
    [Ok EXCEPT !.name = "agent", !.builds = FALSE],
    [Ok EXCEPT !.name = "bot", !.valid = FALSE],
    [Ok EXCEPT !.name = "bot"],
    [Ok EXCEPT !.name = "bot", !.wants = "agent"]>>
MainFiles ==
  [endpoints : {<<2>>, <<>>, <<6>>}, null : {FALSE}, sound : BOOLEAN]
  \cup [endpoints : {<<>>}, null : {TRUE}, sound : {TRUE}]
Good(es) == [reads |-> TRUE, parses |-> TRUE, mapping |-> TRUE, list |-> TRUE, endpoints |-> es]
FragmentFiles ==
  {Good(<<1>>), Good(<<3, 6>>), Good(<<1, 4>>), Good(<<5>>), Good(<<7>>),
   [Good(<<>>) EXCEPT !.parses = FALSE], [Good(<<>>) EXCEPT !.mapping = FALSE],
   [Good(<<>>) EXCEPT !.list = FALSE], [Good(<<>>) EXCEPT !.reads = FALSE]}

Templates == <<"identity", "memory", "notes">>

hookVars == <<inboundVars, outboundVars, messageVars, textVars>>
hostVars == <<homeVars, venvVars, memoryVars>>
diskVars == <<backupVars, bootVars, hatchVars, vaultVars>>

MCInit ==
  /\ part \in Parts
  /\ Init /\ I!Init /\ O!Init /\ D!Init /\ C!Init /\ H!Init /\ V!Init /\ M!Init
  /\ B!Init /\ A!Init /\ G!Init /\ S!Init
  /\ part = "venvs" \/ replace = "renamed"
  /\ part = "boot" \/ (fragments = <<>> /\ main = [endpoints |-> <<2>>, null |-> FALSE, sound |-> TRUE])
  /\ part = "vault" \/ (database = None /\ ~ dotenv /\ keyring.up)

MCNext ==
  /\ part' = part
  /\ \/ /\ part = "briefs" /\ Next
        /\ UNCHANGED <<hookVars, hostVars, diskVars>>
     \/ /\ part = "webhooks" /\ I!Next
        /\ UNCHANGED <<vars, outboundVars, messageVars, textVars, hostVars, diskVars>>
     \/ /\ part = "posts" /\ O!Next
        /\ UNCHANGED <<vars, inboundVars, messageVars, textVars, hostVars, diskVars>>
     \/ /\ part = "messages" /\ D!Next
        /\ UNCHANGED <<vars, inboundVars, outboundVars, textVars, hostVars, diskVars>>
     \/ /\ part = "text" /\ C!Next
        /\ UNCHANGED <<vars, inboundVars, outboundVars, messageVars, hostVars, diskVars>>
     \/ /\ part = "home" /\ H!Next
        /\ UNCHANGED <<vars, hookVars, venvVars, memoryVars, diskVars>>
     \/ /\ part = "venvs" /\ V!Next
        /\ UNCHANGED <<vars, hookVars, homeVars, memoryVars, diskVars>>
     \/ /\ part = "memory" /\ M!Next
        /\ UNCHANGED <<vars, hookVars, homeVars, venvVars, diskVars>>
     \/ /\ part = "backups" /\ B!Next
        /\ UNCHANGED <<vars, hookVars, hostVars, bootVars, hatchVars, vaultVars>>
     \/ /\ part = "boot" /\ A!Next
        /\ UNCHANGED <<vars, hookVars, hostVars, backupVars, hatchVars, vaultVars>>
     \/ /\ part = "hatch" /\ G!Next
        /\ UNCHANGED <<vars, hookVars, hostVars, backupVars, bootVars, vaultVars>>
     \/ /\ part = "vault" /\ S!Next
        /\ UNCHANGED <<vars, hookVars, hostVars, backupVars, bootVars, hatchVars>>

MCSpec == MCInit /\ [][MCNext]_<<part, vars, hookVars, hostVars, diskVars>>
=============================================================================
