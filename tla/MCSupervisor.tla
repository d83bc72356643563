---------------------------- MODULE MCSupervisor ----------------------------
(***************************************************************************)
(* Small instances of the supervisor for TLC.                              *)
(***************************************************************************)
EXTENDS Supervisor

CONSTANTS x, y
=============================================================================
