------------------------------ MODULE Presence ------------------------------
(***************************************************************************)
(* The presence watcher, a process that reads the camera in a loop and     *)
(* writes what it sees to a file, and its supervisor, which starts it      *)
(* again, after a pause, whenever it exits. The watcher reopens a camera   *)
(* that fails at a reduced resolution, comes back to the full one after a  *)
(* while, and keeps a marker file so that a restart begins reduced.        *)
(*                                                                         *)
(* The camera comes and goes as it likes; a capture opened before it went  *)
(* stays useless. Left out: who is seen, the heartbeat and the record the  *)
(* supervisor writes, which no step depends on.                            *)
(***************************************************************************)
EXTENDS Naturals, FiniteSetsExt

CONSTANTS
  ReopenAfter,     \* REOPEN_AFTER_FAILURES
  RestoreAfter,    \* RESTORE_AFTER_SUCCESSES
  MaxDisturbances  \* bound: exits, frames that cannot be analysed, marker writes that fail

VARIABLES
  camera,     \* the device can be read
  watcher,    \* where the process is, "down" when it does not run
  capture,    \* its handle: "none", "good", "stale"
  degraded,   \* the session's resolution is the reduced one
  failures,   \* consecutive_failures, modulo ReopenAfter
  successes,  \* consecutive_successes, up to RestoreAfter
  marker,     \* the file watcher-degraded
  current,    \* the last cycle wrote the state file
  astray,     \* a write of the marker failed
  used        \* disturbances so far

vars == <<camera, watcher, capture, degraded, failures, successes, marker, current, astray, used>>

Disturbed == used < MaxDisturbances /\ used' = used + 1

Init ==
  /\ camera \in BOOLEAN
  /\ watcher = "down" /\ capture = "none" /\ degraded = FALSE
  /\ failures = 0 /\ successes = 0
  /\ marker = FALSE
  /\ current = FALSE /\ astray = FALSE
  /\ used = 0

----------------------------------------------------------------------------
(* The device and the supervisor                                           *)

CameraGoes ==
  /\ camera
  /\ camera' = FALSE
  /\ capture' = IF capture = "good" THEN "stale" ELSE capture
  /\ UNCHANGED <<watcher, degraded, failures, successes, marker, current, astray, used>>

CameraComes ==
  /\ ~camera
  /\ camera' = TRUE
  /\ UNCHANGED <<watcher, capture, degraded, failures, successes, marker, current, astray, used>>

\* run_supervised: the backoff ends and the child is started.
Spawn ==
  /\ watcher = "down"
  /\ watcher' = "opening"
  /\ UNCHANGED <<camera, capture, degraded, failures, successes, marker, current, astray, used>>

Gone ==
  /\ watcher' = "down" /\ capture' = "none" /\ degraded' = FALSE
  /\ failures' = 0 /\ successes' = 0
  /\ current' = FALSE
  /\ UNCHANGED <<camera, marker, astray>>

\* The process is killed, or dies of what no cycle catches.
Exit == watcher # "down" /\ Disturbed /\ Gone

----------------------------------------------------------------------------
(* CameraSession                                                           *)

Captured == IF camera THEN "good" ELSE "none"

\* Mutant: there is nothing to reopen once a reopen has failed.
ReopenNeedsCapture(reduced) ==
  /\ degraded' = reduced
  /\ capture' = IF capture = "none" THEN "none" ELSE Captured

\* reopen() releases the capture and sets the resolution before it can fail;
\* _try_reopen swallows the failure.
Reopen(reduced) ==
  /\ degraded' = reduced
  /\ capture' = Captured

----------------------------------------------------------------------------
(* run_watch                                                               *)

\* __enter__ opens at full resolution, or raises.
Open ==
  /\ watcher = "opening" /\ camera
  /\ watcher' = IF marker THEN "reducing" ELSE "warming"
  /\ capture' = "good" /\ degraded' = FALSE
  /\ UNCHANGED <<camera, failures, successes, marker, current, astray, used>>

OpenFails == watcher = "opening" /\ ~camera /\ Gone /\ UNCHANGED used

\* Mutant: a watcher started anew does not look for the marker of the last one.
ReduceForgotten ==
  /\ watcher = "reducing"
  /\ watcher' = "warming"
  /\ UNCHANGED <<camera, capture, degraded, failures, successes, marker, current, astray, used>>

Reduce ==
  /\ watcher = "reducing"
  /\ watcher' = "warming"
  /\ Reopen(TRUE)
  /\ UNCHANGED <<camera, failures, successes, marker, current, astray, used>>

\* warmup() swallows frames that do not come, but not a session without capture.
Warm ==
  /\ watcher = "warming" /\ capture # "none"
  /\ watcher' = "reading"
  /\ UNCHANGED <<camera, capture, degraded, failures, successes, marker, current, astray, used>>

WarmFails == watcher = "warming" /\ capture = "none" /\ Gone /\ UNCHANGED used

Cycle ==
  /\ watcher = "reading" /\ capture = "good"
  /\ current' = TRUE
  /\ failures' = 0
  /\ LET n == Min({successes + 1, RestoreAfter})
     IN IF n = RestoreAfter /\ degraded
        THEN successes' = 0 /\ watcher' = "restoring"
        ELSE successes' = n /\ UNCHANGED watcher
  /\ UNCHANGED <<camera, capture, degraded, marker, astray, used>>

CycleFails ==
  /\ watcher = "reading"
  /\ IF capture = "good" THEN Disturbed ELSE used' = used
  /\ current' = FALSE
  /\ successes' = 0
  /\ failures' = (failures + 1) % ReopenAfter
  /\ watcher' = IF failures' = 0 THEN "degrading" ELSE "reading"
  /\ UNCHANGED <<camera, capture, degraded, marker, astray>>

Degrade ==
  /\ watcher = "degrading"
  /\ watcher' = "marking"
  /\ Reopen(TRUE)
  /\ UNCHANGED <<camera, failures, successes, marker, current, astray, used>>

Restore ==
  /\ watcher = "restoring"
  /\ watcher' = "marking"
  /\ Reopen(FALSE)
  /\ UNCHANGED <<camera, failures, successes, marker, current, astray, used>>

\* _set_degraded_hint: the marker is written, or removed.
Mark ==
  /\ watcher = "marking"
  /\ watcher' = "reading"
  /\ marker' = degraded /\ astray' = FALSE
  /\ UNCHANGED <<camera, capture, degraded, failures, successes, current, used>>

MarkFails ==
  /\ watcher = "marking" /\ Disturbed
  /\ watcher' = "reading"
  /\ astray' = TRUE
  /\ UNCHANGED <<camera, capture, degraded, failures, successes, marker, current>>

WatcherStep ==
  \/ Open \/ OpenFails \/ Reduce \/ Warm \/ WarmFails
  \/ Cycle \/ CycleFails \/ Degrade \/ Restore \/ Mark \/ MarkFails

Next == CameraGoes \/ CameraComes \/ Spawn \/ Exit \/ WatcherStep

Spec == Init /\ [][Next]_vars

\* Both processes get their turns; nothing is assumed of the camera.
Fairness == WF_vars(Spawn) /\ WF_vars(WatcherStep)

----------------------------------------------------------------------------
(* Properties                                                              *)

\* Exits and restarts at any point leave the watcher at the resolution the
\* marker tells of: what one run learnt of the camera the next one knows,
\* unless the marker could not be written.
MarkerIsKept == watcher = "reading" /\ ~astray => marker = degraded

\* When the camera stays, the watcher comes to write fresh states for good,
\* whatever went wrong before: a capture gone stale, a reopen that failed.
CameraComesBack == <>[]camera => <>[]current
=============================================================================
