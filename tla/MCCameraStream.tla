---------------------------- MODULE MCCameraStream ----------------------------
(* Instance of CameraStream for TLC. *)
EXTENDS CameraStream

(* A restart is explored where calls stay out of the initialization.       *)
Bound == "STARTING" \notin quiet => core.boots <= 1

(* Without the rule, with half of it, and with all of it.                  *)
StreamSpec ==
    /\ Init /\ quiet # {"STOPPING"}
    /\ [][Next /\ Bound']_vars
    /\ Fairness

(* The initialization is left alone, the shutdown is not.                  *)
ShutdownSpec == Init /\ quiet = {"STARTING"} /\ [][Next]_vars
=============================================================================
