---------------------------- MODULE MCApplication ----------------------------
(* Instance of Application for TLC: camera (1) offers a service and has a  *)
(* thread, zlmedia (2) depends on it and subscribes to its event.  With    *)
(* these policies a start can fail at every point: with nothing, one or    *)
(* both of them built or running, with a component skipped or discarded.   *)
EXTENDS Application

MCImages == {<< [id |-> 2, phase |-> 0, required |-> TRUE, dependencies |-> <<1>>],
               [id |-> 1, phase |-> 0, required |-> FALSE, dependencies |-> <<>>] >>}
=============================================================================
