---------------------------- MODULE MCSysChannel ----------------------------
(* Instance of SysChannel for TLC. *)
EXTENDS SysChannel, TLC

(* One slot for senders to wait for, and a ring that wraps. *)
FailAndDrop == {[capacity |-> 1, full_policy |-> "fail"],
                [capacity |-> 2, full_policy |-> "drop_oldest"]}
Fail == {[capacity |-> 1, full_policy |-> "fail"]}

(* Threads and blocks are interchangeable in the safety run. *)
ThreadAndBufferSymmetry == Permutations(Threads) \union Permutations(Buffers)
=============================================================================
