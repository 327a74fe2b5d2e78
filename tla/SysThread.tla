------------------------------- MODULE SysThread -------------------------------
(***************************************************************************)
(* The managed threads of core/sys_thread.c: a handle, the cooperative     *)
(* stop token in it, and the two process-wide counts that                  *)
(* sys_core_shutdown and sys_core_get_status read.                         *)
(*                                                                         *)
(* The handle of a thread is named by its role, h.  A handle is            *)
(*                                                                         *)
(*    free      not allocated, or joined and freed                         *)
(*    counted   in sys_thread_create, both counts already raised           *)
(*    running   the entry runs                                             *)
(*    exited    the trampoline has ended, nobody has joined yet            *)
(*                                                                         *)
(* A join with a timeout (0 polls) that fails changes nothing; only one    *)
(* thread joins a handle.  Joins of a thread by itself (BUSY) and the      *)
(* names of threads are left out.                                          *)
(***************************************************************************)
EXTENDS Naturals, FiniteSets

CONSTANT Handles

VARIABLES
    life,
    stop_requested,     \* the handles whose token is set
    active_count,       \* g_active_thread_count
    unjoined_count      \* g_unjoined_thread_count

threadVars == <<life, stop_requested, active_count, unjoined_count>>

InLife(points) == {h \in Handles : life[h] \in points}

(* Definitions named X_Y are X with the plausible bug Y; no action uses     *)
(* them.                                                                   *)
Count_ActiveOnly == active_count' = active_count + 1 /\ UNCHANGED unjoined_count

Count == active_count' = active_count + 1 /\ unjoined_count' = unjoined_count + 1
Uncount == active_count' = active_count - 1 /\ unjoined_count' = unjoined_count - 1

-----------------------------------------------------------------------------
(* sys_thread_create up to pthread_create: it counts before the thread can *)
(* end.                                                                    *)
ThreadCreate(h) ==
    /\ life[h] = "free"
    /\ life' = [life EXCEPT ![h] = "counted"]
    /\ stop_requested' = stop_requested \ {h}
    /\ Count

ThreadStarts(h) ==
    /\ life[h] = "counted"
    /\ life' = [life EXCEPT ![h] = "running"]
    /\ UNCHANGED <<stop_requested, active_count, unjoined_count>>

(* pthread_create fails. *)
ThreadCreateFails(h) ==
    /\ life[h] = "counted"
    /\ life' = [life EXCEPT ![h] = "free"]
    /\ Uncount
    /\ UNCHANGED stop_requested

ThreadRequestStop(h) ==
    /\ life[h] \in {"running", "exited"}
    /\ stop_requested' = stop_requested \union {h}
    /\ UNCHANGED <<life, active_count, unjoined_count>>

(* The entry returns to thread_trampoline. *)
ThreadReturns(h) ==
    /\ life[h] = "running"
    /\ life' = [life EXCEPT ![h] = "exited"]
    /\ active_count' = active_count - 1
    /\ UNCHANGED <<stop_requested, unjoined_count>>

(* sys_thread_join when it succeeds. *)
ThreadJoin(h) ==
    /\ life[h] = "exited"
    /\ life' = [life EXCEPT ![h] = "free"]
    /\ unjoined_count' = unjoined_count - 1
    /\ UNCHANGED <<stop_requested, active_count>>

-----------------------------------------------------------------------------
ThreadInit ==
    /\ life = [h \in Handles |-> "free"]
    /\ stop_requested = {}
    /\ active_count = 0 /\ unjoined_count = 0

ThreadTypeOK ==
    /\ life \in [Handles -> {"free", "counted", "running", "exited"}]
    /\ stop_requested \subseteq Handles
    /\ active_count \in Nat /\ unjoined_count \in Nat

(* The counts say what there is: no handle is counted twice or forgotten,  *)
(* however creations fail and joins time out.                              *)
ThreadsCounted ==
    /\ active_count = Cardinality(InLife({"counted", "running"}))
    /\ unjoined_count = Cardinality(InLife({"counted", "running", "exited"}))
=============================================================================
