------------------------------ MODULE SysRuntime ------------------------------
(***************************************************************************)
(* The application runtime of core/sys_runtime.c, and what it uses of the  *)
(* kernel: the signal masks of the tasks of the process, the SIGINT and    *)
(* SIGTERM pending for the process, which a signalfd reads, and the        *)
(* counter of an eventfd.                                                  *)
(*                                                                         *)
(* A task starts with the mask of its creator.  A signal kills the process *)
(* as soon as some live task does not block it; `live` is the set of tasks *)
(* that exist after the step.                                              *)
(*                                                                         *)
(* Clients: one thread waits; nobody uses the runtime after the destroy by *)
(* its owner.  So the poll and the read of sys_runtime_wait are one step:  *)
(* nobody takes away in between what the poll has seen.  The failure of a  *)
(* system call in create undoes what create did.                           *)
(***************************************************************************)
EXTENDS Naturals, FiniteSets

CONSTANTS
    Tasks,
    Signals,        \* SIGINT, SIGTERM
    NULL,
    MaxStops        \* bound: the stop requests between two reads

VARIABLES
    owner,          \* owner of the runtime, NULL when there is none
    previous_mask,  \* whether the owner blocked the signals before
    blocked,        \* the tasks that block the signals
    pending,        \* the signals pending for the process
    stop_count,     \* the counter of stop_fd
    raised,         \* bound: each signal is sent once
    killed          \* the default action of a signal has ended the process

runtimeVars == <<owner, previous_mask, blocked, pending, stop_count, raised, killed>>

(* Definitions named X_Y are X with the plausible bug Y; no action uses     *)
(* them.                                                                   *)
MaskAfterCreate_Unchanged(t) == blocked

MaskAfterCreate(t) == blocked \union {t}
MaskAfterDestroy(t) == IF previous_mask THEN blocked ELSE blocked \ {t}

Kills(signals, mask, live) == signals # {} /\ ~(live \subseteq mask)

(* pthread_create: a new task h inherits the mask of t.                    *)
Inherit(t, h) ==
    /\ blocked' = IF t \in blocked THEN blocked \union {h} ELSE blocked \ {h}
    /\ UNCHANGED <<owner, previous_mask, pending, stop_count, raised, killed>>

-----------------------------------------------------------------------------
RuntimeCreate(t) ==
    /\ owner = NULL
    /\ owner' = t
    /\ previous_mask' = (t \in blocked)
    /\ blocked' = MaskAfterCreate(t)
    /\ stop_count' = 0
    /\ UNCHANGED <<pending, raised, killed>>

(* sys_runtime_wait, by its result.  A signal is looked for first.         *)
WaitReturns(result) ==
    /\ owner # NULL
    /\ CASE result = "cancelled" ->
              \/ \E s \in pending : pending' = pending \ {s} /\ UNCHANGED stop_count
              \/ pending = {} /\ stop_count > 0 /\ stop_count' = 0 /\ UNCHANGED pending
         [] result = "timeout" ->
              pending = {} /\ stop_count = 0 /\ UNCHANGED <<pending, stop_count>>
         [] result = "would_block" ->   \* EINTR
              UNCHANGED <<pending, stop_count>>
    /\ UNCHANGED <<owner, previous_mask, blocked, raised, killed>>

RuntimeRequestStop ==
    /\ owner # NULL
    /\ stop_count < MaxStops
    /\ stop_count' = stop_count + 1
    /\ UNCHANGED <<owner, previous_mask, blocked, pending, raised, killed>>

(* Requests that nobody has read are gone; a signal that nobody has read   *)
(* takes its default action when the mask is restored.                     *)
RuntimeDestroy(t, live) ==
    /\ owner = t
    /\ owner' = NULL
    /\ blocked' = MaskAfterDestroy(t)
    /\ stop_count' = 0
    /\ killed' = Kills(pending, blocked', live)
    /\ UNCHANGED <<previous_mask, pending, raised>>

(* Somebody sends the process a signal. *)
Raise(s, live) ==
    /\ s \notin raised
    /\ raised' = raised \union {s}
    /\ pending' = pending \union {s}
    /\ killed' = Kills(pending', blocked, live)
    /\ UNCHANGED <<owner, previous_mask, blocked, stop_count>>

-----------------------------------------------------------------------------
RuntimeInit ==
    /\ owner = NULL /\ previous_mask = FALSE
    /\ blocked = {} /\ pending = {} /\ raised = {} /\ killed = FALSE
    /\ stop_count = 0

RuntimeTypeOK ==
    /\ owner \in Tasks \union {NULL} /\ previous_mask \in BOOLEAN
    /\ blocked \subseteq Tasks
    /\ pending \subseteq raised /\ raised \subseteq Signals /\ killed \in BOOLEAN
    /\ stop_count \in 0..MaxStops
=============================================================================
