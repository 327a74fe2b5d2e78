------------------------------ MODULE SysService ------------------------------
(***************************************************************************)
(* The service registry of core/sys_service.c: a table of slots, each with *)
(* a descriptor, the flag `accepting` and a reference count, all guarded   *)
(* by g_service_mutex, and the condition variable g_service_cond on which  *)
(* sys_service_unregister and sys_service_registry_reset wait for calls in *)
(* flight.                                                                 *)
(*                                                                         *)
(* An action is one critical section of g_service_mutex.  Only unregister  *)
(* and reset give the mutex up in the middle (pthread_cond_wait).  Both    *)
(* are the same loop over a set of slots, one or all of them: target[t].   *)
(* There a thread stands at                                                *)
(*                                                                         *)
(*    sleep     blocked on g_service_cond                                  *)
(*    woken     woken (broadcast or spurious), mutex not yet held          *)
(*                                                                         *)
(* A descriptor is its key (module_id and interface_id), its ABI (the      *)
(* abi_version, with which ops_size is compared as well) and its ops.  The *)
(* failing calls (ALREADY_EXISTS, NO_MEMORY, NOT_FOUND, ABI_MISMATCH,      *)
(* OVERFLOW) and sys_service_get_status change nothing.                    *)
(*                                                                         *)
(* A thread holds at most one reference, as the wrappers of                *)
(* app/features/camera_mod.h do (acquire, call, release), and does not     *)
(* unregister or reset while it holds one (it would wait for itself).      *)
(***************************************************************************)
EXTENDS Naturals, FiniteSets

CONSTANTS
    Threads,
    Slots,      \* g_service_slots
    Keys,       \* <<module_id, interface_id>>
    Abis,
    Ops,        \* operation tables
    NULL,
    SIZE_MAX,
    ExclusiveUnregister,    \* clients never unregister a key that another
                            \* thread is already unregistering
    ExclusiveReset          \* clients neither register nor unregister while the
                            \* registry is being reset

Descriptors == [key : Keys, abi : Abis, ops : Ops]

ASSUME ServiceAssumption ==
    /\ IsFiniteSet(Threads)
    /\ NULL \notin Slots
    /\ NULL \notin Descriptors
    /\ SIZE_MAX \in Nat \ {0}
    /\ ExclusiveUnregister \in BOOLEAN
    /\ ExclusiveReset \in BOOLEAN

VARIABLES
    desc,               \* desc[s], NULL in a slot that is not `used`
    accepting,
    reference_count,
    ref,                \* ref->internal: the slot a thread's reference is to
    held,               \* the service a thread asked for, with the ops it got
    pc,
    target              \* the slots a thread's unregister or reset is to empty

vars == <<desc, accepting, reference_count, ref, held, pc, target>>

Used == {s \in Slots : desc[s] # NULL}

At(points) == {t \in Threads : pc[t] \in points}

(* Definitions named X_Y are X with the plausible bug Y; no action uses     *)
(* them.                                                                   *)
CanAcquire_NotAccepting(s, k, v) ==
    /\ s \in Used /\ desc[s].key = k
    /\ desc[s].abi = v
    /\ reference_count[s] # SIZE_MAX
CanAcquire_Unbounded(s, k, v) == s \in Used /\ desc[s].key = k /\ accepting[s] /\ desc[s].abi = v
IsRegistered_WhenAccepting(k) == \E s \in Used : desc[s].key = k /\ accepting[s]
Woken_One(p) ==
    LET blocked == {t \in Threads : p[t] = "sleep"}
    IN  IF blocked = {} THEN p ELSE [p EXCEPT ![CHOOSE t \in blocked : TRUE] = "woken"]
Drained_OffByOne(S) == \A s \in S : reference_count[s] <= 1
Closed_Later(S) == accepting

(* find_service *)
IsRegistered(k) == \E s \in Used : desc[s].key = k

(* The tests of sys_service_acquire, for the slot that find_service finds. *)
CanAcquire(s, k, v) ==
    /\ s \in Used /\ desc[s].key = k /\ accepting[s]
    /\ desc[s].abi = v
    /\ reference_count[s] # SIZE_MAX

(* pthread_cond_broadcast(&g_service_cond) *)
Woken(p) == [t \in Threads |-> IF p[t] = "sleep" THEN "woken" ELSE p[t]]

(* No call through one of the slots S is in flight. *)
Drained(S) == \A s \in S : reference_count[s] = 0

(* `accepting` when the slots S accept no more. *)
Closed(S) == [s \in Slots |-> s \notin S /\ accepting[s]]

(* The client rules of ExclusiveUnregister and ExclusiveReset. *)
MayUnregister(s) ==
    /\ ExclusiveUnregister => \A t \in Threads : s \notin target[t]
    /\ ExclusiveReset => \A t \in Threads : target[t] # Slots
MayReset == ExclusiveReset => \A t \in Threads : target[t] = {}
MayRegister == ExclusiveReset => \A t \in Threads : target[t] # Slots

-----------------------------------------------------------------------------
Register(t, s, d) ==
    /\ pc[t] = "ready" /\ MayRegister
    /\ ~IsRegistered(d.key)
    /\ s \notin Used
    /\ desc' = [desc EXCEPT ![s] = d]
    /\ accepting' = [accepting EXCEPT ![s] = TRUE]
    /\ reference_count' = [reference_count EXCEPT ![s] = 0]
    /\ UNCHANGED <<ref, held, pc, target>>

Acquire(t, s, k, v) ==
    /\ pc[t] = "ready"
    /\ ref[t] = NULL
    /\ CanAcquire(s, k, v)
    /\ reference_count' = [reference_count EXCEPT ![s] = @ + 1]
    /\ ref' = [ref EXCEPT ![t] = s]
    /\ held' = [held EXCEPT ![t] = [key |-> k, abi |-> v, ops |-> desc[s].ops]]
    /\ UNCHANGED <<desc, accepting, pc, target>>

(* The last release of a slot wakes every teardown. *)
Release(t) ==
    /\ pc[t] = "ready"
    /\ ref[t] # NULL
    /\ reference_count' = [reference_count EXCEPT ![ref[t]] = IF @ > 0 THEN @ - 1 ELSE @]
    /\ pc' = IF reference_count[ref[t]] = 1 THEN Woken(pc) ELSE pc
    /\ ref' = [ref EXCEPT ![t] = NULL]
    /\ held' = [held EXCEPT ![t] = NULL]
    /\ UNCHANGED <<desc, accepting, target>>

(* The test of the wait loop over the slots S: all of them are emptied, or *)
(* t blocks and leaves `accepting` as given.                               *)
TearDown(t, S, accepting_now) ==
    /\ IF Drained(S)
         THEN /\ desc' = [s \in Slots |-> IF s \in S THEN NULL ELSE desc[s]]
              /\ accepting' = Closed(S)
              /\ reference_count' = [s \in Slots |-> IF s \in S THEN 0 ELSE reference_count[s]]
              /\ pc' = [pc EXCEPT ![t] = "ready"]
              /\ target' = [target EXCEPT ![t] = {}]
         ELSE /\ accepting' = accepting_now
              /\ pc' = [pc EXCEPT ![t] = "sleep"]
              /\ target' = [target EXCEPT ![t] = S]
              /\ UNCHANGED <<desc, reference_count>>
    /\ UNCHANGED <<ref, held>>

Unregister(t, s) ==
    /\ pc[t] = "ready" /\ ref[t] = NULL /\ MayUnregister(s)
    /\ s \in Used
    /\ TearDown(t, {s}, Closed({s}))

(* sys_service_registry_reset *)
Reset(t) ==
    /\ pc[t] = "ready" /\ ref[t] = NULL /\ MayReset
    /\ TearDown(t, Slots, Closed(Slots))

Resume(t) ==
    /\ pc[t] = "woken"
    /\ TearDown(t, target[t], accepting)

WakeSpuriously(t) ==
    /\ pc[t] = "sleep"
    /\ pc' = [pc EXCEPT ![t] = "woken"]
    /\ UNCHANGED <<desc, accepting, reference_count, ref, held, target>>

-----------------------------------------------------------------------------
Init ==
    /\ desc = [s \in Slots |-> NULL]
    /\ accepting = [s \in Slots |-> FALSE]
    /\ reference_count = [s \in Slots |-> 0]
    /\ ref = [t \in Threads |-> NULL]
    /\ held = [t \in Threads |-> NULL]
    /\ pc = [t \in Threads |-> "ready"]
    /\ target = [t \in Threads |-> {}]

Next == \E t \in Threads :
    \/ \E s \in Slots, d \in Descriptors : Register(t, s, d)
    \/ \E s \in Slots, k \in Keys, v \in Abis : Acquire(t, s, k, v)
    \/ Release(t)
    \/ \E s \in Slots : Unregister(t, s)
    \/ Reset(t)
    \/ Resume(t)
    \/ WakeSpuriously(t)

Spec == Init /\ [][Next]_vars

(* A woken teardown runs on, and a call through a service ends: the        *)
(* wrappers release what they acquire.                                     *)
LiveSpec ==
    /\ Spec
    /\ \A t \in Threads : WF_vars(Resume(t)) /\ WF_vars(Release(t))

-----------------------------------------------------------------------------
TypeOK ==
    /\ desc \in [Slots -> Descriptors \union {NULL}]
    /\ accepting \in [Slots -> BOOLEAN]
    /\ reference_count \in [Slots -> 0..SIZE_MAX]
    /\ ref \in [Threads -> Slots \union {NULL}]
    /\ held \in [Threads -> Descriptors \union {NULL}]
    /\ pc \in [Threads -> {"ready", "sleep", "woken"}]
    /\ target \in [Threads -> SUBSET Slots]

Holders(s) == {t \in Threads : ref[t] = s}

(* Whatever registers, unregisters and resets run at the same time: a      *)
(* reference is to a slot that still holds the very service its caller     *)
(* asked for, with that ABI and those ops.                                 *)
NoDanglingReference ==
    \A t \in Threads : ref[t] # NULL => desc[ref[t]] = held[t] /\ held[t] # NULL

(* A slot counts exactly the references to it, so a teardown waits neither *)
(* too short nor for ever.                                                 *)
ReferencesExact == \A s \in Slots : reference_count[s] = Cardinality(Holders(s))

(* find_service has one answer: no key is in two slots, not even while one *)
(* of them is being torn down.                                             *)
KeysUnique == \A r, s \in Used : desc[r].key = desc[s].key => r = s

(* No teardown is left blocked once what it waits for has come.            *)
NoLostWakeup == \A t \in At({"sleep"}) : ~Drained(target[t])

(* docs/architecture.md, section 5: whoever unregisters first stops new    *)
(* references and then waits for those in flight.  So a slot that a        *)
(* teardown is waiting to empty accepts no reference.                      *)
ClosedBeforeWaiting ==
    \A t \in At({"sleep", "woken"}) : \A s \in target[t] : ~accepting[s]

(* Every unregister and reset returns, however busy the service is, as     *)
(* long as each call through it ends.                                      *)
TeardownReturns == \A t \in Threads : pc[t] # "ready" ~> pc[t] = "ready"
=============================================================================
