--------------------------- MODULE SysServiceProofs ---------------------------
(***************************************************************************)
(* Proofs about the service registry for every number of threads, slots    *)
(* and services, and whatever teardowns run at the same time.              *)
(*                                                                         *)
(* The five invariants that TLC checks in the run MCSysService are         *)
(* inductive together: each is proved from the whole conjunction Inv.  The *)
(* argument is that a slot is only emptied when its count is 0, that the   *)
(* count is the number of holders, hence nobody refers to it; and that a   *)
(* count only reaches 0 in a release, which wakes every teardown.          *)
(***************************************************************************)
EXTENDS SysService, FiniteSetTheorems, TLAPS

Inv ==
    /\ TypeOK
    /\ NoDanglingReference
    /\ ReferencesExact
    /\ KeysUnique
    /\ NoLostWakeup

(* The holders of a slot are finitely many threads, so a count of 0 means  *)
(* that there are none (g_service_slots[i].reference_count == 0).          *)
LEMMA HoldersFinite ==
    ASSUME NEW s
    PROVE  /\ IsFiniteSet(Holders(s))
           /\ Cardinality(Holders(s)) \in Nat
           /\ Cardinality(Holders(s)) = 0 <=> Holders(s) = {}
<1>1. IsFiniteSet(Holders(s))
  BY ServiceAssumption, FS_Subset DEF Holders
<1> QED
  BY <1>1, FS_EmptySet, FS_CardinalityType

(* Nobody refers to a drained slot.                                        *)
LEMMA DrainedHasNoHolder ==
    ASSUME Inv, NEW S, Drained(S), NEW s \in S \intersect Slots
    PROVE  Holders(s) = {}
<1>1. reference_count[s] = 0
  BY DEF Drained
<1> QED
  BY <1>1, HoldersFinite DEF Inv, ReferencesExact

(* Nobody refers to an unused slot.                                        *)
LEMMA UnusedHasNoHolder ==
    ASSUME Inv, NEW s \in Slots \ Used
    PROVE  Holders(s) = {} /\ reference_count[s] = 0
<1>1. Holders(s) = {}
  <2>1. \A t \in Threads : ref[t] # s
    BY ServiceAssumption DEF Inv, NoDanglingReference, Used
  <2> QED
    BY <2>1 DEF Holders
<1> QED
  BY <1>1, FS_EmptySet DEF Inv, ReferencesExact

-----------------------------------------------------------------------------
(* The empty registry satisfies the invariant.                             *)
LEMMA InitInv == Init => Inv
<1> SUFFICES ASSUME Init PROVE Inv
  OBVIOUS
<1> USE ServiceAssumption DEF Init
<1>1. TypeOK
  BY DEF TypeOK
<1>2. NoDanglingReference
  BY DEF NoDanglingReference
<1>3. ReferencesExact
  <2>1. \A s \in Slots : Holders(s) = {}
    BY DEF Holders
  <2> QED
    BY <2>1, FS_EmptySet DEF ReferencesExact
<1>4. KeysUnique /\ NoLostWakeup
  BY DEF KeysUnique, Used, NoLostWakeup, At
<1> QED
  BY <1>1, <1>2, <1>3, <1>4 DEF Inv

(* sys_service_register: a free slot has no holders to confuse.            *)
LEMMA RegisterInv ==
    ASSUME Inv, NEW t \in Threads, NEW s \in Slots, NEW d \in Descriptors, Register(t, s, d)
    PROVE  Inv'
<1> USE ServiceAssumption
<1>0. Holders(s) = {} /\ reference_count[s] = 0
  BY UnusedHasNoHolder DEF Register
<1>1. reference_count' = reference_count
  BY <1>0 DEF Register, Inv, TypeOK
<1>2. TypeOK'
  BY <1>1 DEF Register, Inv, TypeOK
<1>3. NoDanglingReference'
  BY <1>0 DEF Register, Inv, TypeOK, NoDanglingReference, Holders
<1>4. ReferencesExact'
  BY <1>1 DEF Register, Inv, ReferencesExact, Holders
<1>5. KeysUnique'
  BY DEF Register, Inv, TypeOK, KeysUnique, Used, IsRegistered
<1>6. NoLostWakeup'
  BY <1>1 DEF Register, Inv, NoLostWakeup, At, Drained
<1> QED
  BY <1>2, <1>3, <1>4, <1>5, <1>6 DEF Inv

(* sys_service_acquire: one more holder, one more in the count.            *)
LEMMA AcquireInv ==
    ASSUME Inv, NEW t \in Threads, NEW s \in Slots, NEW k \in Keys, NEW v \in Abis,
           Acquire(t, s, k, v)
    PROVE  Inv'
<1> USE ServiceAssumption DEF Acquire
<1>1. desc[s] \in Descriptors /\ desc[s] = held'[t]
  BY DEF CanAcquire, Inv, TypeOK, Used, Descriptors
<1>2. TypeOK'
  BY <1>1 DEF CanAcquire, Inv, TypeOK
<1>3. NoDanglingReference'
  BY <1>1 DEF Inv, TypeOK, NoDanglingReference
<1>4. ReferencesExact'
  <2>1. Holders(s)' = Holders(s) \union {t} /\ t \notin Holders(s)
    BY DEF Inv, TypeOK, Holders
  <2>2. \A r \in Slots \ {s} : Holders(r)' = Holders(r)
    BY DEF Inv, TypeOK, Holders
  <2>3. Cardinality(Holders(s)') = Cardinality(Holders(s)) + 1
    BY <2>1, HoldersFinite, FS_AddElement
  <2> QED
    BY <2>2, <2>3 DEF Inv, TypeOK, ReferencesExact
<1>5. KeysUnique'
  BY DEF Inv, KeysUnique, Used
<1>6. NoLostWakeup'
  <2>1. \A S : Drained(S)' => Drained(S)
    BY DEF Drained, Inv, TypeOK
  <2> QED
    BY <2>1 DEF Inv, NoLostWakeup, At
<1> QED
  BY <1>2, <1>3, <1>4, <1>5, <1>6 DEF Inv

(* sys_service_release: one holder less; a count that reaches 0 wakes all. *)
LEMMA ReleaseInv ==
    ASSUME Inv, NEW t \in Threads, Release(t)
    PROVE  Inv'
<1> USE ServiceAssumption DEF Release
<1> PICK s \in Slots : s = ref[t]
  BY DEF Inv, TypeOK
<1>0. s = ref[t] /\ t \in Holders(s)
  BY DEF Holders
<1>1. reference_count[s] > 0 /\ reference_count'[s] = reference_count[s] - 1
  BY <1>0, HoldersFinite DEF Inv, TypeOK, ReferencesExact
<1>2. \A r \in Slots \ {s} : reference_count'[r] = reference_count[r]
  BY DEF Inv, TypeOK
<1>3. TypeOK'
  <2>1. reference_count' \in [Slots -> 0..SIZE_MAX]
    BY <1>0, <1>1 DEF Inv, TypeOK
  <2> QED
    BY <2>1 DEF Inv, TypeOK, Woken
<1>4. NoDanglingReference'
  BY DEF Inv, TypeOK, NoDanglingReference
<1>5. ReferencesExact'
  <2>1. Holders(s)' = Holders(s) \ {t}
    BY <1>0 DEF Inv, TypeOK, Holders
  <2>2. \A r \in Slots \ {s} : Holders(r)' = Holders(r)
    BY <1>0 DEF Inv, TypeOK, Holders
  <2>3. Cardinality(Holders(s)') = Cardinality(Holders(s)) - 1
    <3>1. IsFiniteSet(Holders(s))
      BY HoldersFinite
    <3>2. t \in Holders(s)
      BY <1>0 DEF Holders
    <3> QED
      BY <2>1, <3>1, <3>2, FS_RemoveElement
  <2> QED
    BY <1>0, <1>1, <1>2, <2>2, <2>3 DEF Inv, ReferencesExact
<1>6. KeysUnique'
  BY DEF Inv, KeysUnique, Used
<1>7. NoLostWakeup'
  <2>1. CASE reference_count[s] = 1
    BY <2>1 DEF Woken, NoLostWakeup, At
  <2>2. CASE reference_count[s] # 1
    <3>1. \A S \in SUBSET Slots : Drained(S)' => Drained(S)
      BY <2>2, <1>0, <1>1, <1>2 DEF Drained, Inv, TypeOK
    <3> QED
      BY <2>2, <3>1 DEF Inv, TypeOK, NoLostWakeup, At
  <2> QED
    BY <2>1, <2>2
<1> QED
  BY <1>3, <1>4, <1>5, <1>6, <1>7 DEF Inv

(* The shared step of unregister, reset and their wakeups.                 *)
LEMMA TearDownInv ==
    ASSUME Inv, NEW t \in Threads, NEW S \in SUBSET Slots,
           NEW accepting_now \in [Slots -> BOOLEAN], TearDown(t, S, accepting_now)
    PROVE  Inv'
<1> USE ServiceAssumption DEF TearDown
<1>1. reference_count' = reference_count
  BY DEF Drained, Inv, TypeOK
<1>2. TypeOK'
  <2>1. desc' \in [Slots -> Descriptors \union {NULL}]
    BY DEF Inv, TypeOK
  <2>2. accepting' \in [Slots -> BOOLEAN]
    <3>1. Closed(S) \in [Slots -> BOOLEAN]
      BY DEF Closed
    <3> QED
      BY <3>1
  <2>3. /\ pc' \in [Threads -> {"ready", "sleep", "woken"}]
        /\ target' \in [Threads -> SUBSET Slots]
    BY DEF Inv, TypeOK
  <2> QED
    BY <1>1, <2>1, <2>2, <2>3 DEF Inv, TypeOK
<1>3. NoDanglingReference'
  <2>1. CASE Drained(S)
    <3>1. \A u \in Threads : ref[u] \notin S
      BY <2>1, DrainedHasNoHolder DEF Holders
    <3> QED
      BY <2>1, <3>1 DEF Inv, TypeOK, NoDanglingReference
  <2>2. CASE ~Drained(S)
    BY <2>2 DEF Inv, NoDanglingReference
  <2> QED
    BY <2>1, <2>2
<1>4. ReferencesExact'
  BY <1>1 DEF Inv, ReferencesExact, Holders
<1>5. KeysUnique'
  BY DEF Inv, TypeOK, KeysUnique, Used
<1>6. NoLostWakeup'
  <2>1. \A R : Drained(R)' <=> Drained(R)
    BY <1>1 DEF Drained
  <2> QED
    BY <2>1 DEF Inv, TypeOK, NoLostWakeup, At
<1> QED
  BY <1>2, <1>3, <1>4, <1>5, <1>6 DEF Inv

(* Every step of the registry preserves the invariant.                     *)
LEMMA NextInv == Inv /\ [Next]_vars => Inv'
<1> SUFFICES ASSUME Inv, [Next]_vars PROVE Inv'
  OBVIOUS
<1>0. \A S \in SUBSET Slots : Closed(S) \in [Slots -> BOOLEAN]
  BY DEF Closed, Inv, TypeOK
<1>1. CASE UNCHANGED vars
  BY <1>1 DEF vars, Inv, TypeOK, NoDanglingReference, ReferencesExact, Holders, KeysUnique,
              Used, NoLostWakeup, At, Drained
<1>2. ASSUME NEW t \in Threads, NEW s \in Slots, NEW d \in Descriptors, Register(t, s, d)
      PROVE  Inv'
  BY <1>2, RegisterInv
<1>3. ASSUME NEW t \in Threads, NEW s \in Slots, NEW k \in Keys, NEW v \in Abis,
             Acquire(t, s, k, v)
      PROVE  Inv'
  BY <1>3, AcquireInv
<1>4. ASSUME NEW t \in Threads, Release(t) PROVE Inv'
  BY <1>4, ReleaseInv
<1>5. ASSUME NEW t \in Threads, NEW s \in Slots, Unregister(t, s) PROVE Inv'
  BY <1>5, <1>0, TearDownInv DEF Unregister
<1>6. ASSUME NEW t \in Threads, Reset(t) PROVE Inv'
  BY <1>6, <1>0, TearDownInv DEF Reset
<1>7. ASSUME NEW t \in Threads, Resume(t) PROVE Inv'
  <2>1. target[t] \in SUBSET Slots /\ accepting \in [Slots -> BOOLEAN]
    BY DEF Inv, TypeOK
  <2> QED
    BY <1>7, <2>1, TearDownInv DEF Resume
<1>8. ASSUME NEW t \in Threads, WakeSpuriously(t) PROVE Inv'
  BY <1>8 DEF WakeSpuriously, Inv, TypeOK, NoDanglingReference, ReferencesExact, Holders,
              KeysUnique, Used, NoLostWakeup, At, Drained
<1> QED
  BY <1>1, <1>2, <1>3, <1>4, <1>5, <1>6, <1>7, <1>8 DEF Next

(* The inductive invariant holds in every behaviour of the registry.       *)
THEOREM Invariance == Spec => []Inv
<1> QED
  BY InitInv, NextInv, PTL DEF Spec

(* The registry's variables keep their types; in particular no reference   *)
(* count passes SIZE_MAX (the overflow test of sys_service_acquire).       *)
THEOREM TypeCorrect == Spec => []TypeOK
<1>1. Inv => TypeOK
  BY DEF Inv
<1> QED
  BY <1>1, Invariance, PTL

(* sys_service_unregister and sys_service_registry_reset never pull a      *)
(* service from under a reference, even when several of them, and          *)
(* registrations that reuse the slot, overlap.                             *)
THEOREM ReferencesStayValid == Spec => []NoDanglingReference
<1>1. Inv => NoDanglingReference
  BY DEF Inv
<1> QED
  BY <1>1, Invariance, PTL

(* reference_count is the number of references that callers hold.          *)
THEOREM CountsAreExact == Spec => []ReferencesExact
<1>1. Inv => ReferencesExact
  BY DEF Inv
<1> QED
  BY <1>1, Invariance, PTL

(* sys_service_register never puts a key in a second slot.                 *)
THEOREM OneSlotPerKey == Spec => []KeysUnique
<1>1. Inv => KeysUnique
  BY DEF Inv
<1> QED
  BY <1>1, Invariance, PTL

(* The broadcast of sys_service_release reaches every teardown that has    *)
(* nothing left to wait for.                                               *)
THEOREM NoTeardownForgotten == Spec => []NoLostWakeup
<1>1. Inv => NoLostWakeup
  BY DEF Inv
<1> QED
  BY <1>1, Invariance, PTL

-----------------------------------------------------------------------------
(* With clients that keep the two rules (no second unregister of a key     *)
(* that is being unregistered, nothing registered or unregistered during a *)
(* reset), the targets of the teardowns are disjoint sets of used slots,   *)
(* or the whole table, so that no registration can reopen one of them.     *)
TargetsApart ==
    /\ \A t \in Threads : pc[t] = "ready" => target[t] = {}
    /\ \A t, u \in Threads : t # u => target[t] \intersect target[u] = {}
    /\ \A t \in Threads : target[t] # Slots => target[t] \subseteq Used
    /\ \A t \in Threads : \A s \in target[t] : ~accepting[s]

(* A teardown that finishes or blocks keeps the targets apart, if nobody   *)
(* else's target meets its own and its slots are closed.                   *)
LEMMA TearDownApart ==
    ASSUME TypeOK, TargetsApart, NEW t \in Threads, NEW S \in SUBSET Slots,
           NEW accepting_now \in [Slots -> BOOLEAN],
           \A s \in Slots : accepting_now[s] => accepting[s] /\ s \notin S,
           S # Slots => S \subseteq Used,
           \A u \in Threads \ {t} : target[u] \intersect S = {},
           TearDown(t, S, accepting_now)
    PROVE  TargetsApart'
<1> USE DEF TearDown
<1>1. /\ target'[t] \in {{}, S}
      /\ \A u \in Threads \ {t} : target'[u] = target[u] /\ pc'[u] = pc[u]
      /\ pc'[t] = "ready" => target'[t] = {}
  BY DEF TypeOK
<1>2. \A s \in Slots : accepting'[s] => accepting[s] /\ s \notin S
  BY DEF Closed
<1>3. \A u \in Threads : pc'[u] = "ready" => target'[u] = {}
  BY <1>1 DEF TargetsApart
<1>4. \A u, v \in Threads : u # v => target'[u] \intersect target'[v] = {}
  BY <1>1 DEF TargetsApart
<1>5. ASSUME NEW u \in Threads, target'[u] # Slots PROVE target'[u] \subseteq Used'
  <2>1. CASE Drained(S)
    <3>1. Used \ S \subseteq Used'
      BY <2>1 DEF TypeOK, Used
    <3>2. target'[t] = {}
      BY <2>1 DEF TypeOK
    <3> QED
      BY <1>1, <1>5, <3>1, <3>2 DEF TargetsApart
  <2>2. CASE ~Drained(S)
    BY <1>1, <1>5, <2>2 DEF TargetsApart, Used
  <2> QED
    BY <2>1, <2>2
<1>6. ASSUME NEW u \in Threads, NEW s \in target'[u] PROVE ~accepting'[s]
  BY <1>1, <1>2 DEF TargetsApart, TypeOK
<1> QED
  BY <1>3, <1>4, <1>5, <1>6 DEF TargetsApart

(* The steps of clients that keep both rules.                              *)
LEMMA NextApart ==
    ASSUME ExclusiveUnregister, ExclusiveReset, TypeOK, TargetsApart, [Next]_vars
    PROVE  TargetsApart'
<1> USE ServiceAssumption
<1>0. \A S \in SUBSET Slots : /\ Closed(S) \in [Slots -> BOOLEAN]
                             /\ \A s \in Slots : Closed(S)[s] => accepting[s] /\ s \notin S
  BY DEF Closed, TypeOK
<1>1. CASE UNCHANGED vars
  BY <1>1 DEF vars, TargetsApart, Used
<1>2. ASSUME NEW t \in Threads, NEW s \in Slots, NEW d \in Descriptors, Register(t, s, d)
      PROVE  TargetsApart'
  <2>1. \A u \in Threads : s \notin target[u]
    BY <1>2 DEF Register, MayRegister, TargetsApart
  <2>2. Used \subseteq Used' /\ \A r \in Slots \ {s} : accepting'[r] = accepting[r]
    BY <1>2 DEF Register, TypeOK, Used
  <2>3. target' = target /\ pc' = pc
    BY <1>2 DEF Register
  <2> QED
    BY <2>1, <2>2, <2>3 DEF TargetsApart, TypeOK
<1>3. ASSUME NEW t \in Threads, NEW s \in Slots, NEW k \in Keys, NEW v \in Abis,
             Acquire(t, s, k, v)
      PROVE  TargetsApart'
  BY <1>3 DEF Acquire, TargetsApart, Used
<1>4. ASSUME NEW t \in Threads, Release(t) PROVE TargetsApart'
  BY <1>4 DEF Release, Woken, TargetsApart, Used
<1>5. ASSUME NEW t \in Threads, NEW s \in Slots, Unregister(t, s) PROVE TargetsApart'
  <2>1. \A u \in Threads : target[u] \intersect {s} = {}
    BY <1>5 DEF Unregister, MayUnregister
  <2> QED
    BY <1>0, <1>5, <2>1, TearDownApart DEF Unregister
<1>6. ASSUME NEW t \in Threads, Reset(t) PROVE TargetsApart'
  BY <1>0, <1>6, TearDownApart DEF Reset, MayReset
<1>7. ASSUME NEW t \in Threads, Resume(t) PROVE TargetsApart'
  <2>1. /\ target[t] \in SUBSET Slots
        /\ accepting \in [Slots -> BOOLEAN]
        /\ \A s \in Slots : accepting[s] => s \notin target[t]
    BY DEF TypeOK, TargetsApart
  <2>2. /\ target[t] # Slots => target[t] \subseteq Used
        /\ \A u \in Threads \ {t} : target[u] \intersect target[t] = {}
    BY DEF TargetsApart
  <2>3. TearDown(t, target[t], accepting)
    BY <1>7 DEF Resume
  <2> QED
    BY <2>1, <2>2, <2>3, TearDownApart
<1>8. ASSUME NEW t \in Threads, WakeSpuriously(t) PROVE TargetsApart'
  BY <1>8 DEF WakeSpuriously, TypeOK, TargetsApart, Used
<1> QED
  BY <1>1, <1>2, <1>3, <1>4, <1>5, <1>6, <1>7, <1>8 DEF Next

(* What docs/architecture.md says of unregistering holds for clients that  *)
(* keep both rules.  The run MCSysServiceDouble shows that the first rule  *)
(* is needed.                                                              *)
THEOREM ExclusiveTeardownsCloseFirst ==
    ASSUME ExclusiveUnregister, ExclusiveReset
    PROVE  Spec => []ClosedBeforeWaiting
<1>1. Init => TargetsApart
  BY DEF Init, TargetsApart
<1>2. TypeOK /\ TargetsApart /\ [Next]_vars => TargetsApart'
  BY NextApart
<1>3. TargetsApart => ClosedBeforeWaiting
  BY DEF TargetsApart, ClosedBeforeWaiting, At
<1> QED
  BY <1>1, <1>2, <1>3, TypeCorrect, PTL DEF Spec
=============================================================================
