----------------------------- MODULE SysComponent -----------------------------
(***************************************************************************)
(* The component lifecycle of core/sys_component.c: sys_component_start_all *)
(* collects the descriptors of the link section, initializes them phase by *)
(* phase in dependency order, and starts them in the order in which they   *)
(* were initialized; sys_component_stop_all, and the rollback of a start   *)
(* that fails, stop and deinitialize them in reverse order.                *)
(*                                                                         *)
(* One thread runs the lifecycle.  An action is what it does between two   *)
(* callbacks of components; a callback is the stay at one of               *)
(*                                                                         *)
(*    init, start, stop, deinit   in that callback of `subject`            *)
(*    discard                     in a deinit that start_component calls   *)
(*                                                                         *)
(* and ends with success or failure.  Elsewhere the thread stands at       *)
(*                                                                         *)
(*    down                        no start_all yet, or the last one has    *)
(*                                failed, or stop_all has returned         *)
(*    initialize_next             in initialize_phase(phase)               *)
(*    start_next                  in the start loop of start_all, at index *)
(*    up                          start_all has succeeded                  *)
(*    stop_next, deinit_next      in rollback_components                   *)
(*                                                                         *)
(* A component is its id.  Callbacks that are NULL are callbacks that      *)
(* succeed at once.  Left out: last_error, which keeps the error of the    *)
(* callback that failed, and validation of names and enumerators.          *)
(*                                                                         *)
(* Clients: sys_component_start_all is called when the lifecycle is down   *)
(* and sys_component_stop_all when it is up (sys_core_init and             *)
(* sys_core_shutdown).                                                     *)
(***************************************************************************)
EXTENDS Naturals, FiniteSets, Sequences, SequencesExt

CONSTANTS
    Components,     \* ids
    LastPhase,      \* SYS_COMPONENT_PHASE_COUNT - 1
    Images,         \* the link sections considered: sequences of descriptors
    NULL

Phases == 0..LastPhase
Descriptors ==
    [id : Components, phase : Phases, required : BOOLEAN, dependencies : Seq(Components)]

ASSUME ComponentAssumption ==
    /\ IsFiniteSet(Components) /\ Components \subseteq Nat
    /\ NULL \notin Components
    /\ LastPhase \in Nat
    /\ Images \subseteq Seq(Descriptors)

VARIABLES
    section,            \* the link section; it never changes
    state,
    initialized,        \* the components whose flag `initialized` is set
    initialized_order,  \* g_initialized_order[0 .. g_initialized_count - 1]
    started_order,      \* g_started_order[0 .. g_started_count - 1]
    pc, phase, index, subject,
    alive, active       \* what init and start have built and deinit and stop
                        \* have not yet been called, or have not ended, for

orders == <<initialized, initialized_order, started_order>>
world == <<alive, active>>
vars == <<section, state, orders, pc, phase, index, subject, world>>

Registered == {section[i].id : i \in DOMAIN section}
Desc(c) == section[CHOOSE i \in DOMAIN section : section[i].id = c]
Dependencies(c) == ToSet(Desc(c).dependencies)

Lost(c) == state[c] \in {"failed", "skipped"}

(* Definitions named X_Y are X with the plausible bug Y; no action uses     *)
(* them.                                                                   *)
Ready_Unordered == {c \in Registered : state[c] = "discovered" /\ Desc(c).phase = phase}
MorePhases_OffByOne == phase <= LastPhase
Repeats_Always(skipped) == \A c \in skipped : ~Desc(c).required
AfterFailure_NoRollback(c, next) == IF Desc(c).required THEN "down" ELSE next
AfterFailure_AlwaysGoesOn(c, next) == next
NextToStop_Oldest == Head(started_order)
FinalState_AlwaysStopped(c) == "stopped"

(* validate_components: ids are unique, and a dependency is registered and *)
(* of no later phase.                                                      *)
Valid ==
    /\ IsInjective([i \in DOMAIN section |-> section[i].id])
    /\ \A c \in Registered : \A d \in Dependencies(c) :
           d \in Registered /\ Desc(d).phase <= Desc(c).phase

(* check_dependencies looks at the dependencies in their order: the first  *)
(* that is not satisfied decides.                                          *)
Unsatisfied(c, satisfied) ==
    {i \in DOMAIN Desc(c).dependencies : Desc(c).dependencies[i] \notin satisfied}
DependenciesReady(c, satisfied) == Unsatisfied(c, satisfied) = {}
DependenciesFailed(c, satisfied, lost) ==
    \E i \in Unsatisfied(c, satisfied) :
        /\ \A j \in Unsatisfied(c, satisfied) : i <= j
        /\ Desc(c).dependencies[i] \in lost

Pending == {c \in Registered : state[c] = "discovered" /\ Desc(c).phase = phase}

(* The components that one pass of initialize_phase over the section       *)
(* skips: the pass sees those that it has skipped before as lost, and the  *)
(* first REQUIRED one ends it.                                             *)
LostIds == {c \in Registered : Lost(c)}
Usable == {c \in initialized : ~Lost(c)}
Before(i, S) == S \intersect {section[j].id : j \in 1..(i - 1)}
Skips(i, S) ==
    /\ section[i].id \in Pending
    /\ \A c \in Before(i, S) : ~Desc(c).required
    /\ DependenciesFailed(section[i].id, Usable, LostIds \union Before(i, S))
Skipped == CHOOSE S \in SUBSET Pending :
               \A i \in DOMAIN section : section[i].id \in S <=> Skips(i, S)

Ready == {c \in Pending : DependenciesReady(c, Usable)}
Candidate == CHOOSE c \in Ready : \A d \in Ready : c <= d

MorePhases == phase < LastPhase

(* Whether a pass without a candidate is followed by another.              *)
Repeats(skipped) == skipped # {} /\ \A c \in skipped : ~Desc(c).required

(* A component that cannot go on ends start_all with a rollback if it is   *)
(* REQUIRED.                                                               *)
AfterFailure(c, next) == IF Desc(c).required THEN "stop_next" ELSE next

NextToStop == Last(started_order)
MustDeinit(c) == c \in initialized
FinalState(c) == IF Lost(c) THEN state[c] ELSE "stopped"

(* `state` when the components S are skipped. *)
Skipping(S) == [c \in Components |-> IF c \in S THEN "skipped" ELSE state[c]]

Running == {c \in Registered : state[c] = "running"}

-----------------------------------------------------------------------------
(* collect_components, at the beginning of sys_component_start_all *)
StartAll ==
    /\ pc = "down"
    /\ state' = [c \in Components |-> "discovered"]
    /\ initialized' = {} /\ initialized_order' = <<>> /\ started_order' = <<>>
    /\ pc' = IF Valid THEN "initialize_next" ELSE "down"
    /\ phase' = 0 /\ index' = 1
    /\ UNCHANGED <<section, subject, world>>

PhaseDone ==
    /\ pc = "initialize_next"
    /\ Pending = {}
    /\ IF MorePhases
         THEN phase' = phase + 1 /\ UNCHANGED pc
         ELSE pc' = "start_next" /\ UNCHANGED phase
    /\ UNCHANGED <<section, state, orders, index, subject, world>>

(* A pass of initialize_phase that finds a component to initialize.        *)
InitializeCandidate ==
    /\ pc = "initialize_next"
    /\ \A c \in Skipped : ~Desc(c).required
    /\ Ready # {}
    /\ state' = [Skipping(Skipped) EXCEPT ![Candidate] = "initializing"]
    /\ subject' = Candidate
    /\ pc' = "init"
    /\ UNCHANGED <<section, orders, phase, index, world>>

(* A pass that finds none: it is repeated if it has skipped a component.   *)
InitializeNone ==
    /\ pc = "initialize_next"
    /\ Pending # {}
    /\ Ready = {} \/ \E c \in Skipped : Desc(c).required
    /\ state' = Skipping(Skipped)
    /\ pc' = IF Repeats(Skipped) THEN "initialize_next" ELSE "stop_next"
    /\ UNCHANGED <<section, orders, phase, index, subject, world>>

InitSucceeds ==
    /\ pc = "init"
    /\ initialized' = initialized \union {subject}
    /\ initialized_order' = Append(initialized_order, subject)
    /\ state' = [state EXCEPT ![subject] = "initialized"]
    /\ alive' = alive \union {subject}
    /\ pc' = "initialize_next"
    /\ UNCHANGED <<section, started_order, phase, index, subject, active>>

InitFails ==
    /\ pc = "init"
    /\ state' = [state EXCEPT ![subject] = "failed"]
    /\ pc' = AfterFailure(subject, "initialize_next")
    /\ UNCHANGED <<section, orders, phase, index, subject, world>>

-----------------------------------------------------------------------------
(* start_component, up to the callback.  What it skips is still            *)
(* initialized (initialized_order has each component once).                *)
StartNext ==
    /\ pc = "start_next"
    /\ index <= Len(initialized_order)
    /\ LET c == initialized_order[index] IN
         /\ subject' = c
         /\ IF DependenciesReady(c, Running)
              THEN /\ state' = [state EXCEPT ![c] = "starting"]
                   /\ pc' = "start"
              ELSE /\ state' = [state EXCEPT ![c] = "skipped"]
                   /\ pc' = AfterFailure(c, "discard")
    /\ UNCHANGED <<section, orders, phase, index, world>>

StartSucceeds ==
    /\ pc = "start"
    /\ started_order' = Append(started_order, subject)
    /\ state' = [state EXCEPT ![subject] = "running"]
    /\ active' = active \union {subject}
    /\ pc' = "start_next" /\ index' = index + 1
    /\ UNCHANGED <<section, initialized, initialized_order, phase, subject, alive>>

StartFails ==
    /\ pc = "start"
    /\ state' = [state EXCEPT ![subject] = "failed"]
    /\ pc' = AfterFailure(subject, "discard")
    /\ UNCHANGED <<section, orders, phase, index, subject, world>>

DiscardReturns ==
    /\ pc = "discard"
    /\ initialized' = initialized \ {subject}
    /\ alive' = alive \ {subject}
    /\ pc' = "start_next" /\ index' = index + 1
    /\ UNCHANGED <<section, state, initialized_order, started_order, phase, subject, active>>

StartDone ==
    /\ pc = "start_next"
    /\ index > Len(initialized_order)
    /\ pc' = "up"
    /\ UNCHANGED <<section, state, orders, phase, index, subject, world>>

-----------------------------------------------------------------------------
(* sys_component_stop_all is rollback_components. *)
StopAll ==
    /\ pc = "up"
    /\ pc' = "stop_next"
    /\ UNCHANGED <<section, state, orders, phase, index, subject, world>>

(* stop_started_components *)
StopNext ==
    /\ pc = "stop_next"
    /\ started_order # <<>>
    /\ subject' = NextToStop
    /\ started_order' = Front(started_order)
    /\ state' = [state EXCEPT ![NextToStop] = "stopping"]
    /\ pc' = "stop"
    /\ UNCHANGED <<section, initialized, initialized_order, phase, index, world>>

StopReturns ==
    /\ pc = "stop"
    /\ \E outcome \in {"stopped", "failed"} : state' = [state EXCEPT ![subject] = outcome]
    /\ active' = active \ {subject}
    /\ pc' = "stop_next"
    /\ UNCHANGED <<section, orders, phase, index, subject, alive>>

StopDone ==
    /\ pc = "stop_next"
    /\ started_order = <<>>
    /\ pc' = "deinit_next"
    /\ UNCHANGED <<section, state, orders, phase, index, subject, world>>

(* deinitialize_components *)
DeinitNext ==
    /\ pc = "deinit_next"
    /\ initialized_order # <<>>
    /\ subject' = Last(initialized_order)
    /\ initialized_order' = Front(initialized_order)
    /\ pc' = IF MustDeinit(subject') THEN "deinit" ELSE "deinit_next"
    /\ UNCHANGED <<section, state, initialized, started_order, phase, index, world>>

DeinitReturns ==
    /\ pc = "deinit"
    /\ initialized' = initialized \ {subject}
    /\ alive' = alive \ {subject}
    /\ state' = [state EXCEPT ![subject] = FinalState(subject)]
    /\ pc' = "deinit_next"
    /\ UNCHANGED <<section, initialized_order, started_order, phase, index, subject, active>>

DeinitDone ==
    /\ pc = "deinit_next"
    /\ initialized_order = <<>>
    /\ pc' = "down"
    /\ UNCHANGED <<section, state, orders, phase, index, subject, world>>

-----------------------------------------------------------------------------
Init ==
    /\ section \in Images
    /\ state = [c \in Components |-> "discovered"]
    /\ initialized = {} /\ initialized_order = <<>> /\ started_order = <<>>
    /\ pc = "down" /\ phase = 0 /\ index = 1 /\ subject = NULL
    /\ alive = {} /\ active = {}

Lifecycle ==
    \/ PhaseDone \/ InitializeCandidate \/ InitializeNone
    \/ InitSucceeds \/ InitFails
    \/ StartNext \/ StartSucceeds \/ StartFails \/ DiscardReturns \/ StartDone
    \/ StopNext \/ StopReturns \/ StopDone
    \/ DeinitNext \/ DeinitReturns \/ DeinitDone

Next == StartAll \/ StopAll \/ Lifecycle

Spec == Init /\ [][Next]_vars

(* The lifecycle thread runs on and callbacks return.                      *)
LiveSpec == Spec /\ WF_vars(Lifecycle)

-----------------------------------------------------------------------------
TypeOK ==
    /\ section \in Seq(Descriptors)
    /\ state \in [Components -> {"discovered", "initializing", "initialized", "starting",
                                 "running", "stopping", "stopped", "failed", "skipped"}]
    /\ initialized \subseteq Components
    /\ initialized_order \in Seq(Components) /\ started_order \in Seq(Components)
    /\ pc \in {"down", "initialize_next", "init", "start_next", "start", "discard", "up",
               "stop_next", "stop", "deinit_next", "deinit"}
    /\ phase \in Phases /\ index \in Nat \ {0}
    /\ subject \in Components \union {NULL}
    /\ alive \subseteq Components /\ active \subseteq Components

(* docs/architecture.md, section 4: a component is started only when what  *)
(* it depends on is RUNNING.  And that stays RUNNING until the component   *)
(* has stopped, also in a rollback and when other components have failed   *)
(* or were skipped.                                                        *)
DependenciesRunning ==
    \A c \in active \union (IF pc = "start" THEN {subject} ELSE {}) :
        \A d \in Dependencies(c) : state[d] = "running" /\ d \in active

(* The components that init has been called for and deinit has not.        *)
Built == alive \union (IF pc = "init" THEN {subject} ELSE {})

(* No component is initialized before what it depends on, and none loses   *)
(* what it depends on while it is initialized, with one exception: an      *)
(* OPTIONAL component whose start fails is deinitialized at once, before   *)
(* initialized components that depend on it (docs/architecture.md,         *)
(* section 4, has all of them released in reverse order; app/features only *)
(* depends on what is REQUIRED).                                           *)
RequiredDependenciesAlive == \A c \in Built : \A d \in Dependencies(c) :
    d \in alive \/ (~Desc(d).required /\ Lost(d) /\ d \in ToSet(initialized_order))

(* deinit is called for what init has built, once, and stop for what start *)
(* has built, once; deinit is not called for what still runs.  And however *)
(* initialization and start have failed: when the lifecycle is down,       *)
(* nothing is left that a component has built.                             *)
TakenDownOnce ==
    /\ pc \in {"deinit", "discard"} => subject \in alive \ active
    /\ pc = "stop" => subject \in active
    /\ pc = "down" => alive = {} /\ active = {}

(* When start_all has succeeded, every REQUIRED component runs, and any    *)
(* other component that does not run is FAILED or SKIPPED and has nothing  *)
(* left.  A component is skipped only for a dependency that is itself lost. *)
UpIsComplete ==
    pc = "up" => /\ \A c \in Registered : Desc(c).required => c \in Running
                 /\ \A c \in Registered : c \in Running \/ Lost(c)
                 /\ \A c \in Registered : state[c] = "skipped" => \E d \in Dependencies(c) : Lost(d)
                 /\ alive = Running /\ active = Running

(* docs/architecture.md, section 4: a failure is not swallowed.  A FAILED  *)
(* or SKIPPED component stays so, through the rollback too, until the next *)
(* start_all.                                                              *)
FailuresKept ==
    [][\A c \in Components : Lost(c) => state'[c] = state[c] \/ pc = "down"]_vars

(* Dependency cycles and failing components do not keep start_all from     *)
(* returning, nor a stop_all.                                              *)
LifecycleReturns == pc \notin {"down", "up"} ~> pc \in {"down", "up"}
=============================================================================
