---------------------------- MODULE SysCoreProofs ----------------------------
(***************************************************************************)
(* Proofs about the framework as sys_core_init and sys_core_shutdown drive *)
(* it, for any number of threads and any components: CoreSpec.             *)
(*                                                                         *)
(* Every step of the framework is a step of each of its three modules      *)
(* (ModulesRefined), so what is proved about them holds here (Parts), and  *)
(* CoreInvariant, which relates their states to each other and to the      *)
(* place of the threads in sys_core.c, is inductive together with it.      *)
(***************************************************************************)
EXTENDS SysCore, FiniteSetTheorems, TLAPS

(* The proofs about the three modules, with the instantiation of SysCore.  *)
CP == INSTANCE SysComponentProofs WITH pc <- lifecycle_pc
EP == INSTANCE SysEventProofs WITH
        Subscriptions <- Subscribers, Events <- {"event"}, QueueCapacity <- 1,
        MaxSubscribers <- Cardinality(Subscribers), ExclusiveStart <- FALSE,
        pc <- event_pc, target <- unsubscribing
SP == INSTANCE SysServiceProofs WITH
        Slots <- Providers, Keys <- Providers, Abis <- {"abi"}, Ops <- Providers,
        SIZE_MAX <- Cardinality(Threads), ExclusiveUnregister <- FALSE, ExclusiveReset <- FALSE,
        accepting <- slot_accepting, pc <- service_pc, target <- emptying

(* What threads do with the framework: any of them may initialize it, shut *)
(* it down, call its services and check the health of its components.      *)
CallerStep(t) ==
    \/ CoreInit(t) \/ CoreShutdown(t)
    \/ PublishInCall(t) \/ Release(t) \/ HealthChecked(t)
    \/ \E c \in Providers : Acquire(t, c)
    \/ \E c \in Components : CheckHealth(t, c)

CoreNext ==
    \/ \E t \in Threads : CallerStep(t) \/ CoreStep(t)
    \/ \E p \in Threads \union {Worker} : CallbackEnds(p)
    \/ WorkerRuns
    \/ \E c \in Producers : ProducerEnds(c)

CoreSpec == CoreStart /\ [][CoreNext]_frameworkVars

-----------------------------------------------------------------------------
(* What holds in the three modules.                                        *)
Parts ==
    /\ C!TypeOK /\ C!TakenDownOnce
    /\ \A c \in Components : state[c] = "running" => c \in active
    /\ E!TypeOK /\ E!NoUseAfterFree /\ EP!DeliveriesOK /\ EP!TargetsOK /\ EP!LifecycleOK
    /\ S!TypeOK /\ S!NoDanglingReference /\ S!ReferencesExact

(* One thread at a time is in sys_core_init or sys_core_shutdown, and      *)
(* g_core_state says in which.                                             *)
Control ==
    /\ \A t, u \in Inside : t = u
    /\ core_state \in {"STOPPED", "RUNNING"} => Inside = {}
    /\ core_state = "STARTING" => \E t \in Threads : at[t] \in InitPoints
    /\ core_state = "STOPPING" => \E t \in Threads : at[t] \in ShutdownPoints

(* Where the lifecycle is at each point of the two functions.              *)
DownPoints == {"init_reset", "init_bus", "init_components", "rollback_bus", "rollback_reset",
               "rolled_back", "stop_bus", "check_threads", "stop_reset", "stop_done"}
UpPoints == {"init_done", "stop_components"}
StopAllPCs == {"stop_next", "stop", "deinit_next", "deinit"}
LifecycleOf(t) ==
    /\ at[t] \in DownPoints => lifecycle_pc = "down"
    /\ at[t] \in UpPoints => lifecycle_pc = "up"
    /\ at[t] = "start_all" => lifecycle_pc \notin {"up", "down"}
    /\ at[t] = "stop_all" => lifecycle_pc \in StopAllPCs
LifecycleAt ==
    /\ core_state = "STOPPED" => lifecycle_pc = "down"
    /\ core_state = "RUNNING" => lifecycle_pc = "up"
    /\ \A t \in Threads : LifecycleOf(t)

(* Where the bus runs, and who may be in its start or its stop.            *)
BusPoints == {"init_components", "start_all", "init_done", "stop_components", "stop_all"}
NoBusPoints == {"init_reset", "rollback_reset", "rolled_back", "check_threads", "stop_reset",
                "stop_done"}
BusOf(t) ==
    /\ at[t] \in BusPoints => running
    /\ at[t] \in NoBusPoints => ~running
    /\ at[t] = "init_bus" /\ event_pc[t] = "ready" => ~running
    /\ event_pc[t] = "start" => at[t] = "init_bus"
    /\ event_pc[t] \in E!StopPCs => at[t] \in DOMAIN AfterBus
BusAt ==
    /\ core_state = "STOPPED" => ~running
    /\ core_state = "RUNNING" => running
    /\ \A t \in Threads : BusOf(t)

(* What a thread can be in the middle of, and where: a thread in one of    *)
(* the two functions holds nothing from outside, and the calls that it     *)
(* makes there belong to the callback of the lifecycle.                    *)
CallsOf(t) ==
    /\ at[t] # "out" => ref[t] = NULL /\ checking[t] = NULL
    /\ event_pc[t] = "callback" =>
           ref[t] # NULL \/ (RunsComponents(t) /\ lifecycle_pc = "stop")
    /\ event_pc[t] \in E!UnsubscribePCs =>
           RunsComponents(t) /\ lifecycle_pc \in {"deinit", "discard"}
    /\ service_pc[t] # "ready" =>
           /\ RunsComponents(t) /\ lifecycle_pc \in {"deinit", "discard"}
           /\ emptying[t] = {subject} /\ ~slot_accepting[subject]
CallsAt == \A t \in Threads : CallsOf(t)
Places == Control /\ LifecycleAt /\ BusAt /\ CallsAt

(* Services and subscriptions belong to components that are built.         *)
Contents ==
    /\ S!Used \subseteq C!Built /\ allocated \subseteq C!Built
    /\ \A c \in S!Used : desc[c] = Service(c)
    /\ \A i \in DOMAIN queue : queue[i] # {}

(* The handle of the worker follows the worker.                            *)
WorkerLife ==
    /\ life[Worker] = "running" <=> event_pc[Worker] # "none"
    /\ life[Worker] = "counted" => \E t \in Threads : event_pc[t] = "start"
    /\ life[Worker] = "exited" => \E t \in Threads : event_pc[t] = "stop_join"

(* A shutdown that still answers SYS_OK has seen that all threads are gone, *)
(* and nobody creates one any more.                                        *)
Accounts ==
    /\ ThreadsCounted
    /\ \A t \in Threads : at[t] \in {"stop_reset", "stop_done"} /\ ret[t] = "ok" =>
           InLife({"free"}) = Handles

(* A health check of this run of the framework, up to its shutdown or the  *)
(* rollback of its start, is of a component that is active.                *)
GoingUp(t) ==
    \/ at[t] \in {"init_reset", "init_bus", "init_components", "init_done"}
    \/ at[t] = "start_all" /\ lifecycle_pc \notin StopAllPCs
Health ==
    core_state = "RUNNING" \/ (\E t \in Threads : GoingUp(t)) =>
        \A t \in Threads : checking[t] # NULL /\ checking[t][2] = starts =>
            checking[t][1] \in active

CoreVariables ==
    /\ core_state \in {"STOPPED", "STARTING", "RUNNING", "STOPPING"}
    /\ at \in [Threads -> InitPoints \union ShutdownPoints \union {"out"}]
    /\ ret \in [Threads -> {"ok", "failed"}]
    /\ starts \in Nat
    /\ checking \in [Threads -> (Components \X (0..starts)) \union {NULL}]
    /\ left \subseteq Producers
    /\ life \in [Handles -> {"free", "counted", "running", "exited"}]
    /\ stop_requested \subseteq Handles

CoreInvariant ==
    /\ CoreVariables /\ Places
    /\ Contents /\ WorkerLife /\ Accounts /\ Health

-----------------------------------------------------------------------------
(* The actions of the lifecycle, in the two instances.                    *)
LEMMA SameComponentSteps == [C!Next]_(C!vars) => [CP!Next]_(CP!vars)
  BY DEF C!vars, CP!vars, C!Next, CP!Next, C!orders, CP!orders, C!world, CP!world,
     C!Registered, CP!Registered, C!Desc, CP!Desc, C!Dependencies, CP!Dependencies,
     C!Lost, CP!Lost, C!Valid, CP!Valid, C!Unsatisfied, CP!Unsatisfied,
     C!DependenciesReady, CP!DependenciesReady, C!DependenciesFailed,
     CP!DependenciesFailed, C!Pending, CP!Pending, C!LostIds, CP!LostIds, C!Usable,
     CP!Usable, C!Before, CP!Before, C!Skips, CP!Skips, C!Skipped, CP!Skipped, C!Ready,
     CP!Ready, C!Candidate, CP!Candidate, C!MorePhases, CP!MorePhases, C!Repeats,
     CP!Repeats, C!AfterFailure, CP!AfterFailure, C!NextToStop, CP!NextToStop,
     C!MustDeinit, CP!MustDeinit, C!FinalState, CP!FinalState, C!Skipping, CP!Skipping,
     C!Running, CP!Running, C!StartAll, CP!StartAll, C!PhaseDone, CP!PhaseDone,
     C!InitializeCandidate, CP!InitializeCandidate, C!InitializeNone, CP!InitializeNone,
     C!InitSucceeds, CP!InitSucceeds, C!InitFails, CP!InitFails, C!StartNext,
     CP!StartNext, C!StartSucceeds, CP!StartSucceeds, C!StartFails, CP!StartFails,
     C!DiscardReturns, CP!DiscardReturns, C!StartDone, CP!StartDone, C!StopAll,
     CP!StopAll, C!StopNext, CP!StopNext, C!StopReturns, CP!StopReturns, C!StopDone,
     CP!StopDone, C!DeinitNext, CP!DeinitNext, C!DeinitReturns, CP!DeinitReturns,
     C!DeinitDone, CP!DeinitDone, C!Lifecycle, CP!Lifecycle, C!ToSet, CP!ToSet,
     C!IsInjective, CP!IsInjective, C!Last, CP!Last, C!Front, CP!Front

(* The actions of the bus, in the two instances.                          *)
LEMMA SameEventSteps == [E!Next]_(E!vars) => [EP!Next]_(EP!vars)
  BY DEF E!vars, EP!vars, E!Next, EP!Next, E!Processes, EP!Processes,
     E!subscriptionVars, EP!subscriptionVars, E!busVars, EP!busVars, E!At, EP!At,
     E!UnsubscribePCs, EP!UnsubscribePCs, E!StopPCs, EP!StopPCs, E!Matching,
     EP!Matching, E!Retain, EP!Retain, E!QueueHasRoom, EP!QueueHasRoom, E!MustWaitFor,
     EP!MustWaitFor, E!HasInFlight, EP!HasInFlight, E!WorkerMayExit, EP!WorkerMayExit,
     E!WakeWorker, EP!WakeWorker, E!WakeWaiters, EP!WakeWaiters, E!Deliver, EP!Deliver,
     E!MayUse, EP!MayUse, E!Subscribe, EP!Subscribe, E!AwaitCallbacks,
     EP!AwaitCallbacks, E!Unsubscribe, EP!Unsubscribe, E!UnsubscribeResume,
     EP!UnsubscribeResume, E!PublishSync, EP!PublishSync, E!PublishAsync,
     EP!PublishAsync, E!FinishCallback, EP!FinishCallback, E!WorkerTake, EP!WorkerTake,
     E!WorkerBlock, EP!WorkerBlock, E!WorkerExit, EP!WorkerExit, E!Start, EP!Start,
     E!StartWorker, EP!StartWorker, E!StartFails, EP!StartFails, E!Stop, EP!Stop,
     E!FinishStop, EP!FinishStop, E!WakeSpuriously, EP!WakeSpuriously, E!ClientCall,
     EP!ClientCall, E!Use, EP!Use, E!ClientStep, EP!ClientStep, E!WorkerStep,
     EP!WorkerStep, E!Last, EP!Last, E!Front, EP!Front, E!Cardinality, EP!Cardinality

(* The actions of the registry, in the two instances.                     *)
LEMMA SameServiceSteps == [S!Next]_(S!vars) => [SP!Next]_(SP!vars)
  BY DEF S!vars, SP!vars, S!Next, SP!Next, S!Descriptors, SP!Descriptors, S!Used,
     SP!Used, S!At, SP!At, S!IsRegistered, SP!IsRegistered, S!CanAcquire, SP!CanAcquire,
     S!Woken, SP!Woken, S!Drained, SP!Drained, S!Closed, SP!Closed, S!MayUnregister,
     SP!MayUnregister, S!MayReset, SP!MayReset, S!MayRegister, SP!MayRegister,
     S!Register, SP!Register, S!Acquire, SP!Acquire, S!Release, SP!Release, S!TearDown,
     SP!TearDown, S!Unregister, SP!Unregister, S!Reset, SP!Reset, S!Resume, SP!Resume,
     S!WakeSpuriously, SP!WakeSpuriously

(* The assumptions of the three modules hold in both instances.            *)
LEMMA Assumptions == CP!ComponentAssumption /\ EP!EventAssumption /\ SP!ServiceAssumption
<1>1. CP!ComponentAssumption
  BY CoreAssumption DEF CoreAssumption, C!ComponentAssumption, CP!ComponentAssumption, C!Descriptors,
     CP!Descriptors, C!Phases, CP!Phases, C!IsFiniteSet, CP!IsFiniteSet
<1>2. EP!EventAssumption
  BY CoreAssumption DEF CoreAssumption, E!EventAssumption, EP!EventAssumption, E!IsFiniteSet,
     EP!IsFiniteSet
<1>3. SP!ServiceAssumption
  BY CoreAssumption DEF CoreAssumption, S!ServiceAssumption, SP!ServiceAssumption, S!Descriptors,
     SP!Descriptors, S!IsFiniteSet, SP!IsFiniteSet
<1> QED  BY <1>1, <1>2, <1>3

-----------------------------------------------------------------------------
(* Every step of the framework is one of the lifecycle, or leaves it alone. *)
LEMMA ComponentStep == [CoreNext]_frameworkVars => [C!Next]_(C!vars)
<1> USE DEF componentVars, C!vars, C!orders, C!world
<1>1. ASSUME UNCHANGED componentVars PROVE UNCHANGED C!vars
  BY <1>1
<1>2. ASSUME NEW t \in Threads, CallerStep(t) PROVE UNCHANGED componentVars
  BY <1>2 DEF CallerStep, CoreInit, CoreShutdown, PublishInCall, Release, HealthChecked, Acquire,
     CheckHealth
<1>3. ASSUME NEW t \in Threads, CoreStep(t) PROVE [C!Next]_(C!vars)
  <2>1. ASSUME CallComponents(t) PROVE C!Next
    BY <2>1 DEF CallComponents, C!Next
  <2>2. ASSUME BetweenCallbacks(t) PROVE C!Next
    BY <2>2 DEF BetweenCallbacks, C!Next, C!Lifecycle
  <2>3. ASSUME CallbackReturns(t) PROVE C!Next
    BY <2>3 DEF CallbackReturns, C!Next, C!Lifecycle
  <2>4. ASSUME ResetRegistry(t) PROVE UNCHANGED componentVars  BY <2>4 DEF ResetRegistry
  <2>5. ASSUME StartBus(t) PROVE UNCHANGED componentVars  BY <2>5 DEF StartBus
  <2>6. ASSUME StopBus(t) PROVE UNCHANGED componentVars  BY <2>6 DEF StopBus
  <2>7. ASSUME CheckThreads(t) \/ CoreReturns(t) PROVE UNCHANGED componentVars
    BY <2>7 DEF CheckThreads, CoreReturns
  <2>8. ASSUME UseRegistry(t) PROVE UNCHANGED componentVars  BY <2>8 DEF UseRegistry
  <2>9. ASSUME UseBus(t) PROVE UNCHANGED componentVars  BY <2>9 DEF UseBus
  <2>10. ASSUME UseThread(t) PROVE UNCHANGED componentVars  BY <2>10 DEF UseThread
  <2> HIDE DEF componentVars, C!vars
  <2> QED
    BY <1>1, <1>3, <2>1, <2>2, <2>3, <2>4, <2>5, <2>6, <2>7, <2>8, <2>9, <2>10 DEF CoreStep
<1>4. ASSUME NEW p \in Threads \union {Worker}, CallbackEnds(p) PROVE UNCHANGED componentVars
  BY <1>4 DEF CallbackEnds
<1>5. ASSUME WorkerRuns PROVE UNCHANGED componentVars
  BY <1>5 DEF WorkerRuns
<1>6. ASSUME NEW c \in Producers, ProducerEnds(c) PROVE UNCHANGED componentVars
  BY <1>6 DEF ProducerEnds
<1>7. ASSUME UNCHANGED frameworkVars PROVE UNCHANGED componentVars
  BY <1>7 DEF frameworkVars
<1> HIDE DEF componentVars, C!vars
<1> QED
  BY <1>1, <1>2, <1>3, <1>4, <1>5, <1>6, <1>7 DEF CoreNext

(* The same of the bus.                                                    *)
LEMMA EventStep == [CoreNext]_frameworkVars => [E!Next]_(E!vars)
<1> USE DEF eventVars, E!vars, E!subscriptionVars, E!busVars
<1>1. ASSUME UNCHANGED eventVars PROVE UNCHANGED E!vars
  BY <1>1
<1> HIDE DEF eventVars, E!vars, E!subscriptionVars, E!busVars
<1>2. ASSUME NEW t \in Threads, CallerStep(t) PROVE [E!Next]_(E!vars)
  <2>1. ASSUME PublishInCall(t) PROVE E!Next
    BY <2>1 DEF PublishInCall, E!Next, E!Use, E!Processes
  <2> QED
    BY <1>1, <1>2, <2>1 DEF CallerStep, CoreInit, CoreShutdown, Release, HealthChecked, Acquire,
       CheckHealth
<1>3. ASSUME NEW t \in Threads, CoreStep(t) PROVE [E!Next]_(E!vars)
  <2>1. ASSUME StartBus(t) PROVE [E!Next]_(E!vars)
    BY <1>1, <2>1 DEF StartBus, E!Next, E!ClientCall, E!ClientStep
  <2>2. ASSUME StopBus(t) PROVE [E!Next]_(E!vars)
    BY <1>1, <2>2 DEF StopBus, E!Next, E!ClientCall, E!ClientStep
  <2>3. ASSUME UseBus(t) PROVE E!Next
    <3>1. ASSUME subject \in Subscribers, E!Subscribe(t, subject, "event") PROVE E!Next
      BY <3>1 DEF E!Next, E!Use, E!Processes
    <3>2. ASSUME subject \in Subscribers, E!Unsubscribe(t, subject) \/ E!UnsubscribeResume(t)
          PROVE  E!Next
      BY <3>2 DEF E!Next, E!ClientCall, E!ClientStep
    <3>3. ASSUME E!PublishSync(t, "event") PROVE E!Next
      BY <3>3 DEF E!Next, E!Use, E!Processes
    <3> QED  BY <2>3, <3>1, <3>2, <3>3 DEF UseBus
  <2>4. ASSUME ResetRegistry(t) PROVE UNCHANGED eventVars  BY <2>4 DEF ResetRegistry
  <2>5. ASSUME CallComponents(t) PROVE UNCHANGED eventVars  BY <2>5 DEF CallComponents
  <2>6. ASSUME BetweenCallbacks(t) PROVE UNCHANGED eventVars  BY <2>6 DEF BetweenCallbacks
  <2>7. ASSUME CheckThreads(t) \/ CoreReturns(t) PROVE UNCHANGED eventVars
    BY <2>7 DEF CheckThreads, CoreReturns
  <2>8. ASSUME UseRegistry(t) PROVE UNCHANGED eventVars  BY <2>8 DEF UseRegistry
  <2>9. ASSUME CallbackReturns(t) PROVE UNCHANGED eventVars  BY <2>9 DEF CallbackReturns
  <2>10. ASSUME UseThread(t) PROVE UNCHANGED eventVars  BY <2>10 DEF UseThread
  <2> QED
    BY <1>1, <1>3, <2>1, <2>2, <2>3, <2>4, <2>5, <2>6, <2>7, <2>8, <2>9, <2>10 DEF CoreStep
<1>4. ASSUME NEW p \in Threads \union {Worker}, CallbackEnds(p) PROVE E!Next
  BY <1>4 DEF CallbackEnds, E!Next, E!ClientStep, E!WorkerStep
<1>5. ASSUME WorkerRuns PROVE E!Next
  BY <1>5 DEF WorkerRuns, E!Next, E!WorkerStep
<1>6. ASSUME NEW c \in Producers, ProducerEnds(c) PROVE UNCHANGED eventVars
  BY <1>6 DEF ProducerEnds
<1>7. ASSUME UNCHANGED frameworkVars PROVE UNCHANGED eventVars
  BY <1>7 DEF frameworkVars
<1> QED
  BY <1>1, <1>2, <1>3, <1>4, <1>5, <1>6, <1>7 DEF CoreNext

(* The descriptor a Provider registers, and the keys in the registry.      *)
LEMMA ServiceIs ==
    ASSUME NEW c \in Providers
    PROVE  Service(c) \in S!Descriptors /\ Service(c).key = c /\ Service(c) # NULL
<1>1. Service(c) \in S!Descriptors /\ Service(c).key = c
  BY DEF Service, S!Descriptors
<1> QED  BY <1>1, CoreAssumption DEF CoreAssumption, S!ServiceAssumption

(* The same of the registry.                                               *)
LEMMA ServiceStep == [CoreNext]_frameworkVars => [S!Next]_(S!vars)
<1>1. ASSUME UNCHANGED serviceVars PROVE UNCHANGED S!vars
  BY <1>1 DEF serviceVars, S!vars
<1>2. ASSUME NEW t \in Threads, CallerStep(t) PROVE [S!Next]_(S!vars)
  <2>1. ASSUME Release(t) PROVE S!Next
    BY <2>1 DEF Release, S!Next
  <2>2. ASSUME NEW c \in Providers, Acquire(t, c) PROVE S!Next
    BY <2>2 DEF Acquire, S!Next
  <2> QED
    BY <1>1, <1>2, <2>1, <2>2 DEF CallerStep, CoreInit, CoreShutdown, PublishInCall, HealthChecked,
       CheckHealth
<1>3. ASSUME NEW t \in Threads, CoreStep(t) PROVE [S!Next]_(S!vars)
  <2>1. ASSUME ResetRegistry(t) PROVE S!Next
    BY <2>1 DEF ResetRegistry, S!Next
  <2>2. ASSUME UseRegistry(t) PROVE S!Next
    BY <2>2, ServiceIs DEF UseRegistry, S!Next
  <2>3. ASSUME StartBus(t) PROVE UNCHANGED serviceVars  BY <2>3 DEF StartBus
  <2>4. ASSUME StopBus(t) PROVE UNCHANGED serviceVars  BY <2>4 DEF StopBus
  <2>5. ASSUME CallComponents(t) PROVE UNCHANGED serviceVars  BY <2>5 DEF CallComponents
  <2>6. ASSUME BetweenCallbacks(t) PROVE UNCHANGED serviceVars  BY <2>6 DEF BetweenCallbacks
  <2>7. ASSUME CheckThreads(t) \/ CoreReturns(t) PROVE UNCHANGED serviceVars
    BY <2>7 DEF CheckThreads, CoreReturns
  <2>8. ASSUME UseBus(t) PROVE UNCHANGED serviceVars  BY <2>8 DEF UseBus
  <2>9. ASSUME CallbackReturns(t) PROVE UNCHANGED serviceVars  BY <2>9 DEF CallbackReturns
  <2>10. ASSUME UseThread(t) PROVE UNCHANGED serviceVars  BY <2>10 DEF UseThread
  <2> QED
    BY <1>1, <1>3, <2>1, <2>2, <2>3, <2>4, <2>5, <2>6, <2>7, <2>8, <2>9, <2>10 DEF CoreStep
<1>4. ASSUME NEW p \in Threads \union {Worker}, CallbackEnds(p) PROVE UNCHANGED serviceVars
  BY <1>4 DEF CallbackEnds
<1>5. ASSUME WorkerRuns PROVE UNCHANGED serviceVars
  BY <1>5 DEF WorkerRuns
<1>6. ASSUME NEW c \in Producers, ProducerEnds(c) PROVE UNCHANGED serviceVars
  BY <1>6 DEF ProducerEnds
<1>7. ASSUME UNCHANGED frameworkVars PROVE UNCHANGED serviceVars
  BY <1>7 DEF frameworkVars
<1> QED
  BY <1>1, <1>2, <1>3, <1>4, <1>5, <1>6, <1>7 DEF CoreNext

-----------------------------------------------------------------------------
(* The framework starts as its modules start.                              *)
LEMMA PartsInit == CoreStart => CP!Init /\ EP!Init /\ SP!Init
<1>1. C!Init => CP!Init
  BY DEF C!Init, CP!Init
<1>2. E!Init => EP!Init
  BY DEF E!Init, EP!Init, E!Processes, EP!Processes
<1>3. S!Init => SP!Init
  BY DEF S!Init, SP!Init
<1> QED  BY <1>1, <1>2, <1>3 DEF CoreStart

(* So the framework is a refinement of each of them: whatever threads do,  *)
(* the core uses the lifecycle, the bus and the registry only in the ways  *)
(* that these allow.                                                       *)
THEOREM ModulesRefined == CoreSpec => CP!Spec /\ EP!Spec /\ SP!Spec
<1>1. [CoreNext]_frameworkVars => [CP!Next]_(CP!vars)
  BY ComponentStep, SameComponentSteps
<1>2. [CoreNext]_frameworkVars => [EP!Next]_(EP!vars)
  BY EventStep, SameEventSteps
<1>3. [CoreNext]_frameworkVars => [SP!Next]_(SP!vars)
  BY ServiceStep, SameServiceSteps
<1> QED  BY <1>1, <1>2, <1>3, PartsInit, PTL DEF CoreSpec, CP!Spec, EP!Spec, SP!Spec

(* What their invariants say in the terms of this module.                  *)
LEMMA PartsMean == CP!Invariant /\ CP!TakenDownOnce /\ EP!Invariant /\ SP!Inv => Parts
<1>1. CP!Invariant => C!TypeOK
  BY DEF CP!Invariant, C!TypeOK, CP!TypeOK, C!Phases, CP!Phases, C!Descriptors, CP!Descriptors
<1>2. CP!TakenDownOnce => C!TakenDownOnce
  BY DEF C!TakenDownOnce, CP!TakenDownOnce
<1>3. ASSUME CP!Invariant, NEW c \in Components, state[c] = "running" PROVE c \in active
  BY <1>3 DEF CP!Invariant, CP!States, CP!Flags, CP!Started
<1>4. EP!Invariant => E!TypeOK
  BY DEF EP!Invariant, EP!Types, E!TypeOK, EP!TypeOK, E!Cardinality, EP!Cardinality, E!Processes,
     EP!Processes, E!ClientPCs, EP!ClientPCs, E!WorkerPCs, EP!WorkerPCs, E!StopPCs, EP!StopPCs,
     E!UnsubscribePCs, EP!UnsubscribePCs
<1>5. EP!Invariant => E!NoUseAfterFree
  BY DEF EP!Invariant, E!NoUseAfterFree, EP!NoUseAfterFree, E!Processes, EP!Processes, E!Callees,
     EP!Callees
<1>6. SP!Inv => S!TypeOK
  BY DEF SP!Inv, S!TypeOK, SP!TypeOK, S!Descriptors, SP!Descriptors
<1>7. SP!Inv => S!NoDanglingReference
  BY DEF SP!Inv, S!NoDanglingReference, SP!NoDanglingReference
<1>8. SP!Inv => S!ReferencesExact
  BY DEF SP!Inv, S!ReferencesExact, SP!ReferencesExact, S!Holders, SP!Holders, S!Cardinality,
     SP!Cardinality
<1> QED  BY <1>1, <1>2, <1>3, <1>4, <1>5, <1>6, <1>7, <1>8 DEF Parts, EP!Invariant

(* So they hold in the framework.                                          *)
LEMMA PartsHold == CoreSpec => []Parts
<1>1. CP!Spec => [](CP!Invariant /\ CP!TakenDownOnce)
  BY Assumptions, CP!InvariantHolds, CP!TakenDownExactlyOnce, PTL
<1>2. EP!Spec => []EP!Invariant
  BY Assumptions, EP!InvariantHolds
<1>3. SP!Spec => []SP!Inv
  BY Assumptions, SP!Invariance
<1> QED  BY <1>1, <1>2, <1>3, ModulesRefined, PartsMean, PTL

-----------------------------------------------------------------------------
(* How the places of threads in calls of the bus change in one step.       *)
Kin(p, q) ==
    \/ p = q
    \/ {p, q} \subseteq E!UnsubscribePCs
    \/ {p, q} \subseteq {"stop_sleep", "stop_woken"}

(* The process p moves to one of `places`; others are woken at most.       *)
Moves(p, places) ==
    /\ event_pc'[p] \in places
    /\ \A u \in Threads \ {p} : Kin(event_pc[u], event_pc'[u])
    /\ p # Worker => (event_pc'[Worker] = "none" <=> event_pc[Worker] = "none")

(* A signal to the worker, and a broadcast to those who wait for callbacks. *)
LEMMA Wakes ==
    ASSUME NEW p, NEW q, NEW f,
           p \in [E!Processes -> E!ClientPCs \union E!WorkerPCs],
           q = E!WakeWorker(p) \/ q = E!WakeWaiters(f, p)
    PROVE  /\ \A u \in E!Processes : Kin(p[u], q[u]) \/ (p[u] = "sleep" /\ q[u] = "woken")
           /\ \A u \in E!Processes : p[u] # "sleep" => Kin(p[u], q[u])
           /\ \A u \in E!Processes : p[u] \notin {"sleep", "unsubscribe_sleep", "stop_sleep"} => q[u] = p[u]
<1>1. ASSUME q = E!WakeWorker(p), NEW u \in E!Processes PROVE p[u] = q[u] \/ (p[u] = "sleep" /\ q[u] = "woken")
  BY <1>1 DEF E!WakeWorker
<1>2. ASSUME q = E!WakeWaiters(f, p), NEW u \in E!Processes
      PROVE  \/ p[u] = q[u]
             \/ p[u] = "unsubscribe_sleep" /\ q[u] = "unsubscribe_woken"
             \/ p[u] = "stop_sleep" /\ q[u] = "stop_woken"
  BY <1>2 DEF E!WakeWaiters
<1> QED  BY <1>1, <1>2 DEF Kin, E!UnsubscribePCs

(* Clients and the worker are different processes.                         *)
LEMMA WorkerApart == Worker \notin Threads
  BY CoreAssumption DEF CoreAssumption, E!EventAssumption

(* How each action of the bus moves the process that takes it.             *)
LEMMA BusMoves ==
    ASSUME E!TypeOK, NEW t \in Threads
    PROVE  /\ \A s : E!Unsubscribe(t, s) \/ E!UnsubscribeResume(t) =>
                  Moves(t, {"unsubscribe_sleep", "ready"})
           /\ \A s, e : E!Subscribe(t, s, e) => Moves(t, {event_pc[t]})
           /\ \A e : E!PublishSync(t, e) => Moves(t, {"callback"})
           /\ \A e : E!PublishAsync(t, e) => Moves(t, {event_pc[t]})
           /\ E!Start(t) => Moves(t, {"start"})
           /\ E!StartFails(t) => Moves(t, {"ready"})
           /\ E!Stop(t) => Moves(t, {"stop_join"})
           /\ E!FinishStop(t) => Moves(t, {"stop_sleep", "ready"})
           /\ E!FinishCallback(t) => Moves(t, {"callback", "ready"})
<1> USE WorkerApart
<1>0. /\ event_pc \in [E!Processes -> E!ClientPCs \union E!WorkerPCs]
      /\ t \in E!Processes /\ Worker \in E!Processes /\ Threads \subseteq E!Processes
      /\ event_pc[Worker] \in E!WorkerPCs /\ \A u \in Threads : event_pc[u] # "sleep"
  BY DEF E!TypeOK, E!Processes, E!ClientPCs, E!UnsubscribePCs, E!StopPCs
<1>1. ASSUME NEW x, event_pc' = [event_pc EXCEPT ![t] = x] PROVE Moves(t, {x})
  BY <1>0, <1>1 DEF Moves, Kin
<1>2. ASSUME UNCHANGED event_pc PROVE Moves(t, {event_pc[t]})
  BY <1>0, <1>2 DEF Moves, Kin
<1>3. ASSUME NEW x \in {"callback", "stop_join", "ready"}, NEW f,
             LET p == [event_pc EXCEPT ![t] = x]
             IN  event_pc' = E!WakeWorker(p) \/ event_pc' = E!WakeWaiters(f, p)
      PROVE  Moves(t, {x})
  <2> DEFINE p == [event_pc EXCEPT ![t] = x]
  <2>1. /\ p \in [E!Processes -> E!ClientPCs \union E!WorkerPCs] /\ p[t] = x
        /\ \A u \in E!Processes \ {t} : p[u] = event_pc[u]
    BY <1>0, <1>3 DEF E!ClientPCs, E!StopPCs
  <2>2. event_pc' = E!WakeWorker(p) \/ event_pc' = E!WakeWaiters(f, p)
    BY <1>3
  <2> HIDE DEF p
  <2>3. /\ \A u \in E!Processes : Kin(p[u], event_pc'[u]) \/ (p[u] = "sleep" /\ event_pc'[u] = "woken")
        /\ \A u \in E!Processes : p[u] # "sleep" => Kin(p[u], event_pc'[u])
        /\ \A u \in E!Processes : p[u] \notin {"sleep", "unsubscribe_sleep", "stop_sleep"} => event_pc'[u] = p[u]
    BY <2>1, <2>2, Wakes
  <2>4. event_pc'[t] = x
    BY <1>0, <2>1, <2>3
  <2>5. \A u \in Threads \ {t} : Kin(event_pc[u], event_pc'[u])
    BY <1>0, <2>1, <2>3
  <2>6. event_pc'[Worker] = "none" <=> event_pc[Worker] = "none"
    BY <1>0, <2>1, <2>3 DEF Kin, E!WorkerPCs, E!UnsubscribePCs
  <2> QED  BY <2>4, <2>5, <2>6 DEF Moves
<1>4. ASSUME event_pc' = E!WakeWorker(event_pc) PROVE Moves(t, {event_pc[t]})
  BY <1>0, <1>4 DEF E!WakeWorker, Moves, Kin, E!WorkerPCs, E!Processes
<1>5. ASSUME NEW x, NEW y, event_pc' = [event_pc EXCEPT ![t] = x] \/ event_pc' = [event_pc EXCEPT ![t] = y]
      PROVE  Moves(t, {x, y})
  BY <1>0, <1>5 DEF Moves, Kin
<1>6. ASSUME NEW s, E!Unsubscribe(t, s) \/ E!UnsubscribeResume(t)
      PROVE  Moves(t, {"unsubscribe_sleep", "ready"})
  BY <1>5, <1>6 DEF E!Unsubscribe, E!UnsubscribeResume, E!AwaitCallbacks
<1>7. ASSUME E!FinishStop(t) PROVE Moves(t, {"stop_sleep", "ready"})
  BY <1>5, <1>7 DEF E!FinishStop
<1>8. ASSUME E!FinishCallback(t) PROVE Moves(t, {"callback", "ready"})
  <2>1. PICK x \in {"callback", "ready"} :
            \E f : event_pc' = E!WakeWaiters(f, [event_pc EXCEPT ![t] = x])
    BY <1>8 DEF E!FinishCallback
  <2>2. PICK f : event_pc' = E!WakeWaiters(f, [event_pc EXCEPT ![t] = x])
    BY <2>1
  <2>3. Moves(t, {x})
    BY <1>3, <2>2
  <2> QED  BY <2>3 DEF Moves
<1>9. ASSUME E!Stop(t) PROVE Moves(t, {"stop_join"})
  BY <1>3, <1>9 DEF E!Stop
<1>10. ASSUME NEW s, NEW e, E!Subscribe(t, s, e) PROVE Moves(t, {event_pc[t]})
  BY <1>2, <1>10 DEF E!Subscribe
<1>11. ASSUME NEW e, E!PublishSync(t, e) PROVE Moves(t, {"callback"})
  BY <1>1, <1>11 DEF E!PublishSync
<1>12. ASSUME NEW e, E!PublishAsync(t, e) PROVE Moves(t, {event_pc[t]})
  BY <1>4, <1>12 DEF E!PublishAsync
<1>13. ASSUME E!Start(t) PROVE Moves(t, {"start"})
  BY <1>1, <1>13 DEF E!Start
<1>14. ASSUME E!StartFails(t) PROVE Moves(t, {"ready"})
  BY <1>1, <1>14 DEF E!StartFails
<1> QED
  BY <1>6, <1>7, <1>8, <1>9, <1>10, <1>11, <1>12, <1>13, <1>14

(* The same of the worker, whose steps leave the clients where they are.   *)
LEMMA WorkerMoves ==
    ASSUME E!TypeOK
    PROVE  /\ E!WorkerTake \/ E!WorkerBlock =>
                  event_pc[Worker] # "none" /\ Moves(Worker, {"callback", "sleep"})
           /\ E!WorkerExit => event_pc[Worker] # "none" /\ Moves(Worker, {"none"})
           /\ E!FinishCallback(Worker) =>
                  event_pc[Worker] # "none" /\ Moves(Worker, {"callback", "loop"})
<1> USE WorkerApart
<1>0. /\ event_pc \in [E!Processes -> E!ClientPCs \union E!WorkerPCs]
      /\ Worker \in E!Processes /\ Threads \subseteq E!Processes
      /\ \A u \in Threads : event_pc[u] # "sleep"
  BY DEF E!TypeOK, E!Processes, E!ClientPCs, E!UnsubscribePCs, E!StopPCs
<1>1. E!WorkerTake \/ E!WorkerBlock => Moves(Worker, {"callback", "sleep"})
  BY <1>0 DEF E!WorkerTake, E!WorkerBlock, Moves, Kin
<1>2. E!WorkerExit => Moves(Worker, {"none"})
  BY <1>0 DEF E!WorkerExit, Moves, Kin
<1>3. ASSUME E!FinishCallback(Worker) PROVE Moves(Worker, {"callback", "loop"})
  <2>0. PICK x \in {"callback", "loop"} :
            \E f : event_pc' = E!WakeWaiters(f, [event_pc EXCEPT ![Worker] = x])
    BY <1>3 DEF E!FinishCallback
  <2>1. PICK f : event_pc' = E!WakeWaiters(f, [event_pc EXCEPT ![Worker] = x])
    BY <2>0
  <2> DEFINE p == [event_pc EXCEPT ![Worker] = x]
  <2>2. /\ p \in [E!Processes -> E!ClientPCs \union E!WorkerPCs] /\ p[Worker] = x
        /\ \A u \in Threads : p[u] = event_pc[u]
    BY <1>0 DEF E!WorkerPCs
  <2>3. event_pc' = E!WakeWaiters(f, p)
    BY <2>1
  <2> HIDE DEF p
  <2>4. /\ \A u \in E!Processes : p[u] # "sleep" => Kin(p[u], event_pc'[u])
        /\ \A u \in E!Processes : p[u] \notin {"sleep", "unsubscribe_sleep", "stop_sleep"} => event_pc'[u] = p[u]
    BY <2>2, <2>3, Wakes
  <2> QED  BY <1>0, <2>2, <2>4 DEF Moves
<1> QED
  BY <1>1, <1>2, <1>3 DEF E!WorkerTake, E!WorkerBlock, E!WorkerExit, E!FinishCallback

-----------------------------------------------------------------------------
(* Places.                                                                 *)
(* A thread outside the two functions is in no call, but for a publication *)
(* of a service that it is calling.                                        *)
Outside(u) ==
    /\ service_pc[u] = "ready"
    /\ event_pc[u] \in {"ready", "callback"}
    /\ event_pc[u] = "callback" => ref[u] # NULL

(* All threads but one are outside.                                        *)
LEMMA OthersOutside ==
    ASSUME Parts, CoreVariables, Places, NEW t \in Threads, at[t] # "out"
    PROVE  \A u \in Threads \ {t} : at[u] = "out" /\ Outside(u)
<1> SUFFICES ASSUME NEW u \in Threads \ {t} PROVE at[u] = "out" /\ Outside(u)
  OBVIOUS
<1>1. at[u] = "out"
  BY DEF Places, Control, Inside
<1>2. event_pc[u] \in E!ClientPCs
  BY DEF Parts, E!TypeOK
<1>3. BusOf(u) /\ CallsOf(u)
  BY DEF Places, BusAt, CallsAt
<1>4. service_pc[u] = "ready"
  BY <1>1, <1>3 DEF CallsOf, RunsComponents
<1>5. event_pc[u] \notin E!StopPCs /\ event_pc[u] # "start"
  BY <1>1, <1>3 DEF BusOf, AfterBus
<1>6. event_pc[u] \notin E!UnsubscribePCs /\ (event_pc[u] = "callback" => ref[u] # NULL)
  BY <1>1, <1>3 DEF CallsOf, RunsComponents
<1> QED  BY <1>1, <1>2, <1>4, <1>5, <1>6 DEF Outside, E!ClientPCs

(* They stay so in a step of the thread that is inside.                    *)
LEMMA OthersStay ==
    ASSUME Parts, CoreVariables, Places, NEW t \in Threads, at[t] # "out", CoreStep(t)
    PROVE  \A u \in Threads \ {t} : Outside(u)'
<1> SUFFICES ASSUME NEW u \in Threads \ {t} PROVE Outside(u)'
  OBVIOUS
<1>1. Outside(u)
  BY OthersOutside
<1>2. ASSUME UNCHANGED <<ref, service_pc>>, \E places : Moves(t, places)
      PROVE  Outside(u)'
  BY <1>1, <1>2 DEF Outside, Moves, Kin, E!UnsubscribePCs
<1>3. ASSUME UNCHANGED <<event_pc, ref>>, service_pc'[u] = service_pc[u]
      PROVE  Outside(u)'
  BY <1>1, <1>3 DEF Outside
<1>4. ASSUME UNCHANGED eventVars, UNCHANGED serviceVars PROVE Outside(u)'
  BY <1>3, <1>4 DEF eventVars, serviceVars
<1>5. E!TypeOK /\ S!TypeOK
  BY DEF Parts
<1>6. ASSUME NEW slots, NEW a, S!TearDown(t, slots, a) PROVE service_pc'[u] = service_pc[u] /\ UNCHANGED ref
  BY <1>5, <1>6 DEF S!TearDown, S!TypeOK
<1>7. CASE ResetRegistry(t)
  <2>1. UNCHANGED event_pc
    BY <1>7 DEF ResetRegistry, eventVars
  <2>2. \E slots, a : S!TearDown(t, slots, a)
    BY <1>7 DEF ResetRegistry, S!Reset, S!Resume
  <2> QED  BY <1>3, <1>6, <2>1, <2>2
<1>8. CASE UseRegistry(t)
  <2>1. UNCHANGED event_pc
    BY <1>8 DEF UseRegistry, eventVars
  <2>2. (\E slots, a : S!TearDown(t, slots, a)) \/ UNCHANGED <<service_pc, ref>>
    BY <1>8 DEF UseRegistry, S!Register, S!Unregister, S!Resume
  <2> QED  BY <1>3, <1>6, <2>1, <2>2
<1>9. CASE StartBus(t)
  <2>1. UNCHANGED serviceVars
    BY <1>9 DEF StartBus
  <2>2. CASE E!StartWorker(t)
    <3>1. event_pc'[u] = event_pc[u]
      BY <1>5, <2>2, WorkerApart DEF E!StartWorker, E!TypeOK, E!Processes
    <3> QED  BY <1>1, <2>1, <3>1 DEF Outside, serviceVars
  <2>3. CASE E!Start(t) \/ E!StartFails(t)
    BY <1>2, <1>5, <2>1, <2>3, BusMoves DEF serviceVars
  <2> QED  BY <1>4, <1>9, <2>1, <2>2, <2>3 DEF StartBus
<1>10. CASE StopBus(t)
  <2>1. UNCHANGED serviceVars
    BY <1>10 DEF StopBus
  <2>2. CASE E!Stop(t) \/ E!FinishStop(t)
    BY <1>2, <1>5, <2>1, <2>2, BusMoves DEF serviceVars
  <2> QED  BY <1>4, <1>10, <2>1, <2>2 DEF StopBus
<1>11. CASE UseBus(t)
  <2>1. UNCHANGED serviceVars
    BY <1>11 DEF UseBus
  <2>2. \E places : Moves(t, places)
    BY <1>5, <1>11, BusMoves DEF UseBus
  <2> QED  BY <1>2, <2>1, <2>2 DEF serviceVars
<1>12. CASE CoreReturns(t) \/ CheckThreads(t) \/ CallComponents(t) \/ BetweenCallbacks(t)
            \/ CallbackReturns(t) \/ UseThread(t)
  BY <1>4, <1>12 DEF CoreReturns, CheckThreads, CallComponents, BetweenCallbacks, CallbackReturns,
     UseThread
<1> QED
  BY <1>7, <1>8, <1>9, <1>10, <1>11, <1>12 DEF CoreStep

(* A thread that goes on inside one of the functions.                      *)
LEMMA GoesOn ==
    ASSUME Parts, CoreVariables, Places, NEW t \in Threads, at[t] # "out", CoreStep(t),
           NEW q, Goes(t, q), UNCHANGED core_state,
           (at[t] \in InitPoints /\ q \in InitPoints) \/ (at[t] \in ShutdownPoints /\ q \in ShutdownPoints),
           LifecycleOf(t)', BusOf(t)', CallsOf(t)'
    PROVE  Places'
<1>1. \A u \in Threads \ {t} : at[u] = "out" /\ at'[u] = "out"
  BY OthersOutside DEF Goes, CoreVariables
<1>2. at'[t] = q
  BY DEF Goes, CoreVariables
<1>3. core_state \in {"STARTING", "STOPPING"}
  BY DEF Places, Control, Inside, CoreVariables
<1>4. Control'
  BY <1>1, <1>2, <1>3 DEF Places, Control, Inside, InitPoints, ShutdownPoints
<1>5. \A u \in Threads \ {t} : Outside(u)'
  BY OthersStay
<1>6. ASSUME NEW u \in Threads \ {t} PROVE LifecycleOf(u)' /\ BusOf(u)' /\ CallsOf(u)'
  <2>1. at'[u] = "out" /\ Outside(u)'
    BY <1>1, <1>5
  <2>2. LifecycleOf(u)'
    BY <2>1 DEF LifecycleOf, DownPoints, UpPoints
  <2>3. BusOf(u)'
    BY <2>1 DEF BusOf, Outside, BusPoints, NoBusPoints, E!StopPCs
  <2>4. CallsOf(u)'
    BY <2>1 DEF CallsOf, Outside, E!UnsubscribePCs
  <2> QED  BY <2>2, <2>3, <2>4
<1>7. LifecycleAt' /\ BusAt' /\ CallsAt'
  BY <1>3, <1>6 DEF LifecycleAt, BusAt, CallsAt
<1> QED  BY <1>4, <1>7 DEF Places

(* A sequence without places is empty.                                     *)
LEMMA NoPlaces ==
    ASSUME NEW R, NEW q \in Seq(R), DOMAIN q = {}
    PROVE  q = <<>> /\ Len(q) = 0
  OBVIOUS

(* While the lifecycle is down nothing is registered, subscribed, queued   *)
(* or called, and nobody holds a reference.                                *)
LEMMA DownIsEmpty ==
    ASSUME Parts, Contents, lifecycle_pc = "down"
    PROVE  /\ S!Used = {} /\ allocated = {} /\ subscribers = {} /\ queue = <<>>
           /\ \A p \in E!Processes : calls[p] = <<>> /\ event_pc[p] # "callback"
           /\ \A t \in Threads : ref[t] = NULL
           /\ \A s \in Providers : reference_count[s] = 0
<1>1. C!Built = {}
  BY DEF Parts, C!TakenDownOnce, C!Built
<1>2. S!Used = {} /\ allocated = {}
  BY <1>1 DEF Contents
<1>3. subscribers = {}
  BY <1>2 DEF Parts, E!NoUseAfterFree
<1>4. queue = <<>>
  <2>1. \A i \in DOMAIN queue : queue[i] = {}
    BY <1>2 DEF Parts, E!NoUseAfterFree
  <2>2. DOMAIN queue = {}
    BY <2>1 DEF Contents
  <2>3. queue \in Seq(SUBSET Subscribers)
    BY DEF Parts, E!TypeOK
  <2> QED  BY <2>2, <2>3
<1>5. ASSUME NEW p \in E!Processes PROVE calls[p] = <<>> /\ event_pc[p] # "callback"
  <2>1. \A i \in DOMAIN calls[p] : E!Callees(calls[p][i]) = {}
    BY <1>2, <1>5 DEF Parts, E!NoUseAfterFree
  <2>2. DOMAIN calls[p] = {}
    BY <2>1 DEF E!Callees
  <2>3. calls[p] \in Seq([running : Subscribers, left : SUBSET Subscribers])
    BY <1>5 DEF Parts, E!TypeOK
  <2>4. calls[p] = <<>> /\ Len(calls[p]) = 0
    BY <2>2, <2>3, NoPlaces
  <2>5. event_pc[p] = "callback" <=> Len(calls[p]) > 0
    BY <1>5 DEF Parts, EP!DeliveriesOK, EP!Processes, E!Processes
  <2> QED  BY <2>4, <2>5
<1>6. ASSUME NEW t \in Threads PROVE ref[t] = NULL
  <2>1. ref[t] \in Providers \union {NULL}
    BY <1>6 DEF Parts, S!TypeOK
  <2>2. ref[t] # NULL => desc[ref[t]] # NULL
    BY <1>6 DEF Parts, S!NoDanglingReference
  <2> QED  BY <1>2, <2>1, <2>2 DEF S!Used
<1>7. ASSUME NEW s \in Providers PROVE reference_count[s] = 0
  <2>1. s # NULL
    BY <1>7, CoreAssumption DEF CoreAssumption, S!ServiceAssumption
  <2>2. S!Holders(s) = {}
    BY <1>6, <2>1 DEF S!Holders
  <2>3. reference_count[s] = S!Cardinality(S!Holders(s))
    BY <1>7 DEF Parts, S!ReferencesExact
  <2>4. S!Cardinality({}) = 0
    BY FS_EmptySet DEF S!Cardinality, Cardinality
  <2> QED  BY <2>2, <2>3, <2>4
<1> QED  BY <1>2, <1>3, <1>4, <1>5, <1>6, <1>7

(* So a reset finds nothing to wait for.                                   *)
LEMMA ResetReturns ==
    ASSUME Parts, CoreVariables, Places, Contents, NEW t \in Threads, ResetRegistry(t)
    PROVE  /\ service_pc' = [service_pc EXCEPT ![t] = "ready"] /\ Goes(t, AfterReset[at[t]])
           /\ lifecycle_pc = "down" /\ event_pc[t] = "ready"
<1>1. LifecycleOf(t) /\ BusOf(t) /\ CallsOf(t)
  BY DEF Places, LifecycleAt, BusAt, CallsAt
<1>2. at[t] \in {"init_reset", "rollback_reset", "stop_reset"}
  BY DEF ResetRegistry, AfterReset
<1>3. lifecycle_pc = "down"
  BY <1>1, <1>2 DEF LifecycleOf, DownPoints
<1>4. service_pc[t] = "ready"
  BY <1>1, <1>2 DEF CallsOf, RunsComponents
<1>5. S!Reset(t)
  BY <1>4 DEF ResetRegistry, S!Resume
<1>6. S!Drained(Providers)
  BY <1>3, DownIsEmpty DEF S!Drained
<1>7. service_pc' = [service_pc EXCEPT ![t] = "ready"]
  BY <1>5, <1>6 DEF S!Reset, S!TearDown
<1>8. service_pc'[t] = "ready"
  BY <1>7 DEF Parts, S!TypeOK
<1>9. event_pc[t] = "ready"
  <2>1. event_pc[t] \in E!ClientPCs
    BY DEF Parts, E!TypeOK
  <2>2. event_pc[t] \notin E!StopPCs /\ event_pc[t] # "start"
    BY <1>1, <1>2 DEF BusOf, AfterBus
  <2>3. event_pc[t] \notin E!UnsubscribePCs /\ event_pc[t] # "callback"
    BY <1>1, <1>2 DEF CallsOf, RunsComponents
  <2> QED  BY <2>1, <2>2, <2>3 DEF E!ClientPCs
<1> QED  BY <1>3, <1>7, <1>8, <1>9 DEF ResetRegistry

(* What holds of the thread that takes a step inside.                      *)
LEMMA InsideThread ==
    ASSUME Parts, Places, NEW t \in Threads, CoreStep(t)
    PROVE  /\ at[t] # "out" /\ LifecycleOf(t) /\ BusOf(t) /\ CallsOf(t)
           /\ ref[t] = NULL /\ checking[t] = NULL
           /\ event_pc[t] = "callback" => RunsComponents(t) /\ lifecycle_pc = "stop"
           /\ event_pc[t] \in E!ClientPCs
<1>1. at[t] # "out"
  BY DEF CoreStep, CoreReturns, ResetRegistry, StartBus, StopBus, CheckThreads, CallComponents,
     BetweenCallbacks, CallbackReturns, InCallback, UseRegistry, UseBus, UseThread, RunsComponents,
     AfterReset, AfterBus
<1>2. LifecycleOf(t) /\ BusOf(t) /\ CallsOf(t)
  BY DEF Places, LifecycleAt, BusAt, CallsAt
<1>3. event_pc[t] \in E!ClientPCs
  BY DEF Parts, E!TypeOK
<1> QED  BY <1>1, <1>2, <1>3 DEF CallsOf

(* Outside the callbacks of components the thread is in no call.           *)
LEMMA InsideQuiet ==
    ASSUME Parts, Places, NEW t \in Threads, CoreStep(t),
           ~RunsComponents(t) \/ lifecycle_pc \notin {"stop", "deinit", "discard"},
           at[t] \notin {"init_bus", "rollback_bus", "stop_bus"}
    PROVE  Quiet(t)
<1>1. event_pc[t] \in E!ClientPCs /\ BusOf(t) /\ CallsOf(t) /\ ref[t] = NULL
  BY InsideThread
<1>2. event_pc[t] \notin E!StopPCs /\ event_pc[t] # "start"
  BY <1>1 DEF BusOf, AfterBus
<1>3. event_pc[t] \notin E!UnsubscribePCs /\ event_pc[t] # "callback" /\ service_pc[t] = "ready"
  BY <1>1 DEF CallsOf
<1> QED  BY <1>1, <1>2, <1>3 DEF Quiet, E!ClientPCs

(* The registry is reset.                                                  *)
LEMMA ResetPlaces ==
    ASSUME Parts, CoreVariables, Places, Contents, NEW t \in Threads, ResetRegistry(t)
    PROVE  Places'
<1>1. CoreStep(t)
  BY DEF CoreStep
<1>2. at[t] # "out" /\ LifecycleOf(t) /\ BusOf(t) /\ CallsOf(t)
  BY <1>1, InsideThread
<1>3. at[t] \in {"init_reset", "rollback_reset", "stop_reset"}
  BY DEF ResetRegistry, AfterReset
<1>4. /\ service_pc' = [service_pc EXCEPT ![t] = "ready"] /\ Goes(t, AfterReset[at[t]])
      /\ lifecycle_pc = "down" /\ event_pc[t] = "ready"
  BY ResetReturns
<1>5. /\ UNCHANGED <<core_state, lifecycle_pc, running, event_pc, checking>> /\ UNCHANGED ref
  BY DEF ResetRegistry, coreVars, componentVars, eventVars, S!Reset, S!Resume, S!TearDown
<1>6. at'[t] = AfterReset[at[t]] /\ service_pc'[t] = "ready"
  BY <1>4 DEF Goes, CoreVariables, Parts, S!TypeOK
<1>7. LifecycleOf(t)'
  BY <1>3, <1>4, <1>5, <1>6 DEF LifecycleOf, AfterReset, DownPoints, UpPoints
<1>8. BusOf(t)'
  BY <1>2, <1>3, <1>4, <1>5, <1>6 DEF BusOf, AfterReset, AfterBus, BusPoints, NoBusPoints, E!StopPCs
<1>9. CallsOf(t)'
  BY <1>2, <1>4, <1>5, <1>6 DEF CallsOf, E!UnsubscribePCs
<1> QED
  BY <1>1, <1>2, <1>3, <1>4, <1>5, <1>7, <1>8, <1>9, GoesOn DEF AfterReset, InitPoints, ShutdownPoints

(* The bus is started.                                                     *)
LEMMA StartBusPlaces ==
    ASSUME Parts, CoreVariables, Places, NEW t \in Threads, StartBus(t)
    PROVE  Places'
<1>1. CoreStep(t)
  BY DEF CoreStep
<1>2. at[t] # "out" /\ LifecycleOf(t) /\ BusOf(t) /\ CallsOf(t) /\ event_pc[t] \in E!ClientPCs
  BY <1>1, InsideThread
<1>3. at[t] = "init_bus" /\ lifecycle_pc = "down" /\ service_pc[t] = "ready"
  BY <1>2 DEF StartBus, LifecycleOf, DownPoints, CallsOf, RunsComponents
<1>4. UNCHANGED <<core_state, lifecycle_pc, ref, checking, service_pc>>
  BY DEF StartBus, coreVars, componentVars, serviceVars
<1>5. E!TypeOK /\ EP!LifecycleOK
  BY DEF Parts
<1>6. ASSUME event_pc'[t] \in {"ready", "start"}, NEW q \in {"init_bus", "init_components", "rollback_bus"},
             Goes(t, q), q = "init_bus" => event_pc'[t] = "start", q # "init_bus" => event_pc'[t] = "ready",
             q = "init_components" => running'
      PROVE  Places'
  <2>1. at'[t] = q
    BY <1>6 DEF Goes, CoreVariables
  <2>2. LifecycleOf(t)'
    BY <1>3, <1>4, <1>6, <2>1 DEF LifecycleOf, UpPoints
  <2>3. BusOf(t)'
    BY <1>6, <2>1 DEF BusOf, BusPoints, NoBusPoints, E!StopPCs
  <2>4. CallsOf(t)'
    BY <1>2, <1>3, <1>4, <1>6 DEF CallsOf, E!UnsubscribePCs
  <2> QED
    BY <1>1, <1>2, <1>3, <1>4, <1>6, <2>2, <2>3, <2>4, GoesOn DEF InitPoints
<1>7. ASSUME UNCHANGED at PROVE Goes(t, "init_bus")
  BY <1>3, <1>7 DEF Goes, CoreVariables
<1>8. CASE E!Start(t) /\ UNCHANGED at
  BY <1>5, <1>6, <1>7, <1>8, BusMoves DEF Moves
<1>9. CASE event_pc[t] = "start" /\ UNCHANGED <<at, eventVars>>
  BY <1>6, <1>7, <1>9 DEF eventVars
<1>10. CASE E!StartWorker(t) /\ Goes(t, "init_components")
  <2>1. event_pc'[t] = "ready" /\ running'
    BY <1>5, <1>10, WorkerApart DEF E!StartWorker, E!TypeOK, E!Processes, EP!LifecycleOK, E!busVars
  <2> QED  BY <1>6, <1>10, <2>1
<1>11. CASE E!StartFails(t) /\ Goes(t, "rollback_bus")
  BY <1>5, <1>6, <1>11, BusMoves DEF Moves
<1> QED  BY <1>8, <1>9, <1>10, <1>11 DEF StartBus

(* The bus is stopped.                                                     *)
LEMMA StopBusPlaces ==
    ASSUME Parts, CoreVariables, Places, NEW t \in Threads, StopBus(t)
    PROVE  Places'
<1>1. CoreStep(t)
  BY DEF CoreStep
<1>2. at[t] # "out" /\ LifecycleOf(t) /\ BusOf(t) /\ CallsOf(t) /\ event_pc[t] \in E!ClientPCs
  BY <1>1, InsideThread
<1>3. at[t] \in DOMAIN AfterBus /\ lifecycle_pc = "down" /\ service_pc[t] = "ready"
  BY <1>2 DEF StopBus, AfterBus, LifecycleOf, DownPoints, CallsOf, RunsComponents
<1>4. UNCHANGED <<core_state, lifecycle_pc, ref, checking, service_pc>>
  BY DEF StopBus, coreVars, componentVars, serviceVars
<1>5. E!TypeOK /\ EP!LifecycleOK
  BY DEF Parts
<1>6. ASSUME event_pc'[t] \in {"ready"} \union E!StopPCs, NEW q, Goes(t, q),
             q = at[t] \/ (q = AfterBus[at[t]] /\ event_pc'[t] = "ready" /\ ~running')
      PROVE  Places'
  <2>1. at'[t] = q
    BY <1>6 DEF Goes, CoreVariables
  <2>2. LifecycleOf(t)'
    BY <1>3, <1>4, <1>6, <2>1 DEF LifecycleOf, UpPoints, AfterBus
  <2>3. BusOf(t)'
    BY <1>3, <1>6, <2>1 DEF BusOf, BusPoints, NoBusPoints, E!StopPCs, AfterBus
  <2>4. CallsOf(t)'
    BY <1>2, <1>3, <1>4, <1>6 DEF CallsOf, E!UnsubscribePCs, E!StopPCs
  <2> QED
    BY <1>1, <1>2, <1>3, <1>4, <1>6, <2>2, <2>3, <2>4, GoesOn
    DEF InitPoints, ShutdownPoints, AfterBus
<1>7. ASSUME UNCHANGED at PROVE Goes(t, at[t])
  BY <1>7 DEF Goes, CoreVariables
<1>8. CASE E!Stop(t) /\ UNCHANGED at
  BY <1>5, <1>6, <1>7, <1>8, BusMoves DEF Moves, E!StopPCs
<1>9. CASE E!FinishStop(t) /\ IF event_pc'[t] = "ready" THEN Goes(t, AfterBus[at[t]]) ELSE UNCHANGED at
  <2>1. event_pc'[t] \in {"stop_sleep", "ready"}
    BY <1>5, <1>9, BusMoves DEF Moves
  <2>2. ~running'
    BY <1>5, <1>9 DEF E!FinishStop, EP!LifecycleOK, EP!StopPCs, E!busVars
  <2> QED  BY <1>6, <1>7, <1>9, <2>1, <2>2 DEF E!StopPCs
<1>10. CASE ~running /\ event_pc[t] = "ready" /\ Goes(t, AfterBus[at[t]]) /\ UNCHANGED eventVars
  BY <1>6, <1>10 DEF eventVars
<1> QED  BY <1>8, <1>9, <1>10 DEF StopBus

(* The threads are checked.                                                *)
LEMMA CheckThreadsPlaces ==
    ASSUME Parts, CoreVariables, Places, NEW t \in Threads, CheckThreads(t)
    PROVE  Places'
<1>1. CoreStep(t)
  BY DEF CoreStep
<1>2. at[t] # "out" /\ LifecycleOf(t) /\ BusOf(t) /\ CallsOf(t)
  BY <1>1, InsideThread
<1>3. at[t] = "check_threads" /\ Quiet(t) /\ lifecycle_pc = "down"
  BY <1>1, <1>2, InsideQuiet DEF CheckThreads, RunsComponents, LifecycleOf, DownPoints
<1>4. UNCHANGED <<core_state, lifecycle_pc, running, ref, checking, event_pc, service_pc>>
  BY DEF CheckThreads, coreVars, componentVars, eventVars, serviceVars
<1>5. Goes(t, "stop_reset") /\ at'[t] = "stop_reset"
  BY DEF CheckThreads, Goes, CoreVariables
<1>6. LifecycleOf(t)'
  BY <1>3, <1>4, <1>5 DEF LifecycleOf, UpPoints
<1>7. BusOf(t)'
  BY <1>2, <1>3, <1>4, <1>5 DEF BusOf, BusPoints, NoBusPoints, Quiet, E!StopPCs
<1>8. CallsOf(t)'
  BY <1>2, <1>3, <1>4 DEF CallsOf, Quiet, E!UnsubscribePCs
<1> QED
  BY <1>1, <1>2, <1>3, <1>4, <1>5, <1>6, <1>7, <1>8, GoesOn DEF ShutdownPoints

(* A step of the lifecycle that leaves registry and bus alone, by a thread *)
(* that is in no call.                                                     *)
LEMMA LifecyclePlaces ==
    ASSUME Parts, CoreVariables, Places, NEW t \in Threads, CoreStep(t), Quiet(t),
           at[t] \in {"init_components", "start_all", "stop_components", "stop_all"},
           UNCHANGED <<core_state, eventVars, serviceVars, checking>>,
           NEW q, Goes(t, q), LifecycleOf(t)',
           q \in (IF at[t] \in InitPoints THEN {"start_all", "rollback_bus", "init_done"}
                                          ELSE {"stop_all", "stop_bus"})
    PROVE  Places'
<1>1. at[t] # "out" /\ BusOf(t) /\ CallsOf(t)
  BY InsideThread
<1>2. at'[t] = q
  BY DEF Goes, CoreVariables
<1>3. UNCHANGED <<event_pc, running, ref, service_pc>>
  BY DEF eventVars, serviceVars
<1>4. running
  BY <1>1 DEF BusOf, BusPoints
<1>5. BusOf(t)'
  BY <1>2, <1>3, <1>4 DEF BusOf, NoBusPoints, Quiet, E!StopPCs, InitPoints
<1>6. CallsOf(t)'
  BY <1>1, <1>3 DEF CallsOf, Quiet, E!UnsubscribePCs
<1> QED
  BY <1>1, <1>5, <1>6, GoesOn DEF InitPoints, ShutdownPoints

(* sys_component_start_all and sys_component_stop_all are called.          *)
LEMMA CallComponentsPlaces ==
    ASSUME Parts, CoreVariables, Places, NEW t \in Threads, CallComponents(t)
    PROVE  Places'
<1>1. CoreStep(t)
  BY DEF CoreStep
<1>2. at[t] \in {"init_components", "stop_components"}
  BY DEF CallComponents
<1>3. Quiet(t)
  BY <1>1, <1>2, InsideQuiet DEF RunsComponents
<1>4. UNCHANGED <<core_state, eventVars, serviceVars, checking>>
  BY DEF CallComponents, coreVars
<1>5. CASE at[t] = "init_components" /\ C!StartAll /\ Advance(t, "start_all")
  <2>1. lifecycle_pc' \in {"initialize_next", "down"}
    BY <1>5 DEF C!StartAll
  <2>2. PICK q \in {"start_all", "rollback_bus"} :
            Goes(t, q) /\ (q = "start_all" <=> lifecycle_pc' = "initialize_next")
    BY <1>5, <2>1 DEF Advance, AfterStartAll
  <2>3. at'[t] = q
    BY <2>2 DEF Goes, CoreVariables
  <2>4. LifecycleOf(t)'
    BY <2>1, <2>2, <2>3 DEF LifecycleOf, DownPoints, UpPoints
  <2> QED  BY <1>1, <1>2, <1>3, <1>4, <1>5, <2>2, <2>4, LifecyclePlaces DEF InitPoints
<1>6. CASE at[t] = "stop_components" /\ C!StopAll /\ Advance(t, "stop_all")
  <2>1. lifecycle_pc' = "stop_next"
    BY <1>6 DEF C!StopAll
  <2>2. Goes(t, "stop_all")
    BY <1>6, <2>1 DEF Advance
  <2>3. at'[t] = "stop_all"
    BY <2>2 DEF Goes, CoreVariables
  <2>4. LifecycleOf(t)'
    BY <2>1, <2>3 DEF LifecycleOf, DownPoints, UpPoints, StopAllPCs
  <2> QED  BY <1>1, <1>2, <1>3, <1>4, <1>6, <2>2, <2>4, LifecyclePlaces DEF InitPoints
<1> QED  BY <1>5, <1>6 DEF CallComponents

(* The places of the lifecycle between two callbacks.                      *)
BetweenPCs == {"initialize_next", "start_next", "stop_next", "deinit_next"}
(* Where it goes: a rollback or a stop ends down, a start does not.        *)
LEMMA BetweenMoves ==
    ASSUME C!TypeOK, NEW t, BetweenCallbacks(t)
    PROVE  /\ lifecycle_pc \in BetweenPCs
           /\ lifecycle_pc \in StopAllPCs => lifecycle_pc' \in StopAllPCs \union {"down"}
           /\ lifecycle_pc \notin StopAllPCs => lifecycle_pc' # "down"
           /\ lifecycle_pc \notin StopAllPCs /\ lifecycle_pc' \in StopAllPCs => lifecycle_pc' = "stop_next"
           /\ lifecycle_pc' \in {"down", "initialize_next", "init", "start_next", "start", "discard",
                                 "up", "stop_next", "stop", "deinit_next", "deinit"}
<1> USE DEF BetweenPCs, StopAllPCs
<1>1. CASE C!PhaseDone  BY <1>1 DEF C!PhaseDone
<1>2. CASE C!InitializeCandidate  BY <1>2 DEF C!InitializeCandidate
<1>3. CASE C!InitializeNone  BY <1>3 DEF C!InitializeNone
<1>4. CASE C!StartNext  BY <1>4 DEF C!StartNext, C!AfterFailure
<1>5. CASE C!StartDone  BY <1>5 DEF C!StartDone
<1>6. CASE C!StopNext \/ C!StopDone  BY <1>6 DEF C!StopNext, C!StopDone
<1>7. CASE C!DeinitNext \/ C!DeinitDone  BY <1>7 DEF C!DeinitNext, C!DeinitDone
<1> QED
  BY <1>1, <1>2, <1>3, <1>4, <1>5, <1>6, <1>7 DEF BetweenCallbacks

(* The lifecycle goes on between two callbacks.                            *)
LEMMA BetweenPlaces ==
    ASSUME Parts, CoreVariables, Places, NEW t \in Threads, BetweenCallbacks(t)
    PROVE  Places'
<1>1. CoreStep(t)
  BY DEF CoreStep
<1>2. /\ lifecycle_pc \in BetweenPCs
      /\ lifecycle_pc \in StopAllPCs => lifecycle_pc' \in StopAllPCs \union {"down"}
  BY BetweenMoves DEF Parts
<1>3. Quiet(t)
  <2>1. event_pc[t] \in E!ClientPCs /\ BusOf(t) /\ CallsOf(t) /\ ref[t] = NULL
    BY <1>1, InsideThread
  <2>2. event_pc[t] \notin E!StopPCs /\ event_pc[t] # "start"
    BY <2>1 DEF BusOf, AfterBus, BetweenCallbacks, RunsComponents
  <2>3. event_pc[t] \notin E!UnsubscribePCs /\ event_pc[t] # "callback" /\ service_pc[t] = "ready"
    BY <1>2, <2>1 DEF CallsOf, BetweenPCs
  <2> QED  BY <2>1, <2>2, <2>3 DEF Quiet, E!ClientPCs
<1>4. UNCHANGED <<core_state, eventVars, serviceVars, checking>>
  BY DEF BetweenCallbacks, coreVars
<1>5. at[t] \in {"start_all", "stop_all"} /\ LifecycleOf(t)
  BY <1>1, InsideThread DEF BetweenCallbacks, RunsComponents
<1>6. CASE at[t] = "start_all"
  <2>1. PICK q \in {"start_all", "rollback_bus", "init_done"} :
            /\ Goes(t, q)
            /\ q = "start_all" => lifecycle_pc' \notin {"up", "down"}
            /\ q = "rollback_bus" => lifecycle_pc' = "down"
            /\ q = "init_done" => lifecycle_pc' = "up"
    BY <1>6 DEF BetweenCallbacks, Advance, AfterStartAll
  <2>2. at'[t] = q
    BY <2>1 DEF Goes, CoreVariables
  <2>3. LifecycleOf(t)'
    BY <2>1, <2>2 DEF LifecycleOf, DownPoints, UpPoints
  <2> QED  BY <1>1, <1>3, <1>4, <1>6, <2>1, <2>3, LifecyclePlaces DEF InitPoints
<1>7. CASE at[t] = "stop_all"
  <2>1. lifecycle_pc' \in StopAllPCs \union {"down"}
    BY <1>2, <1>5, <1>7 DEF LifecycleOf
  <2>2. PICK q \in {"stop_all", "stop_bus"} :
            /\ Goes(t, q)
            /\ q = "stop_bus" <=> lifecycle_pc' = "down"
    BY <1>7, <2>1 DEF BetweenCallbacks, Advance, StopAllPCs
  <2>3. at'[t] = q
    BY <2>2 DEF Goes, CoreVariables
  <2>4. LifecycleOf(t)'
    BY <2>1, <2>2, <2>3 DEF LifecycleOf, DownPoints, UpPoints, StopAllPCs
  <2> QED  BY <1>1, <1>3, <1>4, <1>7, <2>2, <2>4, LifecyclePlaces DEF InitPoints
<1> QED  BY <1>5, <1>6, <1>7

(* Where the lifecycle is after a callback.                                *)
LEMMA CallbackMoves ==
    ASSUME NEW t, CallbackReturns(t)
    PROVE  /\ lifecycle_pc \in {"init", "start", "stop", "discard", "deinit"}
           /\ lifecycle_pc \in StopAllPCs => lifecycle_pc' \in {"stop_next", "deinit_next"}
           /\ lifecycle_pc' \in BetweenPCs \union {"discard"}
<1> USE DEF BetweenPCs, StopAllPCs
<1>1. CASE C!InitSucceeds  BY <1>1 DEF C!InitSucceeds
<1>2. CASE C!InitFails  BY <1>2 DEF C!InitFails, C!AfterFailure
<1>3. CASE C!StartSucceeds  BY <1>3 DEF C!StartSucceeds
<1>5. CASE C!StopReturns  BY <1>5 DEF C!StopReturns
<1>6. CASE C!DiscardReturns \/ C!DeinitReturns  BY <1>6 DEF C!DiscardReturns, C!DeinitReturns
<1>7. CASE C!StartFails
  <2>1. lifecycle_pc = "start" /\ lifecycle_pc' \in {"stop_next", "discard"}
    BY <1>7 DEF C!StartFails, C!AfterFailure
  <2> QED  BY <2>1
<1> QED
  BY <1>1, <1>2, <1>3, <1>5, <1>6, <1>7 DEF CallbackReturns

(* A callback of a component returns.                                      *)
LEMMA CallbackPlaces ==
    ASSUME Parts, CoreVariables, Places, NEW t \in Threads, CallbackReturns(t)
    PROVE  Places'
<1>1. CoreStep(t)
  BY DEF CoreStep
<1>2. Quiet(t) /\ at[t] \in {"start_all", "stop_all"} /\ LifecycleOf(t)
  BY <1>1, InsideThread DEF CallbackReturns, InCallback, RunsComponents
<1>3. UNCHANGED <<core_state, eventVars, serviceVars, checking, at>>
  BY DEF CallbackReturns
<1>4. Goes(t, at[t])
  BY <1>3 DEF Goes, CoreVariables
<1>5. LifecycleOf(t)'
  BY <1>2, <1>3, CallbackMoves DEF LifecycleOf, DownPoints, UpPoints, BetweenPCs, StopAllPCs
<1> QED  BY <1>1, <1>2, <1>3, <1>4, <1>5, LifecyclePlaces DEF InitPoints

(* A component uses the registry.                                          *)
LEMMA UseRegistryPlaces ==
    ASSUME Parts, CoreVariables, Places, NEW t \in Threads, UseRegistry(t)
    PROVE  Places'
<1>1. CoreStep(t)
  BY DEF CoreStep
<1>2. at[t] # "out" /\ LifecycleOf(t) /\ BusOf(t) /\ CallsOf(t)
  BY <1>1, InsideThread
<1>3. UNCHANGED <<core_state, at, lifecycle_pc, subject, running, event_pc, checking>>
  BY DEF UseRegistry, coreVars, componentVars, eventVars
<1>4. Goes(t, at[t])
  BY <1>3 DEF Goes, CoreVariables
<1>5. at[t] \in {"start_all", "stop_all"} /\ event_pc[t] = "ready" /\ subject \in Providers
  BY DEF UseRegistry, RunsComponents
<1>6. LifecycleOf(t)'
  BY <1>2, <1>3 DEF LifecycleOf
<1>7. BusOf(t)'
  BY <1>2, <1>3 DEF BusOf
<1>8. CallsOf(t)'
  <2>1. S!TypeOK
    BY DEF Parts
  <2>2. CASE lifecycle_pc = "init" /\ S!Register(t, subject, Service(subject))
    BY <1>2, <1>3, <1>5, <2>2 DEF CallsOf, S!Register, RunsComponents, E!UnsubscribePCs
  <2>3. CASE lifecycle_pc \in {"deinit", "discard"} /\ S!Unregister(t, subject)
    <3>1. S!TearDown(t, {subject}, S!Closed({subject})) /\ UNCHANGED ref
      BY <2>3 DEF S!Unregister, S!TearDown
    <3>2. service_pc'[t] = "ready" \/ (emptying'[t] = {subject} /\ ~slot_accepting'[subject])
      BY <1>5, <2>1, <3>1 DEF S!TearDown, S!TypeOK, S!Closed
    <3> QED  BY <1>2, <1>3, <1>5, <2>3, <3>1, <3>2 DEF CallsOf, RunsComponents, E!UnsubscribePCs
  <2>4. CASE lifecycle_pc \in {"deinit", "discard"} /\ S!Resume(t)
    <3>1. S!TearDown(t, emptying[t], slot_accepting) /\ service_pc[t] = "woken" /\ UNCHANGED ref
      BY <2>4 DEF S!Resume, S!TearDown
    <3>2. emptying[t] = {subject} /\ ~slot_accepting[subject]
      BY <1>2, <3>1 DEF CallsOf
    <3>3. service_pc'[t] = "ready" \/ (emptying'[t] = {subject} /\ ~slot_accepting'[subject])
      BY <1>5, <2>1, <3>1, <3>2 DEF S!TearDown, S!TypeOK
    <3> QED  BY <1>2, <1>3, <1>5, <2>4, <3>1, <3>3 DEF CallsOf, RunsComponents, E!UnsubscribePCs
  <2> QED  BY <2>2, <2>3, <2>4 DEF UseRegistry
<1> QED
  BY <1>1, <1>2, <1>3, <1>4, <1>5, <1>6, <1>7, <1>8, GoesOn DEF InitPoints, ShutdownPoints

(* A component uses the bus.                                               *)
LEMMA UseBusPlaces ==
    ASSUME Parts, CoreVariables, Places, NEW t \in Threads, UseBus(t)
    PROVE  Places'
<1>1. CoreStep(t)
  BY DEF CoreStep
<1>2. at[t] # "out" /\ LifecycleOf(t) /\ BusOf(t) /\ CallsOf(t)
  BY <1>1, InsideThread
<1>3. UNCHANGED <<core_state, at, lifecycle_pc, ref, service_pc, checking>>
  BY DEF UseBus, coreVars, componentVars, serviceVars
<1>4. Goes(t, at[t])
  BY <1>3 DEF Goes, CoreVariables
<1>5. at[t] \in {"start_all", "stop_all"} /\ service_pc[t] = "ready" /\ E!TypeOK
  BY DEF UseBus, RunsComponents, Parts
<1>6. LifecycleOf(t)'
  BY <1>2, <1>3 DEF LifecycleOf
<1>7. /\ event_pc'[t] \in {event_pc[t], "unsubscribe_sleep", "ready", "callback"} /\ UNCHANGED running
      /\ event_pc'[t] = "callback" => lifecycle_pc = "stop" \/ event_pc[t] = "callback"
      /\ event_pc'[t] = "unsubscribe_sleep" =>
             event_pc[t] = "unsubscribe_sleep" \/ lifecycle_pc \in {"deinit", "discard"}
  <2>1. CASE lifecycle_pc = "init" /\ E!Subscribe(t, subject, "event")
    BY <2>1 DEF E!Subscribe, E!busVars
  <2>2. CASE lifecycle_pc \in {"deinit", "discard"} /\ (E!Unsubscribe(t, subject) \/ E!UnsubscribeResume(t))
    <3>1. Moves(t, {"unsubscribe_sleep", "ready"})
      BY <1>5, <2>2, BusMoves
    <3>2. UNCHANGED running
      BY <2>2 DEF E!Unsubscribe, E!UnsubscribeResume, E!AwaitCallbacks, E!busVars
    <3> QED  BY <2>2, <3>1, <3>2 DEF Moves
  <2>3. CASE lifecycle_pc = "stop" /\ E!PublishSync(t, "event")
    <3>1. Moves(t, {"callback"})
      BY <1>5, <2>3, BusMoves
    <3> QED  BY <2>3, <3>1 DEF E!PublishSync, Moves
  <2> QED  BY <2>1, <2>2, <2>3 DEF UseBus
<1>8. BusOf(t)'
  BY <1>2, <1>3, <1>5, <1>7 DEF BusOf, E!StopPCs, NoBusPoints
<1>9. CallsOf(t)'
  BY <1>2, <1>3, <1>5, <1>7 DEF CallsOf, RunsComponents, E!UnsubscribePCs
<1> QED
  BY <1>1, <1>2, <1>3, <1>4, <1>5, <1>6, <1>8, <1>9, GoesOn DEF InitPoints, ShutdownPoints

(* A component uses its thread.                                            *)
LEMMA UseThreadPlaces ==
    ASSUME Parts, CoreVariables, Places, NEW t \in Threads, UseThread(t)
    PROVE  Places'
<1>1. CoreStep(t)
  BY DEF CoreStep
<1>2. at[t] # "out" /\ LifecycleOf(t) /\ Quiet(t) /\ at[t] \in {"start_all", "stop_all"}
  BY <1>1, InsideThread DEF UseThread, InCallback, RunsComponents
<1>3. UNCHANGED <<core_state, at, eventVars, serviceVars, checking, lifecycle_pc>>
  BY DEF UseThread, coreVars, componentVars
<1>4. Goes(t, at[t])
  BY <1>3 DEF Goes, CoreVariables
<1>5. LifecycleOf(t)'
  BY <1>2, <1>3 DEF LifecycleOf
<1> QED  BY <1>1, <1>2, <1>3, <1>4, <1>5, LifecyclePlaces DEF InitPoints

(* A thread that is done returns.                                          *)
LEMMA ReturnsPlaces ==
    ASSUME Parts, CoreVariables, Places, NEW t \in Threads, CoreReturns(t)
    PROVE  Places'
<1>1. CoreStep(t)
  BY DEF CoreStep
<1>2. at[t] \in {"init_done", "rolled_back", "stop_done"} /\ at[t] # "out"
  BY DEF CoreReturns
<1>3. Quiet(t)
  BY <1>1, <1>2, InsideQuiet DEF RunsComponents
<1>4. UNCHANGED <<lifecycle_pc, running, event_pc, service_pc, ref, checking>>
  BY DEF CoreReturns, componentVars, eventVars, serviceVars
<1>5. \A u \in Threads : at'[u] = "out"
  BY <1>2, OthersOutside DEF CoreReturns, Goes, CoreVariables
<1>6. \A u \in Threads : Outside(u)'
  BY <1>2, <1>3, <1>4, OthersOutside DEF Outside, Quiet
<1>7. LifecycleOf(t) /\ BusOf(t)
  BY <1>1, InsideThread
<1>8. core_state' \in {"STOPPED", "RUNNING"} /\ Control'
  BY <1>5 DEF CoreReturns, Control, Inside
<1>9. LifecycleAt'
  BY <1>2, <1>4, <1>5, <1>7 DEF CoreReturns, LifecycleAt, LifecycleOf, DownPoints, UpPoints
<1>10. BusAt'
  BY <1>2, <1>4, <1>5, <1>6, <1>7
  DEF CoreReturns, BusAt, BusOf, Outside, BusPoints, NoBusPoints, E!StopPCs
<1>11. CallsAt'
  BY <1>5, <1>6 DEF CallsAt, CallsOf, Outside, E!UnsubscribePCs
<1> QED  BY <1>8, <1>9, <1>10, <1>11 DEF Places

(* A thread enters one of the two functions.                               *)
LEMMA EntersPlaces ==
    ASSUME Parts, CoreVariables, Places, NEW t \in Threads, Idle(t),
           NEW q, Goes(t, q),
           \/ core_state = "STOPPED" /\ core_state' = "STARTING" /\ q = "init_reset"
           \/ core_state = "RUNNING" /\ core_state' = "STOPPING" /\ q = "stop_components",
           UNCHANGED <<checking, componentVars, eventVars, serviceVars>>
    PROVE  Places'
<1>1. \A u \in Threads : at[u] = "out"
  BY DEF Places, Control, Inside
<1>2. at'[t] = q /\ \A u \in Threads \ {t} : at'[u] = "out"
  BY <1>1 DEF Goes, CoreVariables
<1>3. UNCHANGED <<lifecycle_pc, running, event_pc, service_pc, ref, checking, emptying, slot_accepting, subject>>
  BY DEF componentVars, eventVars, serviceVars
<1>4. Control'
  BY <1>2 DEF Control, Inside, InitPoints, ShutdownPoints
<1>5. LifecycleAt'
  BY <1>2, <1>3 DEF Places, LifecycleAt, LifecycleOf, DownPoints, UpPoints
<1>6. event_pc[t] = "ready" /\ service_pc[t] = "ready" /\ ref[t] = NULL /\ checking[t] = NULL
  BY DEF Idle, Quiet
<1>7. \A u \in Threads : BusOf(u) /\ CallsOf(u)
  BY DEF Places, BusAt, CallsAt
<1>8. ASSUME NEW u \in Threads PROVE BusOf(u)'
  BY <1>1, <1>2, <1>3, <1>6, <1>7 DEF Places, BusAt, BusOf, BusPoints, NoBusPoints, E!StopPCs, AfterBus
<1>9. BusAt'
  BY <1>3, <1>8 DEF BusAt
<1>10. ASSUME NEW u \in Threads PROVE CallsOf(u)'
  BY <1>1, <1>2, <1>3, <1>6, <1>7 DEF CallsOf, RunsComponents, E!UnsubscribePCs
<1> QED  BY <1>4, <1>5, <1>9, <1>10 DEF Places, CallsAt

(* What happens while the threads stay where they are in sys_core.c: a     *)
(* publication in a call, a callback that ends, a wakeup, and no thread    *)
(* that is inside gets hold of something.                                  *)
Keeps(u) ==
    /\ \/ Kin(event_pc[u], event_pc'[u])
       \/ event_pc[u] = "callback" /\ event_pc'[u] = "ready"
       \/ event_pc'[u] = "callback" /\ ref'[u] # NULL
    /\ event_pc[u] = "callback" => ref'[u] = ref[u]
    /\ at[u] # "out" => ref'[u] = ref[u] /\ checking'[u] \in {checking[u], NULL}
    /\ service_pc'[u] # "ready" => service_pc[u] # "ready"

(* Then they are where they may be.                                        *)
LEMMA KeepsPlaces ==
    ASSUME Parts, Places, UNCHANGED <<core_state, at, lifecycle_pc, subject, running, emptying, slot_accepting>>,
           \A u \in Threads : Keeps(u)
    PROVE  Places'
<1>1. Control' /\ LifecycleAt'
  BY DEF Places, Control, Inside, LifecycleAt, LifecycleOf
<1>2. ASSUME NEW u \in Threads PROVE BusOf(u)'
  <2>1. BusOf(u) /\ CallsOf(u) /\ Keeps(u)
    BY <1>2 DEF Places, BusAt, CallsAt
  <2>2. event_pc'[u] = "start" \/ event_pc'[u] \in E!StopPCs =>
            event_pc'[u] = event_pc[u] \/ {event_pc[u], event_pc'[u]} \subseteq E!StopPCs
    BY <2>1 DEF Keeps, Kin, E!UnsubscribePCs, E!StopPCs
  <2>3. event_pc'[u] = "ready" => event_pc[u] = "ready" \/ at[u] # "init_bus"
    BY <2>1 DEF Keeps, Kin, E!UnsubscribePCs, CallsOf, RunsComponents
  <2> QED  BY <2>1, <2>2, <2>3 DEF BusOf, E!StopPCs
<1>3. ASSUME NEW u \in Threads PROVE CallsOf(u)'
  <2>1. CallsOf(u) /\ Keeps(u)
    BY <1>3 DEF Places, CallsAt
  <2>2. event_pc'[u] \in E!UnsubscribePCs => event_pc[u] \in E!UnsubscribePCs
    BY <2>1 DEF Keeps, Kin, E!UnsubscribePCs
  <2>3. event_pc'[u] = "callback" => event_pc[u] = "callback" \/ ref'[u] # NULL
    BY <2>1 DEF Keeps, Kin, E!UnsubscribePCs
  <2> QED  BY <2>1, <2>2, <2>3 DEF CallsOf, Keeps, RunsComponents
<1> QED  BY <1>1, <1>2, <1>3 DEF Places, BusAt, CallsAt

(* The calls from outside.                                                 *)
LEMMA CallerPlaces ==
    ASSUME Parts, CoreVariables, Places, NEW t \in Threads, CallerStep(t)
    PROVE  Places'
<1>1. E!TypeOK /\ S!TypeOK
  BY DEF Parts
<1>2. \A u \in Threads : CallsOf(u)
  BY DEF Places, CallsAt
<1>3. ASSUME UNCHANGED <<core_state, at, checking, componentVars, eventVars, serviceVars>> PROVE Places'
  BY <1>3, KeepsPlaces DEF Keeps, Kin, componentVars, eventVars, serviceVars
<1>4. CASE CoreInit(t)
  BY <1>3, <1>4, EntersPlaces DEF CoreInit, MayInit
<1>5. CASE CoreShutdown(t)
  BY <1>3, <1>5, EntersPlaces DEF CoreShutdown, MayShutdown
<1>6. CASE PublishInCall(t)
  <2>1. UNCHANGED <<core_state, at, lifecycle_pc, subject, checking, serviceVars>> /\ ref[t] # NULL
    BY <1>6 DEF PublishInCall, coreVars, componentVars
  <2>2. Moves(t, {"callback", event_pc[t]}) /\ UNCHANGED running
    BY <1>1, <1>6, BusMoves DEF PublishInCall, Moves, E!PublishSync, E!PublishAsync
  <2>3. \A u \in Threads : Keeps(u)
    BY <2>1, <2>2 DEF Moves, Keeps, Kin, serviceVars
  <2> QED  BY <2>1, <2>2, <2>3, KeepsPlaces DEF serviceVars
<1>7. CASE Release(t)
  <2>1. UNCHANGED <<core_state, at, lifecycle_pc, subject, checking, eventVars>>
    BY <1>7 DEF Release, coreVars, componentVars
  <2>2. /\ event_pc[t] = "ready" /\ ref[t] # NULL /\ at[t] = "out"
        /\ \A u \in Threads \ {t} : ref'[u] = ref[u]
        /\ UNCHANGED <<emptying, slot_accepting>>
    BY <1>1, <1>2, <1>7 DEF Release, S!Release, Quiet, CallsOf, S!TypeOK
  <2>3. \A u \in Threads : service_pc'[u] # "ready" => service_pc[u] # "ready"
    BY <1>7 DEF Release, S!Release, S!Woken
  <2>4. \A u \in Threads : Keeps(u)
    BY <2>1, <2>2, <2>3 DEF Keeps, Kin, eventVars
  <2> QED  BY <2>1, <2>2, <2>4, KeepsPlaces DEF eventVars
<1>8. CASE HealthChecked(t)
  <2>1. UNCHANGED <<core_state, at, lifecycle_pc, subject, eventVars, serviceVars>>
    BY <1>8 DEF HealthChecked, componentVars
  <2>2. \A u \in Threads : checking'[u] \in {checking[u], NULL}
    BY <1>8 DEF HealthChecked, CoreVariables
  <2> QED  BY <2>1, <2>2, KeepsPlaces DEF Keeps, Kin, eventVars, serviceVars
<1>9. CASE \E c \in Providers : Acquire(t, c)
  <2>1. UNCHANGED <<core_state, at, lifecycle_pc, subject, checking, eventVars>> /\ Idle(t)
    BY <1>9 DEF Acquire, coreVars, componentVars
  <2>2. /\ \A u \in Threads \ {t} : ref'[u] = ref[u]
        /\ UNCHANGED <<emptying, slot_accepting, service_pc>>
    BY <1>1, <1>9 DEF Acquire, S!Acquire, S!TypeOK
  <2> QED  BY <2>1, <2>2, KeepsPlaces DEF Keeps, Kin, eventVars, Idle, Quiet
<1>10. CASE \E c \in Components : CheckHealth(t, c)
  <2>1. UNCHANGED <<core_state, at, lifecycle_pc, subject, eventVars, serviceVars>> /\ Idle(t)
    BY <1>10 DEF CheckHealth, componentVars
  <2>2. \A u \in Threads \ {t} : checking'[u] = checking[u]
    BY <1>10 DEF CheckHealth, CoreVariables
  <2> QED  BY <2>1, <2>2, KeepsPlaces DEF Keeps, Kin, eventVars, serviceVars, Idle, Quiet
<1> QED
  BY <1>4, <1>5, <1>6, <1>7, <1>8, <1>9, <1>10 DEF CallerStep

(* What happens in other threads: callbacks, the worker, the producers.    *)
Background ==
    \/ \E p \in Threads \union {Worker} : CallbackEnds(p)
    \/ WorkerRuns
    \/ \E c \in Producers : ProducerEnds(c)

(* It moves no thread in sys_core.c.                                       *)
LEMMA BackgroundPlaces ==
    ASSUME Parts, Places, Background
    PROVE  Places'
<1>1. E!TypeOK /\ Worker \notin Threads
  BY WorkerApart DEF Parts
<1>2. UNCHANGED <<core_state, at, lifecycle_pc, subject, checking, serviceVars>>
  BY DEF Background, CallbackEnds, WorkerRuns, ProducerEnds, coreVars, componentVars
<1>3. UNCHANGED running
  BY DEF Background, CallbackEnds, WorkerRuns, ProducerEnds, eventVars, E!FinishCallback, E!WorkerTake,
     E!WorkerBlock, E!WorkerExit, E!busVars
<1>4. ASSUME NEW u \in Threads
      PROVE  Kin(event_pc[u], event_pc'[u]) \/ (event_pc[u] = "callback" /\ event_pc'[u] = "ready")
  <2>1. CASE \E p \in Threads : CallbackEnds(p)
    <3>1. PICK p \in Threads : CallbackEnds(p)
      BY <2>1
    <3>2. Moves(p, {"callback", "ready"}) /\ event_pc[p] = "callback"
      BY <1>1, <3>1, BusMoves DEF CallbackEnds, E!FinishCallback
    <3> QED  BY <1>4, <3>2 DEF Moves, Kin
  <2>2. CASE CallbackEnds(Worker) \/ WorkerRuns
    <3>1. \E places : Moves(Worker, places)
      BY <1>1, <2>2, WorkerMoves DEF CallbackEnds, WorkerRuns
    <3> QED  BY <1>1, <1>4, <3>1 DEF Moves
  <2>3. CASE \E c \in Producers : ProducerEnds(c)
    BY <2>3 DEF ProducerEnds, eventVars, Kin
  <2> QED  BY <2>1, <2>2, <2>3 DEF Background
<1> QED
  BY <1>2, <1>3, <1>4, KeepsPlaces DEF Keeps, serviceVars

(* Every thread stays where it may be.                                     *)
LEMMA PlacesStep ==
    ASSUME Parts, CoreVariables, Places, Contents, CoreNext
    PROVE  Places'
<1>1. ASSUME NEW t \in Threads, CallerStep(t) PROVE Places'
  BY <1>1, CallerPlaces
<1>2. ASSUME NEW t \in Threads, CoreStep(t) PROVE Places'
  <2>1. CASE CoreReturns(t) \/ CheckThreads(t) \/ CallComponents(t) \/ BetweenCallbacks(t) \/ CallbackReturns(t)
    BY <2>1, ReturnsPlaces, CheckThreadsPlaces, CallComponentsPlaces, BetweenPlaces, CallbackPlaces
  <2>2. CASE ResetRegistry(t) \/ StartBus(t) \/ StopBus(t)
    BY <2>2, ResetPlaces, StartBusPlaces, StopBusPlaces
  <2>3. CASE UseRegistry(t) \/ UseBus(t) \/ UseThread(t)
    BY <2>3, UseRegistryPlaces, UseBusPlaces, UseThreadPlaces
  <2> QED  BY <1>2, <2>1, <2>2, <2>3 DEF CoreStep
<1>3. ASSUME Background PROVE Places'
  BY <1>3, BackgroundPlaces
<1> QED  BY <1>1, <1>2, <1>3 DEF CoreNext, Background

-----------------------------------------------------------------------------
(* Contents.                                                               *)
(* A teardown only takes services out.                                     *)
LEMMA TearDownTakes ==
    ASSUME NEW t, NEW slots, NEW a, S!TearDown(t, slots, a)
    PROVE  S!Used' \subseteq S!Used /\ \A c \in S!Used' : desc'[c] = desc[c]
<1>1. CASE UNCHANGED desc
  BY <1>1 DEF S!Used
<1>2. CASE desc' = [s \in Providers |-> IF s \in slots THEN NULL ELSE desc[s]]
  BY <1>2 DEF S!Used
<1> QED  BY <1>1, <1>2 DEF S!TearDown

(* Nothing is added, and nothing that is there loses its component.        *)
LEMMA ContentsKeep ==
    ASSUME Contents, S!Used' \subseteq S!Used, allocated' \subseteq allocated,
           \A c \in S!Used' : desc'[c] = desc[c] /\ c \in C!Built',
           allocated' \subseteq C!Built',
           \A i \in DOMAIN queue' : queue'[i] # {}
    PROVE  Contents'
  BY DEF Contents

(* While what is built stays built.                                        *)
LEMMA ContentsShrink ==
    ASSUME Contents, S!Used' \subseteq S!Used, allocated' \subseteq allocated,
           \A c \in S!Used' : desc'[c] = desc[c],
           C!Built \subseteq C!Built',
           \A i \in DOMAIN queue' : queue'[i] # {}
    PROVE  Contents'
  BY DEF Contents

(* A component that has withdrawn its service and its subscription is in   *)
(* neither table.                                                          *)
LEMMA WithdrawnIsGone ==
    ASSUME Parts, Contents, NEW c, Withdrawn(c)
    PROVE  c \notin S!Used /\ c \notin allocated
<1>1. ASSUME c \in S!Used PROVE FALSE
  <2>1. c \in Providers /\ desc[c] = Service(c)
    BY <1>1 DEF S!Used, Contents
  <2>2. S!IsRegistered(c)
    BY <1>1, <2>1, ServiceIs DEF S!IsRegistered
  <2> QED  BY <2>1, <2>2 DEF Withdrawn
<1>2. ASSUME c \in allocated PROVE FALSE
  BY <1>2 DEF Withdrawn, Parts, E!TypeOK
<1> QED  BY <1>1, <1>2

(* The sequences of the queue.                                             *)
LEMMA QueuePlaces ==
    ASSUME NEW R, NEW q \in Seq(R), NEW e \in R,
           e # {}, \A i \in DOMAIN q : q[i] # {}
    PROVE  \A i \in DOMAIN Append(q, e) : Append(q, e)[i] # {}
  OBVIOUS
(* And without the first.                                                  *)
LEMMA TailPlaces ==
    ASSUME NEW R, NEW q \in Seq(R), q # <<>>, \A i \in DOMAIN q : q[i] # {}
    PROVE  \A i \in DOMAIN Tail(q) : Tail(q)[i] # {}
  OBVIOUS

(* Services and subscriptions come with their component and go with it.    *)
LEMMA ContentsStep ==
    ASSUME Parts, CoreVariables, Places, Contents, CoreNext
    PROVE  Contents'
<1>1. S!TypeOK /\ E!TypeOK /\ C!TypeOK
  BY DEF Parts
<1>2. ASSUME UNCHANGED <<alive, lifecycle_pc, subject>> PROVE C!Built' = C!Built
  BY <1>2 DEF C!Built
<1>3. ASSUME UNCHANGED <<componentVars, desc, allocated, queue>> PROVE Contents'
  BY <1>2, <1>3 DEF Contents, S!Used, componentVars
<1>4. ASSUME UNCHANGED <<componentVars, desc, queue>>, allocated' \subseteq allocated PROVE Contents'
  BY <1>2, <1>4, ContentsShrink DEF Contents, S!Used, componentVars
<1>5. ASSUME UNCHANGED <<componentVars, eventVars>>, NEW t, NEW slots, NEW a, S!TearDown(t, slots, a)
      PROVE  Contents'
  BY <1>2, <1>5, TearDownTakes, ContentsShrink DEF Contents, componentVars, eventVars
<1>6. ASSUME UNCHANGED <<desc, allocated, queue>>, C!Built \subseteq C!Built' PROVE Contents'
  BY <1>6, ContentsShrink DEF Contents, S!Used
<1>7. ASSUME NEW p, NEW e, E!PublishAsync(p, e), UNCHANGED <<componentVars, desc>> PROVE Contents'
  <2>1. /\ queue \in Seq(SUBSET Subscribers) /\ E!Matching(e) # {} /\ E!Matching(e) \subseteq Subscribers
        /\ queue' = Append(queue, E!Matching(e)) /\ UNCHANGED allocated
    BY <1>1, <1>7 DEF E!TypeOK, E!PublishAsync, E!Matching, E!subscriptionVars
  <2>2. \A i \in DOMAIN queue' : queue'[i] # {}
    BY <2>1, QueuePlaces DEF Contents
  <2> QED  BY <1>2, <1>7, <2>1, <2>2, ContentsShrink DEF S!Used, componentVars
<1>8. ASSUME NEW t \in Threads, CallerStep(t) PROVE Contents'
  <2>1. CASE PublishInCall(t)
    BY <1>3, <1>7, <2>1 DEF PublishInCall, serviceVars, E!PublishSync, E!subscriptionVars
  <2>2. CASE Release(t)
    BY <1>3, <2>2 DEF Release, S!Release, eventVars
  <2>3. CASE \E c \in Providers : Acquire(t, c)
    BY <1>3, <2>3 DEF Acquire, S!Acquire, eventVars
  <2> QED
    BY <1>3, <1>8, <2>1, <2>2, <2>3
    DEF CallerStep, CoreInit, CoreShutdown, HealthChecked, CheckHealth, eventVars, serviceVars
<1>9. ASSUME NEW t \in Threads, CoreStep(t) PROVE Contents'
  <2>1. CASE CoreReturns(t) \/ CheckThreads(t) \/ UseThread(t)
    BY <1>3, <2>1 DEF CoreReturns, CheckThreads, UseThread, eventVars, serviceVars
  <2>2. CASE ResetRegistry(t)
    BY <1>5, <2>2 DEF ResetRegistry, S!Reset, S!Resume
  <2>3. CASE StartBus(t)
    <3>1. UNCHANGED <<componentVars, desc, allocated>> /\ (UNCHANGED queue \/ queue' = <<>>)
      BY <2>3 DEF StartBus, serviceVars, eventVars, E!Start, E!StartWorker, E!StartFails, E!subscriptionVars,
         E!busVars
    <3>2. \A i \in DOMAIN queue' : queue'[i] # {}
      BY <3>1 DEF Contents
    <3> QED  BY <1>2, <3>1, <3>2, ContentsShrink DEF Contents, S!Used, componentVars
  <2>4. CASE StopBus(t)
    <3>1. UNCHANGED <<componentVars, desc, queue>> /\ allocated' \subseteq allocated
      BY <2>4 DEF StopBus, serviceVars, eventVars, E!Stop, E!FinishStop, E!subscriptionVars, E!busVars
    <3> QED  BY <1>4, <3>1
  <2>5. CASE CallComponents(t)
    <3>1. alive' = alive /\ lifecycle_pc \in {"down", "up"}
      BY <2>5 DEF CallComponents, C!StartAll, C!StopAll, C!world
    <3>2. C!Built \subseteq C!Built'
      BY <3>1 DEF C!Built
    <3> QED  BY <1>6, <2>5, <3>2 DEF CallComponents, eventVars, serviceVars
  <2>6. CASE BetweenCallbacks(t)
    <3>1. alive' = alive
      BY <2>6 DEF BetweenCallbacks, C!PhaseDone, C!InitializeCandidate, C!InitializeNone, C!StartNext,
         C!StartDone, C!StopNext, C!StopDone, C!DeinitNext, C!DeinitDone, C!world
    <3>2. C!Built \subseteq C!Built'
      BY <1>1, <2>6, <3>1, BetweenMoves DEF C!Built, BetweenPCs
    <3> QED  BY <1>6, <2>6, <3>2 DEF BetweenCallbacks, eventVars, serviceVars
  <2>7. CASE CallbackReturns(t)
    <3>1. CASE (C!InitFails \/ C!DiscardReturns \/ C!DeinitReturns) /\ Withdrawn(subject)
      <4>1. C!Built \ {subject} \subseteq C!Built'
        BY <3>1 DEF C!Built, C!InitFails, C!DiscardReturns, C!DeinitReturns, C!world
      <4>2. subject \notin S!Used /\ subject \notin allocated
        BY <3>1, WithdrawnIsGone
      <4>3. UNCHANGED <<desc, allocated, queue>>
        BY <2>7 DEF CallbackReturns, eventVars, serviceVars
      <4> QED  BY <4>1, <4>2, <4>3 DEF Contents, S!Used
    <3>2. CASE C!InitSucceeds \/ C!StartSucceeds \/ C!StartFails \/ C!StopReturns
      <4>1. C!Built \subseteq C!Built'
        BY <3>2 DEF C!Built, C!InitSucceeds, C!StartSucceeds, C!StartFails, C!StopReturns, C!world
      <4> QED  BY <1>6, <2>7, <4>1 DEF CallbackReturns, eventVars, serviceVars
    <3> QED  BY <2>7, <3>1, <3>2 DEF CallbackReturns
  <2>8. CASE UseRegistry(t)
    <3>1. CASE lifecycle_pc = "init" /\ S!Register(t, subject, Service(subject))
      <4>1. S!Used' \subseteq S!Used \union {subject} /\ desc' = [desc EXCEPT ![subject] = Service(subject)]
        BY <1>1, <3>1 DEF S!Register, S!Used, S!TypeOK
      <4>2. \A c \in S!Used' : desc'[c] = Service(c)
        BY <1>1, <4>1 DEF Contents, S!Used, S!TypeOK
      <4>3. UNCHANGED <<alive, lifecycle_pc, subject, allocated, queue>>
        BY <2>8 DEF UseRegistry, componentVars, eventVars
      <4>4. C!Built' = C!Built /\ subject \in C!Built
        BY <3>1, <4>3 DEF C!Built
      <4> QED  BY <4>1, <4>2, <4>3, <4>4 DEF Contents
    <3>2. CASE S!Unregister(t, subject) \/ S!Resume(t)
      BY <1>5, <2>8, <3>2 DEF UseRegistry, S!Unregister, S!Resume
    <3> QED  BY <2>8, <3>1, <3>2 DEF UseRegistry
  <2>9. CASE UseBus(t)
    <3>1. CASE lifecycle_pc = "init" /\ E!Subscribe(t, subject, "event")
      <4>1. allocated' = allocated \union {subject} /\ UNCHANGED queue
        BY <3>1 DEF E!Subscribe, E!busVars
      <4>2. UNCHANGED <<alive, lifecycle_pc, subject, desc>>
        BY <2>9 DEF UseBus, componentVars, serviceVars
      <4>3. C!Built' = C!Built /\ subject \in C!Built
        BY <3>1, <4>2 DEF C!Built
      <4> QED  BY <4>1, <4>2, <4>3 DEF Contents, S!Used
    <3>2. CASE E!Unsubscribe(t, subject) \/ E!UnsubscribeResume(t) \/ E!PublishSync(t, "event")
      <4>1. UNCHANGED queue /\ allocated' \subseteq allocated
        BY <3>2 DEF E!Unsubscribe, E!UnsubscribeResume, E!AwaitCallbacks, E!PublishSync, E!busVars,
           E!subscriptionVars
      <4> QED  BY <1>4, <2>9, <4>1 DEF UseBus, serviceVars
    <3> QED  BY <2>9, <3>1, <3>2 DEF UseBus
  <2> QED
    BY <1>9, <2>1, <2>2, <2>3, <2>4, <2>5, <2>6, <2>7, <2>8, <2>9 DEF CoreStep
<1>10. ASSUME Background PROVE Contents'
  <2>1. CASE \E p \in Threads \union {Worker} : CallbackEnds(p)
    BY <1>3, <2>1 DEF CallbackEnds, E!FinishCallback, E!subscriptionVars, E!busVars, serviceVars
  <2>2. CASE WorkerRuns
    <3>1. UNCHANGED <<componentVars, desc, allocated>> /\ (UNCHANGED queue \/ (queue # <<>> /\ queue' = Tail(queue)))
      BY <2>2 DEF WorkerRuns, E!WorkerTake, E!WorkerBlock, E!WorkerExit, E!subscriptionVars, E!busVars,
         serviceVars
    <3>2. \A i \in DOMAIN queue' : queue'[i] # {}
      BY <1>1, <3>1, TailPlaces DEF Contents, E!TypeOK
    <3> QED  BY <1>2, <3>1, <3>2, ContentsShrink DEF S!Used, componentVars
  <2>3. CASE \E c \in Producers : ProducerEnds(c)
    BY <1>3, <2>3 DEF ProducerEnds, eventVars, serviceVars
  <2> QED  BY <1>10, <2>1, <2>2, <2>3 DEF Background
<1> QED  BY <1>8, <1>9, <1>10 DEF CoreNext, Background

-----------------------------------------------------------------------------
(* WorkerLife.                                                             *)
(* It is kept while nobody touches the handle, the worker neither begins   *)
(* nor ends, and the start and the join that are under way stay so.        *)
LEMMA WorkerKeeps ==
    ASSUME WorkerLife, life'[Worker] = life[Worker],
           event_pc'[Worker] = "none" <=> event_pc[Worker] = "none",
           \A u \in Threads : event_pc[u] \in {"start", "stop_join"} => event_pc'[u] = event_pc[u]
    PROVE  WorkerLife'
  BY DEF WorkerLife

(* Nobody but the bus uses the handle of its worker.                       *)
LEMMA OtherHandles == Worker \in Handles /\ Worker \notin Producers
  BY CoreAssumption DEF CoreAssumption

(* A thread that moves from elsewhere does not touch them.                 *)
LEMMA MovesKeep ==
    ASSUME NEW t \in Threads, NEW places, Moves(t, places), event_pc[t] \notin {"start", "stop_join"}
    PROVE  /\ event_pc'[Worker] = "none" <=> event_pc[Worker] = "none"
           /\ \A u \in Threads : event_pc[u] \in {"start", "stop_join"} => event_pc'[u] = event_pc[u]
  BY WorkerApart DEF Moves, Kin, E!UnsubscribePCs

(* The worker and its handle are created, end and are joined together.     *)
LEMMA WorkerLifeStep ==
    ASSUME Parts, CoreVariables, WorkerLife, CoreNext
    PROVE  WorkerLife'
<1>1. E!TypeOK /\ EP!LifecycleOK
  BY DEF Parts
<1>2. ASSUME UNCHANGED <<life, event_pc>> PROVE WorkerLife'
  BY <1>2 DEF WorkerLife
<1>3. ASSUME NEW t \in Threads, NEW places, Moves(t, places),
             event_pc[t] \notin {"start", "stop_join"}, UNCHANGED life
      PROVE  WorkerLife'
  BY <1>3, MovesKeep, WorkerKeeps
<1>4. ASSUME UNCHANGED event_pc, NEW h \in Producers, NEW x, life' = [life EXCEPT ![h] = x]
      PROVE  WorkerLife'
  BY <1>4, OtherHandles, WorkerKeeps DEF CoreVariables
<1>5. ASSUME NEW t \in Threads, CallerStep(t) PROVE WorkerLife'
  <2>1. CASE PublishInCall(t)
    BY <1>1, <1>3, <2>1, BusMoves DEF PublishInCall, E!PublishSync, E!PublishAsync, threadVars
  <2> QED
    BY <1>2, <1>5, <2>1
    DEF CallerStep, CoreInit, CoreShutdown, Release, HealthChecked, Acquire, CheckHealth, eventVars, threadVars
<1>6. ASSUME NEW t \in Threads, CoreStep(t) PROVE WorkerLife'
  <2>1. CASE CoreReturns(t) \/ CheckThreads(t) \/ ResetRegistry(t) \/ CallComponents(t) \/ BetweenCallbacks(t) \/ UseRegistry(t)
    BY <1>2, <2>1
    DEF CoreReturns, CheckThreads, ResetRegistry, CallComponents, BetweenCallbacks, UseRegistry, eventVars, threadVars
  <2>2. CASE UseThread(t)
    BY <1>2, <1>4, <2>2
    DEF UseThread, ThreadCreate, ThreadStarts, ThreadRequestStop, ThreadJoin, eventVars
  <2>3. CASE CallbackReturns(t)
    BY <1>2, <1>4, <2>3 DEF CallbackReturns, ThreadCreateFails, eventVars, threadVars
  <2>4. CASE UseBus(t)
    <3>1. event_pc[t] \notin {"start", "stop_join"} /\ UNCHANGED life
      BY <2>4 DEF UseBus, E!Subscribe, E!Unsubscribe, E!UnsubscribeResume, Quiet, threadVars
    <3>2. \E places : Moves(t, places)
      BY <1>1, <2>4, BusMoves DEF UseBus
    <3> QED  BY <1>3, <3>1, <3>2
  <2>5. CASE StartBus(t)
    <3>1. CASE E!Start(t) /\ UNCHANGED threadVars
      <4>1. Moves(t, {"start"}) /\ UNCHANGED life
        BY <1>1, <3>1, BusMoves DEF threadVars
      <4>2. \A u \in Threads : event_pc[u] # "start" /\ event_pc[u] # "stop_join"
        BY <3>1 DEF E!Start, E!At, E!Processes, E!StopPCs
      <4> QED  BY <1>3, <4>1, <4>2
    <3>2. CASE event_pc[t] = "start" /\ ThreadCreate(Worker) /\ UNCHANGED eventVars
      BY <3>2, OtherHandles DEF ThreadCreate, WorkerLife, eventVars, CoreVariables
    <3>3. CASE E!StartWorker(t) /\ ThreadStarts(Worker)
      BY <1>1, <3>3, OtherHandles, WorkerApart
      DEF E!StartWorker, ThreadStarts, WorkerLife, CoreVariables, E!TypeOK, E!Processes
    <3>4. CASE E!StartFails(t) /\ ThreadCreateFails(Worker)
      <4>1. Moves(t, {"ready"}) /\ life[Worker] = "counted" /\ life'[Worker] = "free"
        BY <1>1, <3>4, BusMoves, OtherHandles DEF ThreadCreateFails, CoreVariables
      <4>2. event_pc'[Worker] = "none" <=> event_pc[Worker] = "none"
        BY <4>1, WorkerApart DEF Moves
      <4> QED  BY <4>1, <4>2 DEF WorkerLife
    <3> QED  BY <2>5, <3>1, <3>2, <3>3, <3>4 DEF StartBus
  <2>6. CASE StopBus(t)
    <3>1. CASE E!Stop(t) /\ UNCHANGED threadVars
      <4>1. Moves(t, {"stop_join"}) /\ UNCHANGED life /\ event_pc[t] = "ready"
        BY <1>1, <3>1, BusMoves DEF threadVars, E!Stop
      <4> QED  BY <1>3, <4>1
    <3>2. CASE E!FinishStop(t) /\ event_pc[t] = "stop_join" /\ ThreadJoin(Worker)
      <4>1. Moves(t, {"stop_sleep", "ready"}) /\ life[Worker] = "exited" /\ life'[Worker] = "free"
        BY <1>1, <3>2, BusMoves, OtherHandles DEF ThreadJoin, CoreVariables
      <4>2. event_pc'[Worker] = "none" <=> event_pc[Worker] = "none"
        BY <4>1, WorkerApart DEF Moves
      <4> QED  BY <4>1, <4>2 DEF WorkerLife
    <3>3. CASE E!FinishStop(t) /\ event_pc[t] # "stop_join" /\ UNCHANGED threadVars
      <4>1. Moves(t, {"stop_sleep", "ready"}) /\ UNCHANGED life /\ event_pc[t] = "stop_woken"
        BY <1>1, <3>3, BusMoves DEF threadVars, E!FinishStop
      <4> QED  BY <1>3, <4>1
    <3>4. CASE UNCHANGED <<eventVars, threadVars>>
      BY <1>2, <3>4 DEF eventVars, threadVars
    <3> QED  BY <2>6, <3>1, <3>2, <3>3, <3>4 DEF StopBus
  <2> QED
    BY <1>6, <2>1, <2>2, <2>3, <2>4, <2>5, <2>6 DEF CoreStep
<1>7. ASSUME Background PROVE WorkerLife'
  <2>1. CASE \E p \in Threads : CallbackEnds(p)
    <3>1. PICK p \in Threads : CallbackEnds(p)
      BY <2>1
    <3>2. event_pc[p] = "callback" /\ Moves(p, {"callback", "ready"}) /\ UNCHANGED life
      BY <1>1, <3>1, BusMoves DEF CallbackEnds, E!FinishCallback, threadVars
    <3> QED  BY <1>3, <3>2
  <2>2. CASE CallbackEnds(Worker) \/ ((E!WorkerTake \/ E!WorkerBlock) /\ UNCHANGED threadVars)
    <3>1. /\ event_pc[Worker] # "none" /\ UNCHANGED life
          /\ Moves(Worker, {"callback", "loop"}) \/ Moves(Worker, {"callback", "sleep"})
      BY <1>1, <2>2, WorkerMoves DEF CallbackEnds, threadVars
    <3>2. event_pc'[Worker] # "none"
      BY <3>1 DEF Moves
    <3>3. \A u \in Threads : event_pc[u] \in {"start", "stop_join"} => event_pc'[u] = event_pc[u]
      BY <3>1, WorkerApart DEF Moves, Kin, E!UnsubscribePCs
    <3> QED  BY <3>1, <3>2, <3>3, WorkerKeeps
  <2>3. CASE E!WorkerExit /\ ThreadReturns(Worker)
    <3>1. event_pc[Worker] # "none" /\ Moves(Worker, {"none"}) /\ ~running
      BY <1>1, <2>3, WorkerMoves DEF E!WorkerExit, E!WorkerMayExit
    <3>2. PICK u \in Threads : event_pc[u] \in E!StopPCs
      BY <1>1, <3>1 DEF EP!LifecycleOK, EP!StopPCs, E!StopPCs
    <3>3. event_pc[u] = "stop_join"
      BY <1>1, <3>1, <3>2 DEF EP!LifecycleOK, E!StopPCs
    <3>4. event_pc'[u] = "stop_join"
      BY <3>1, <3>3, WorkerApart DEF Moves, Kin, E!UnsubscribePCs
    <3>5. life'[Worker] = "exited" /\ event_pc'[Worker] = "none"
      BY <2>3, <3>1, OtherHandles DEF ThreadReturns, CoreVariables, Moves
    <3> QED  BY <3>4, <3>5 DEF WorkerLife
  <2>4. CASE \E c \in Producers : ProducerEnds(c)
    BY <1>4, <2>4 DEF ProducerEnds, ThreadReturns, eventVars
  <2> QED  BY <1>7, <2>1, <2>2, <2>3, <2>4 DEF Background, WorkerRuns
<1> QED  BY <1>5, <1>6, <1>7 DEF CoreNext, Background

-----------------------------------------------------------------------------
(* Accounts.                                                               *)
(* The handles are finitely many.                                          *)
LEMMA HandlesFinite == IsFiniteSet(Handles)
<1>1. C!IsFiniteSet(Components)
  BY CoreAssumption DEF CoreAssumption, C!ComponentAssumption
<1>2. IsFiniteSet(Components)
  BY <1>1 DEF C!IsFiniteSet, IsFiniteSet
<1>3. IsFiniteSet(Producers)
  BY <1>2, FS_Subset, CoreAssumption DEF CoreAssumption
<1> QED  BY <1>3, FS_AddElement, CoreAssumption DEF CoreAssumption

(* A handle that changes from `from` to `to`: how the numbers of handles   *)
(* with a life in `points` change.                                         *)
LEMMA OneHandle ==
    ASSUME CoreVariables, NEW h \in Handles, NEW x \in {"free", "counted", "running", "exited"},
           life' = [life EXCEPT ![h] = x], NEW points
    PROVE  /\ IsFiniteSet(InLife(points)) /\ Cardinality(InLife(points)) \in Nat
           /\ life[h] \in points /\ x \in points => InLife(points)' = InLife(points)
           /\ life[h] \notin points /\ x \notin points => InLife(points)' = InLife(points)
           /\ life[h] \notin points /\ x \in points =>
                  Cardinality(InLife(points)') = Cardinality(InLife(points)) + 1
           /\ life[h] \in points /\ x \notin points =>
                  /\ Cardinality(InLife(points)) > 0
                  /\ Cardinality(InLife(points)') = Cardinality(InLife(points)) - 1
<1>1. IsFiniteSet(InLife(points)) /\ Cardinality(InLife(points)) \in Nat
  BY HandlesFinite, FS_Subset, FS_CardinalityType DEF InLife
<1>2. life'[h] = x /\ \A k \in Handles \ {h} : life'[k] = life[k]
  BY DEF CoreVariables
<1>3. (life[h] \in points <=> x \in points) => InLife(points)' = InLife(points)
  BY <1>2 DEF InLife
<1>4. ASSUME life[h] \notin points, x \in points
      PROVE  Cardinality(InLife(points)') = Cardinality(InLife(points)) + 1
  <2>1. InLife(points)' = InLife(points) \union {h} /\ h \notin InLife(points)
    BY <1>2, <1>4 DEF InLife
  <2> QED  BY <1>1, <2>1, FS_AddElement
<1>5. ASSUME life[h] \in points, x \notin points
      PROVE  /\ Cardinality(InLife(points)) > 0
             /\ Cardinality(InLife(points)') = Cardinality(InLife(points)) - 1
  <2>1. InLife(points)' = InLife(points) \ {h} /\ h \in InLife(points)
    BY <1>2, <1>5 DEF InLife
  <2>2. Cardinality(InLife(points)') = Cardinality(InLife(points)) - 1
    BY <1>1, <2>1, FS_RemoveElement
  <2>3. InLife(points) # {}
    BY <2>1
  <2>4. Cardinality(InLife(points)) # 0
    BY <1>1, <2>3, FS_EmptySet
  <2> QED  BY <1>1, <2>2, <2>4
<1> QED  BY <1>1, <1>3, <1>4, <1>5

(* The operations of threads keep the counts, and only a creation begins   *)
(* with a handle that is free.                                             *)
HandleStep(h) ==
    \/ ThreadStarts(h) \/ ThreadCreateFails(h) \/ ThreadRequestStop(h) \/ ThreadReturns(h) \/ ThreadJoin(h)

(* Each of them counts a handle where its life says it is counted.         *)
LEMMA CountedStep ==
    ASSUME CoreVariables, ThreadsCounted, NEW h \in Handles, ThreadCreate(h) \/ HandleStep(h)
    PROVE  ThreadsCounted'
<1> DEFINE A == InLife({"counted", "running"})
           U == InLife({"counted", "running", "exited"})
<1>1. active_count = Cardinality(A) /\ unjoined_count = Cardinality(U)
  BY DEF ThreadsCounted
<1>2. CASE ThreadCreate(h)
  <2>1. life' = [life EXCEPT ![h] = "counted"] /\ life[h] = "free" /\ Count
    BY <1>2 DEF ThreadCreate
  <2>2. Cardinality(A') = Cardinality(A) + 1 /\ Cardinality(U') = Cardinality(U) + 1
    BY <2>1, OneHandle
  <2> QED  BY <1>1, <2>1, <2>2 DEF Count, ThreadsCounted
<1>3. CASE ThreadStarts(h)
  <2>1. life' = [life EXCEPT ![h] = "running"] /\ life[h] = "counted" /\ UNCHANGED <<active_count, unjoined_count>>
    BY <1>3 DEF ThreadStarts
  <2>2. A' = A /\ U' = U
    BY <2>1, OneHandle
  <2> QED  BY <1>1, <2>1, <2>2 DEF ThreadsCounted
<1>4. CASE ThreadCreateFails(h)
  <2>1. life' = [life EXCEPT ![h] = "free"] /\ life[h] = "counted" /\ Uncount
    BY <1>4 DEF ThreadCreateFails
  <2>2. Cardinality(A') = Cardinality(A) - 1 /\ Cardinality(U') = Cardinality(U) - 1
    BY <2>1, OneHandle
  <2> QED  BY <1>1, <2>1, <2>2 DEF Uncount, ThreadsCounted
<1>5. CASE ThreadRequestStop(h)
  BY <1>5 DEF ThreadRequestStop, ThreadsCounted, InLife
<1>6. CASE ThreadReturns(h)
  <2>1. /\ life' = [life EXCEPT ![h] = "exited"] /\ life[h] = "running"
        /\ active_count' = active_count - 1 /\ UNCHANGED unjoined_count
    BY <1>6 DEF ThreadReturns
  <2>2. Cardinality(A') = Cardinality(A) - 1 /\ U' = U
    BY <2>1, OneHandle
  <2> QED  BY <1>1, <2>1, <2>2 DEF ThreadsCounted
<1>7. CASE ThreadJoin(h)
  <2>1. /\ life' = [life EXCEPT ![h] = "free"] /\ life[h] = "exited"
        /\ unjoined_count' = unjoined_count - 1 /\ UNCHANGED active_count
    BY <1>7 DEF ThreadJoin
  <2>2. A' = A /\ Cardinality(U') = Cardinality(U) - 1
    BY <2>1, OneHandle
  <2> QED  BY <1>1, <2>1, <2>2 DEF ThreadsCounted
<1> QED  BY <1>2, <1>3, <1>4, <1>5, <1>6, <1>7 DEF HandleStep

(* The shutdowns that have checked the threads and found none.             *)
Cleared(t) == at[t] \in {"stop_reset", "stop_done"} /\ ret[t] = "ok"
AllFree == InLife({"free"}) = Handles

(* A count of 0 means that there is none.                                  *)
LEMMA NoneRemains ==
    ASSUME CoreVariables, ThreadsCounted, unjoined_count = 0
    PROVE  AllFree
<1>1. InLife({"counted", "running", "exited"}) = {}
  BY HandlesFinite, FS_Subset, FS_EmptySet DEF ThreadsCounted, InLife
<1> QED  BY <1>1 DEF AllFree, InLife, CoreVariables

(* How steps use threads: nobody creates one in a shutdown that has        *)
(* checked, nor in another thread meanwhile.                               *)
LEMMA StepUsesThread ==
    ASSUME Parts, CoreVariables, Places, CoreNext
    PROVE  \/ UNCHANGED threadVars
           \/ \E h \in Handles : HandleStep(h)
           \/ \E h \in Handles : ThreadCreate(h) /\ \A u \in Threads : ~Cleared(u)
<1>1. Worker \in Handles /\ Producers \subseteq Handles
  BY CoreAssumption DEF CoreAssumption
<1>2. ASSUME NEW t \in Threads, CallerStep(t) PROVE UNCHANGED threadVars
  BY <1>2 DEF CallerStep, CoreInit, CoreShutdown, PublishInCall, Release, HealthChecked, Acquire, CheckHealth
<1>3. ASSUME NEW t \in Threads, CoreStep(t), at[t] \in {"init_bus", "start_all", "stop_all"}
      PROVE  \A u \in Threads : ~Cleared(u)
  BY <1>3, OthersOutside DEF Cleared
<1>4. CASE \E t \in Threads : StartBus(t)
  <2>1. PICK t \in Threads : StartBus(t)
    BY <1>4
  <2>2. \A u \in Threads : ~Cleared(u)
    BY <1>3, <2>1 DEF StartBus, CoreStep
  <2> QED  BY <1>1, <2>1, <2>2 DEF StartBus, HandleStep
<1>5. CASE \E t \in Threads : UseThread(t)
  <2>1. PICK t \in Threads : UseThread(t)
    BY <1>5
  <2>2. \A u \in Threads : ~Cleared(u)
    BY <1>3, <2>1 DEF UseThread, InCallback, RunsComponents, CoreStep
  <2> QED  BY <1>1, <2>1, <2>2 DEF UseThread, HandleStep
<1>6. ASSUME NEW t \in Threads, CoreStep(t), ~StartBus(t), ~UseThread(t)
      PROVE  UNCHANGED threadVars \/ \E h \in Handles : HandleStep(h)
  <2>1. CASE StopBus(t)
    BY <1>1, <2>1 DEF StopBus, HandleStep
  <2>2. CASE CallbackReturns(t)
    BY <1>1, <2>2 DEF CallbackReturns, HandleStep
  <2> QED
    BY <1>6, <2>1, <2>2
    DEF CoreStep, CoreReturns, CheckThreads, ResetRegistry, CallComponents, BetweenCallbacks, UseRegistry, UseBus
<1>7. ASSUME Background PROVE UNCHANGED threadVars \/ \E h \in Handles : HandleStep(h)
  BY <1>1, <1>7 DEF Background, CallbackEnds, WorkerRuns, ProducerEnds, HandleStep
<1> QED  BY <1>2, <1>4, <1>5, <1>6, <1>7 DEF CoreNext, Background

(* Who has checked, or checks now.                                         *)
LEMMA ClearedStep ==
    ASSUME Parts, CoreVariables, Places, CoreNext, NEW u \in Threads, Cleared(u)'
    PROVE  Cleared(u) \/ (unjoined_count = 0 /\ UNCHANGED threadVars)
<1>1. ASSUME UNCHANGED <<at, ret>> PROVE Cleared(u)
  BY <1>1 DEF Cleared
<1>2. ASSUME NEW t \in Threads, CallerStep(t) PROVE Cleared(u)
  <2>1. CASE CoreInit(t) \/ CoreShutdown(t)
    <3>1. /\ at' \in {at, [at EXCEPT ![t] = "init_reset"], [at EXCEPT ![t] = "stop_components"]}
          /\ ret' \in {[ret EXCEPT ![t] = "ok"], [ret EXCEPT ![t] = "failed"]} /\ at[t] = "out"
      BY <2>1 DEF CoreInit, CoreShutdown, Goes, Fails, Idle
    <3> QED  BY <3>1 DEF Cleared, CoreVariables
  <2> QED
    BY <1>1, <1>2, <2>1 DEF CallerStep, PublishInCall, Release, HealthChecked, Acquire, CheckHealth
<1>3. ASSUME NEW t \in Threads, CoreStep(t) PROVE Cleared(u) \/ (unjoined_count = 0 /\ UNCHANGED threadVars)
  <2>1. ASSUME NEW q, Goes(t, q), q \notin {"stop_reset", "stop_done"},
               UNCHANGED ret \/ Fails(t)
        PROVE  Cleared(u)
    BY <2>1 DEF Goes, Fails, Cleared, CoreVariables
  <2>2. CASE CoreReturns(t)
    BY <2>1, <2>2 DEF CoreReturns
  <2>3. CASE ResetRegistry(t)
    BY <1>1, <2>3 DEF ResetRegistry, AfterReset, Goes, Cleared, CoreVariables
  <2>4. CASE StartBus(t)
    BY <1>1, <2>1, <2>4 DEF StartBus
  <2>5. CASE StopBus(t)
    BY <1>1, <2>1, <2>5 DEF StopBus, AfterBus
  <2>6. CASE CheckThreads(t)
    <3>1. ThreadsRemain => ret' = [ret EXCEPT ![t] = "failed"]
      BY <2>6 DEF CheckThreads, Fails
    <3> QED  BY <2>6, <3>1 DEF CheckThreads, ThreadsRemain, Goes, Cleared, CoreVariables
  <2>7. CASE CallComponents(t) \/ BetweenCallbacks(t)
    <3>1. PICK point \in {"start_all", "stop_all"} : Advance(t, point)
      BY <2>7 DEF CallComponents, BetweenCallbacks, RunsComponents
    <3> QED  BY <2>1, <3>1 DEF Advance, AfterStartAll
  <2>8. CASE CallbackReturns(t)
    BY <2>8 DEF CallbackReturns, Fails, Cleared, CoreVariables
  <2> QED
    BY <1>1, <1>3, <2>2, <2>3, <2>4, <2>5, <2>6, <2>7, <2>8
    DEF CoreStep, UseRegistry, UseBus, UseThread
<1>4. ASSUME Background PROVE Cleared(u)
  BY <1>1, <1>4 DEF Background, CallbackEnds, WorkerRuns, ProducerEnds
<1> QED  BY <1>2, <1>3, <1>4 DEF CoreNext, Background

(* The counts stay exact, and what a shutdown has found stays true.        *)
LEMMA AccountsStep ==
    ASSUME Parts, CoreVariables, Places, Accounts, CoreNext
    PROVE  Accounts'
<1>1. ThreadsCounted /\ \A t \in Threads : Cleared(t) => AllFree
  BY DEF Accounts, Cleared, AllFree
<1>2. ThreadsCounted'
  <2>1. CASE UNCHANGED threadVars
    BY <1>1, <2>1 DEF threadVars, ThreadsCounted, InLife
  <2> QED  BY <1>1, <2>1, StepUsesThread, CountedStep
<1>3. ASSUME NEW t \in Threads, Cleared(t)' PROVE AllFree'
  <2>1. AllFree
    BY <1>1, <1>3, ClearedStep, NoneRemains
  <2>2. \A h \in Handles : life[h] = "free"
    BY <2>1 DEF AllFree, InLife
  <2>3. \A h \in Handles : ~HandleStep(h)
    BY <2>2 DEF HandleStep, ThreadStarts, ThreadCreateFails, ThreadRequestStop, ThreadReturns, ThreadJoin
  <2>4. UNCHANGED threadVars
    BY <1>3, <2>3, StepUsesThread, ClearedStep
  <2> QED  BY <2>2, <2>4 DEF AllFree, InLife, threadVars
<1> QED  BY <1>2, <1>3 DEF Accounts, Cleared, AllFree

-----------------------------------------------------------------------------
(* Health.                                                                 *)
(* The framework comes up or is up.                                        *)
Rising == core_state = "RUNNING" \/ \E t \in Threads : GoingUp(t)

(* Kept while it does not begin to, and no component becomes inactive.     *)
LEMMA HealthKeeps ==
    ASSUME Health, Rising' => Rising /\ active \subseteq active', UNCHANGED <<checking, starts>>
    PROVE  Health'
  BY DEF Health, Rising

(* A step of the thread that is inside begins nothing.                     *)
LEMMA OnlyInside ==
    ASSUME Parts, CoreVariables, Places, NEW t \in Threads, CoreStep(t), NEW q, Goes(t, q),
           UNCHANGED core_state, Rising', GoingUp(t)' => GoingUp(t)
    PROVE  Rising
<1>1. at[t] # "out"
  BY InsideThread
<1>2. core_state # "RUNNING"
  BY <1>1 DEF Places, Control, Inside
<1>3. \A u \in Threads \ {t} : at'[u] = "out"
  BY <1>1, OthersOutside DEF Goes, CoreVariables
<1>4. GoingUp(t)'
  BY <1>2, <1>3 DEF Rising, GoingUp
<1> QED  BY <1>4 DEF Rising

(* Health checks that outlive their component belong to an earlier run.    *)
LEMMA HealthStep ==
    ASSUME Parts, CoreVariables, Places, Contents, Health, CoreNext
    PROVE  Health'
<1>1. ASSUME UNCHANGED <<core_state, at, lifecycle_pc, active, checking, starts>> PROVE Health'
  BY <1>1, HealthKeeps DEF Rising, GoingUp
<1>2. ASSUME NEW t \in Threads, CallerStep(t) PROVE Health'
  <2>1. CASE CoreInit(t)
    <3>1. CASE MayInit
      <4>1. starts' = starts + 1 /\ UNCHANGED checking
        BY <2>1, <3>1 DEF CoreInit
      <4>2. \A u \in Threads : checking[u] # NULL => checking[u][2] \in 0..starts
        BY DEF CoreVariables
      <4>3. \A u \in Threads : checking[u] # NULL => checking[u][2] # starts'
        BY <4>1, <4>2 DEF CoreVariables
      <4> QED  BY <4>1, <4>3 DEF Health
    <3> QED  BY <1>1, <2>1, <3>1 DEF CoreInit, componentVars
  <2>2. CASE CoreShutdown(t)
    <3>1. CASE MayShutdown
      <4>1. core_state' = "STOPPING" /\ at' = [at EXCEPT ![t] = "stop_components"]
        BY <2>2, <3>1 DEF CoreShutdown, Goes
      <4>2. \A u \in Threads : at[u] = "out"
        BY <3>1 DEF MayShutdown, Places, Control, Inside
      <4>3. ~Rising'
        BY <4>1, <4>2 DEF Rising, GoingUp, CoreVariables
      <4> QED  BY <4>3 DEF Health, Rising
    <3> QED  BY <1>1, <2>2, <3>1 DEF CoreShutdown, componentVars
  <2>3. CASE \E c \in Components : CheckHealth(t, c)
    <3>1. PICK c \in Components : CheckHealth(t, c)
      BY <2>3
    <3>2. checking' = [checking EXCEPT ![t] = <<c, starts>>] /\ c \in active
      BY <3>1 DEF CheckHealth, Parts
    <3>3. UNCHANGED <<core_state, at, lifecycle_pc, active, starts>>
      BY <3>1 DEF CheckHealth, componentVars
    <3> QED  BY <3>2, <3>3 DEF Health, GoingUp, CoreVariables
  <2>4. CASE HealthChecked(t)
    <3>1. checking' = [checking EXCEPT ![t] = NULL]
      BY <2>4 DEF HealthChecked
    <3>2. UNCHANGED <<core_state, at, lifecycle_pc, active, starts>>
      BY <2>4 DEF HealthChecked, componentVars
    <3> QED  BY <3>1, <3>2 DEF Health, GoingUp, CoreVariables
  <2> QED
    BY <1>1, <1>2, <2>1, <2>2, <2>3, <2>4
    DEF CallerStep, PublishInCall, Release, Acquire, coreVars, componentVars
<1>3. ASSUME NEW t \in Threads, CoreStep(t) PROVE Health'
  <2>1. CASE CoreReturns(t)
    <3>1. \A u \in Threads : at'[u] = "out"
      BY <1>3, <2>1, InsideThread, OthersOutside DEF CoreReturns, Goes, CoreVariables
    <3>2. Rising' => at[t] = "init_done"
      BY <2>1, <3>1 DEF CoreReturns, Rising, GoingUp
    <3> QED  BY <2>1, <3>2, HealthKeeps DEF CoreReturns, Rising, GoingUp, componentVars
  <2>2. ASSUME NEW q, Goes(t, q), UNCHANGED <<core_state, checking, starts>>,
               GoingUp(t)' => GoingUp(t) /\ active \subseteq active'
        PROVE  Health'
    <3>1. CASE GoingUp(t)'
      BY <1>3, <2>2, <3>1, HealthKeeps, OnlyInside
    <3>2. CASE ~GoingUp(t)'
      <4>1. ~Rising'
        <5>1. core_state' # "RUNNING"
          BY <1>3, <2>2, InsideThread DEF Places, Control, Inside
        <5>2. \A u \in Threads \ {t} : at'[u] = "out"
          BY <1>3, <2>2, InsideThread, OthersOutside DEF Goes, CoreVariables
        <5> QED  BY <3>2, <5>1, <5>2 DEF Rising, GoingUp
      <4> QED  BY <4>1 DEF Health, Rising
    <3> QED  BY <3>1, <3>2
  <2>3. ASSUME NEW q, Goes(t, q), UNCHANGED coreVars, UNCHANGED componentVars,
               q \in {"init_reset", "init_bus", "init_components", "start_all", "init_done"} =>
                   q = at[t] \/ GoingUp(t)
        PROVE  Health'
    <3>1. at'[t] = q /\ UNCHANGED <<active, lifecycle_pc, core_state, checking, starts>>
      BY <2>3 DEF Goes, CoreVariables, coreVars, componentVars
    <3>2. GoingUp(t)' => GoingUp(t)
      BY <2>3, <3>1 DEF GoingUp
    <3> QED  BY <2>2, <2>3, <3>1, <3>2
  <2>4. UNCHANGED at => Goes(t, at[t])
    BY DEF Goes, CoreVariables
  <2>5. CASE ResetRegistry(t)
    <3>1. Goes(t, AfterReset[at[t]]) /\ at[t] \in {"init_reset", "rollback_reset", "stop_reset"}
      BY <2>5, ResetReturns DEF ResetRegistry, AfterReset
    <3> QED  BY <2>3, <2>5, <3>1 DEF ResetRegistry, AfterReset, GoingUp
  <2>6. CASE StartBus(t)
    BY <2>3, <2>4, <2>6 DEF StartBus, GoingUp
  <2>7. CASE StopBus(t)
    BY <2>3, <2>4, <2>7 DEF StopBus, AfterBus
  <2>8. CASE CheckThreads(t)
    BY <2>3, <2>8 DEF CheckThreads
  <2>9. CASE UseRegistry(t) \/ UseBus(t) \/ UseThread(t)
    BY <2>3, <2>4, <2>9 DEF UseRegistry, UseBus, UseThread, RunsComponents
  <2>10. CASE CallComponents(t)
    <3>1. UNCHANGED <<core_state, checking, starts, active>>
      BY <2>10 DEF CallComponents, coreVars, C!StartAll, C!StopAll, C!world
    <3>2. CASE at[t] = "init_components" /\ Advance(t, "start_all")
      <4>1. GoingUp(t)
        BY <3>2 DEF GoingUp
      <4>2. \E q : Goes(t, q)
        BY <3>2 DEF Advance
      <4> QED  BY <2>2, <3>1, <4>1, <4>2
    <3>3. CASE at[t] = "stop_components" /\ C!StopAll /\ Advance(t, "stop_all")
      <4>1. lifecycle_pc' = "stop_next" /\ Goes(t, "stop_all")
        BY <3>3 DEF C!StopAll, Advance
      <4>2. ~GoingUp(t)'
        BY <4>1 DEF GoingUp, Goes, CoreVariables
      <4> QED  BY <2>2, <3>1, <4>1, <4>2
    <3> QED  BY <2>10, <3>2, <3>3 DEF CallComponents
  <2>11. CASE BetweenCallbacks(t)
    <3>1. UNCHANGED <<core_state, checking, starts, active>>
      BY <2>11 DEF BetweenCallbacks, coreVars, C!PhaseDone, C!InitializeCandidate, C!InitializeNone,
         C!StartNext, C!StartDone, C!StopNext, C!StopDone, C!DeinitNext, C!DeinitDone, C!world
    <3>2. /\ lifecycle_pc \in StopAllPCs => lifecycle_pc' \in StopAllPCs \union {"down"}
      BY <2>11, BetweenMoves DEF Parts
    <3>3. PICK q : Goes(t, q) /\ at[t] \in {"start_all", "stop_all"} /\ Advance(t, at[t])
      BY <2>11 DEF BetweenCallbacks, RunsComponents, Advance
    <3>4. at'[t] = q
      BY <3>3 DEF Goes, CoreVariables
    <3>5. CASE at[t] = "stop_all"
      <4>1. q \in {"stop_all", "stop_bus"}
        BY <3>3, <3>4, <3>5 DEF Advance, Goes, CoreVariables
      <4>2. ~GoingUp(t)'
        BY <3>4, <4>1 DEF GoingUp
      <4> QED  BY <2>2, <3>1, <3>3, <4>2
    <3>6. CASE at[t] = "start_all" /\ lifecycle_pc \notin StopAllPCs
      BY <2>2, <3>1, <3>3, <3>6 DEF GoingUp
    <3>7. CASE at[t] = "start_all" /\ lifecycle_pc \in StopAllPCs
      <4>1. at'[t] \in {"start_all", "rollback_bus"} /\ (at'[t] = "start_all" => lifecycle_pc' \in StopAllPCs)
        BY <3>2, <3>3, <3>7 DEF Advance, AfterStartAll, Goes, CoreVariables, StopAllPCs
      <4>2. ~GoingUp(t)'
        BY <4>1 DEF GoingUp
      <4> QED  BY <2>2, <3>1, <3>3, <4>2
    <3> QED  BY <3>3, <3>5, <3>6, <3>7
  <2>12. CASE CallbackReturns(t)
    <3>1. /\ UNCHANGED <<core_state, checking, starts>> /\ Goes(t, at[t]) /\ at'[t] = at[t]
          /\ at[t] \in {"start_all", "stop_all"}
      BY <2>4, <2>12 DEF CallbackReturns, InCallback, RunsComponents
    <3>2. CASE lifecycle_pc \in StopAllPCs
      <4>1. lifecycle_pc' \in StopAllPCs
        BY <2>12, <3>2, CallbackMoves DEF StopAllPCs
      <4> QED  BY <2>2, <3>1, <4>1 DEF GoingUp
    <3>3. CASE lifecycle_pc \notin StopAllPCs
      <4>1. active \subseteq active'
        BY <2>12, <3>3 DEF CallbackReturns, StopAllPCs, C!InitSucceeds, C!InitFails, C!StartSucceeds,
           C!StartFails, C!StopReturns, C!DiscardReturns, C!DeinitReturns, C!world
      <4> QED  BY <2>2, <3>1, <3>3, <4>1 DEF GoingUp
    <3> QED  BY <3>2, <3>3
  <2> QED
    BY <1>3, <2>1, <2>5, <2>6, <2>7, <2>8, <2>9, <2>10, <2>11, <2>12 DEF CoreStep
<1>4. ASSUME Background PROVE Health'
  BY <1>1, <1>4 DEF Background, CallbackEnds, WorkerRuns, ProducerEnds, coreVars, componentVars
<1> QED  BY <1>2, <1>3, <1>4 DEF CoreNext, Background

-----------------------------------------------------------------------------
(* The handles keep their lives and tokens.                                *)
LEMMA ThreadVariables ==
    ASSUME CoreVariables, NEW h \in Handles, ThreadCreate(h) \/ HandleStep(h)
    PROVE  /\ life' \in [Handles -> {"free", "counted", "running", "exited"}]
           /\ stop_requested' \subseteq Handles
  BY DEF CoreVariables, ThreadCreate, HandleStep, ThreadStarts, ThreadCreateFails, ThreadRequestStop,
     ThreadReturns, ThreadJoin

(* The variables of sys_core.c and of the threads.                         *)
LEMMA VariablesStep ==
    ASSUME Parts, CoreVariables, Places, CoreNext
    PROVE  CoreVariables'
<1> DEFINE Points == InitPoints \union ShutdownPoints \union {"out"}
           LifeOK == /\ life \in [Handles -> {"free", "counted", "running", "exited"}]
                     /\ stop_requested \subseteq Handles
<1>1. LifeOK'
  BY StepUsesThread, ThreadVariables DEF CoreVariables, threadVars
<1>2. ASSUME LifeOK', UNCHANGED <<core_state, starts, checking>>, left' \subseteq Producers,
             at' \in [Threads -> Points], ret' \in [Threads -> {"ok", "failed"}]
      PROVE  CoreVariables'
  BY <1>2 DEF CoreVariables
<1>3. ASSUME UNCHANGED <<at, ret, coreVars>> PROVE CoreVariables'
  BY <1>1, <1>3 DEF CoreVariables, coreVars
<1>4. ASSUME NEW t \in Threads, CallerStep(t) PROVE CoreVariables'
  <2>1. CASE CoreInit(t)
    <3>1. CASE MayInit
      <4>1. checking \in [Threads -> (Components \X (0..starts')) \union {NULL}] /\ starts' \in Nat
        BY <2>1, <3>1 DEF CoreInit, CoreVariables
      <4> QED  BY <1>1, <2>1, <3>1, <4>1 DEF CoreInit, Goes, CoreVariables, InitPoints
    <3> QED  BY <1>1, <2>1, <3>1 DEF CoreInit, Fails, CoreVariables
  <2>2. CASE CoreShutdown(t)
    BY <1>1, <2>2 DEF CoreShutdown, Goes, Fails, CoreVariables, ShutdownPoints
  <2>3. CASE \E c \in Components : CheckHealth(t, c)
    BY <1>1, <2>3 DEF CheckHealth, CoreVariables
  <2>4. CASE HealthChecked(t)
    BY <1>1, <2>4 DEF HealthChecked, CoreVariables
  <2> QED
    BY <1>3, <1>4, <2>1, <2>2, <2>3, <2>4 DEF CallerStep, PublishInCall, Release, Acquire
<1>5. ASSUME NEW t \in Threads, CoreStep(t) PROVE CoreVariables'
  <2>1. ASSUME NEW q \in Points, Goes(t, q), UNCHANGED ret \/ Fails(t), UNCHANGED coreVars
        PROVE  CoreVariables'
    BY <1>1, <1>2, <2>1 DEF Goes, Fails, CoreVariables, coreVars
  <2>2. UNCHANGED at => Goes(t, at[t]) /\ at[t] \in Points
    BY DEF Goes, CoreVariables
  <2>3. CASE CoreReturns(t)
    BY <1>1, <2>3 DEF CoreReturns, Goes, CoreVariables
  <2>4. CASE ResetRegistry(t)
    BY <2>1, <2>2, <2>4 DEF ResetRegistry, AfterReset, InitPoints, ShutdownPoints
  <2>5. CASE StartBus(t)
    BY <2>1, <2>2, <2>5 DEF StartBus, InitPoints
  <2>6. CASE StopBus(t)
    BY <2>1, <2>2, <2>6 DEF StopBus, AfterBus, InitPoints, ShutdownPoints
  <2>7. CASE CheckThreads(t)
    BY <2>1, <2>7 DEF CheckThreads, ShutdownPoints
  <2>8. CASE CallComponents(t) \/ BetweenCallbacks(t)
    <3>1. UNCHANGED coreVars /\ \E point \in {"start_all", "stop_all"} : Advance(t, point)
      BY <2>8 DEF CallComponents, BetweenCallbacks, RunsComponents
    <3> QED  BY <2>1, <3>1 DEF Advance, AfterStartAll, InitPoints, ShutdownPoints
  <2>9. CASE CallbackReturns(t)
    BY <1>1, <1>2, <2>9 DEF CallbackReturns, Fails, CoreVariables
  <2>10. CASE UseRegistry(t) \/ UseBus(t) \/ UseThread(t)
    BY <1>3, <2>10 DEF UseRegistry, UseBus, UseThread
  <2> QED
    BY <1>5, <2>3, <2>4, <2>5, <2>6, <2>7, <2>8, <2>9, <2>10 DEF CoreStep
<1>6. ASSUME Background PROVE CoreVariables'
  BY <1>3, <1>6 DEF Background, CallbackEnds, WorkerRuns, ProducerEnds
<1> QED  BY <1>4, <1>5, <1>6 DEF CoreNext, Background

-----------------------------------------------------------------------------
(* The framework starts in order.                                          *)
LEMMA CoreInvariantInit == CoreStart => CoreInvariant
<1> SUFFICES ASSUME CoreStart PROVE CoreInvariant
  OBVIOUS
<1>1. /\ core_state = "STOPPED" /\ starts = 0 /\ left = {}
      /\ at = [t \in Threads |-> "out"] /\ ret = [t \in Threads |-> "ok"]
      /\ checking = [t \in Threads |-> NULL]
      /\ life = [h \in Handles |-> "free"] /\ stop_requested = {}
      /\ active_count = 0 /\ unjoined_count = 0
  BY DEF CoreStart, ThreadInit
<1>2. CoreVariables
  BY <1>1 DEF CoreVariables
<1>3. lifecycle_pc = "down" /\ ~running /\ allocated = {} /\ queue = <<>>
  BY DEF CoreStart, C!Init, E!Init
<1>4. /\ \A t \in Threads : event_pc[t] = "ready" /\ service_pc[t] = "ready"
      /\ event_pc[Worker] = "none" /\ S!Used = {}
  BY WorkerApart DEF CoreStart, E!Init, E!Processes, S!Init, S!Used
<1>5. Control /\ LifecycleAt
  BY <1>1, <1>3 DEF Control, Inside, LifecycleAt, LifecycleOf, DownPoints, UpPoints
<1>6. BusAt /\ CallsAt
  BY <1>1, <1>3, <1>4
  DEF BusAt, BusOf, CallsAt, CallsOf, BusPoints, NoBusPoints, E!StopPCs, E!UnsubscribePCs
<1>7. Contents /\ WorkerLife
  BY <1>1, <1>3, <1>4, OtherHandles DEF Contents, WorkerLife
<1>8. Accounts
  <2>1. InLife({"counted", "running"}) = {} /\ InLife({"counted", "running", "exited"}) = {}
    BY <1>1 DEF InLife
  <2> QED  BY <1>1, <2>1, FS_EmptySet DEF Accounts, ThreadsCounted
<1>9. Health
  BY <1>1 DEF Health
<1> QED  BY <1>2, <1>5, <1>6, <1>7, <1>8, <1>9 DEF CoreInvariant, Places

(* No step breaks that order.                                              *)
LEMMA CoreInvariantStep == Parts /\ CoreInvariant /\ [CoreNext]_frameworkVars => CoreInvariant'
<1>1. ASSUME Parts, CoreInvariant, CoreNext PROVE CoreInvariant'
  BY <1>1, VariablesStep, PlacesStep, ContentsStep, WorkerLifeStep, AccountsStep, HealthStep
  DEF CoreInvariant
<1>2. ASSUME CoreInvariant, UNCHANGED frameworkVars PROVE CoreInvariant'
  <2>1. UNCHANGED <<at, ret, core_state, starts, checking, left, lifecycle_pc, subject, alive, active, running,
                    event_pc, queue, allocated, service_pc, ref, emptying, slot_accepting, desc, life,
                    stop_requested, active_count, unjoined_count>>
    BY <1>2 DEF frameworkVars, coreVars, componentVars, eventVars, serviceVars, threadVars
  <2>2. CoreVariables' /\ Control' /\ LifecycleAt'
    BY <1>2, <2>1 DEF CoreInvariant, CoreVariables, Places, Control, Inside, LifecycleAt, LifecycleOf
  <2>3. BusAt' /\ CallsAt'
    BY <1>2, <2>1 DEF CoreInvariant, Places, BusAt, BusOf, CallsAt, CallsOf, RunsComponents
  <2>4. Contents' /\ WorkerLife'
    BY <1>2, <2>1 DEF CoreInvariant, Contents, S!Used, C!Built, WorkerLife
  <2>5. Accounts' /\ Health'
    BY <1>2, <2>1 DEF CoreInvariant, Accounts, ThreadsCounted, InLife, Health, GoingUp
  <2> QED  BY <2>2, <2>3, <2>4, <2>5 DEF CoreInvariant, Places
<1> QED  BY <1>1, <1>2

(* So the framework stays in order, whatever threads call and when.        *)
THEOREM FrameworkInOrder == CoreSpec => [](Parts /\ CoreInvariant)
  BY CoreInvariantInit, CoreInvariantStep, PartsHold, PTL DEF CoreSpec

-----------------------------------------------------------------------------
(* When g_core_state says RUNNING or STOPPED, the lifecycle, the bus, its  *)
(* worker and the registry are so; otherwise one thread is at work.        *)
THEOREM CoreStateIsTruthful == CoreSpec => []CoreStateTruthful
<1>1. ASSUME Parts, CoreInvariant PROVE CoreStateTruthful
  <2>1. /\ CoreVariables /\ Control /\ LifecycleAt /\ BusAt /\ Contents /\ WorkerLife
        /\ C!TakenDownOnce /\ EP!LifecycleOK
    BY <1>1 DEF CoreInvariant, Places, Parts
  <2>2. ASSUME core_state \in {"STOPPED", "RUNNING"}
        PROVE  /\ Inside = {}
               /\ \A t \in Threads : event_pc[t] # "start" /\ event_pc[t] \notin E!StopPCs
    <3>1. \A t \in Threads : at[t] = "out"
      BY <2>1, <2>2 DEF Control, Inside
    <3> QED  BY <2>1, <2>2, <3>1 DEF Control, BusAt, BusOf, AfterBus
  <2>3. ASSUME core_state = "RUNNING" PROVE lifecycle_pc = "up" /\ accepting /\ event_pc[Worker] # "none"
    BY <2>1, <2>2, <2>3 DEF LifecycleAt, BusAt, EP!LifecycleOK
  <2>4. ASSUME core_state = "STOPPED"
        PROVE  /\ lifecycle_pc = "down" /\ alive = {} /\ active = {}
               /\ S!Used = {} /\ allocated = {} /\ E!Stopped /\ life[Worker] = "free"
    <3>1. lifecycle_pc = "down" /\ ~running
      BY <2>1, <2>4 DEF LifecycleAt, BusAt
    <3>2. alive = {} /\ active = {} /\ S!Used = {} /\ allocated = {}
      BY <1>1, <2>1, <3>1, DownIsEmpty DEF C!TakenDownOnce
    <3>3. event_pc[Worker] = "none"
      BY <2>1, <2>2, <2>4, <3>1 DEF EP!LifecycleOK, EP!StopPCs, E!StopPCs
    <3>4. E!Stopped
      BY <2>2, <2>4, <3>1, <3>3 DEF E!Stopped, E!At, E!Processes, E!StopPCs
    <3>5. life[Worker] \in {"free", "counted", "running", "exited"}
      BY <2>1, OtherHandles DEF CoreVariables
    <3>6. life[Worker] = "free"
      BY <2>1, <2>2, <2>4, <3>3, <3>5 DEF WorkerLife, E!StopPCs
    <3> QED  BY <3>1, <3>2, <3>4, <3>6
  <2>5. ASSUME core_state = "STARTING" PROVE \E t \in Threads : Inside = {t} /\ at[t] \in InitPoints
    <3>1. PICK t \in Threads : at[t] \in InitPoints
      BY <2>1, <2>5 DEF Control
    <3>2. t \in Inside
      BY <3>1 DEF Inside, InitPoints
    <3> QED  BY <2>1, <3>1, <3>2 DEF Control, Inside
  <2>6. ASSUME core_state = "STOPPING" PROVE \E t \in Threads : Inside = {t} /\ at[t] \in ShutdownPoints
    <3>1. PICK t \in Threads : at[t] \in ShutdownPoints
      BY <2>1, <2>6 DEF Control
    <3>2. t \in Inside
      BY <3>1 DEF Inside, ShutdownPoints
    <3> QED  BY <2>1, <3>1, <3>2 DEF Control, Inside
  <2>7. core_state \in {"RUNNING", "STOPPED", "STARTING", "STOPPING"}
    BY <2>1 DEF CoreVariables
  <2> QED  BY <2>2, <2>3, <2>4, <2>5, <2>6, <2>7 DEF CoreStateTruthful
<1> QED  BY <1>1, FrameworkInOrder, PTL

(* sys_core.c keeps the rules of the lifecycle, the bus and the registry;  *)
(* and what these cannot promise to any client they promise here.          *)
THEOREM RulesAreKept == CoreSpec => []FrameworkKeepsTheRules
<1>1. ASSUME Parts, CoreInvariant PROVE FrameworkKeepsTheRules
  <2>1. /\ CoreVariables /\ Control /\ LifecycleAt /\ BusAt /\ CallsAt /\ Contents /\ WorkerLife
        /\ S!TypeOK /\ EP!LifecycleOK
    BY <1>1 DEF CoreInvariant, Places, Parts
  <2>2. ASSUME E!Stopped PROVE lifecycle_pc = "down" /\ event_pc[Worker] = "none"
    <3>1. ~running /\ \A t \in Threads : event_pc[t] \notin E!StopPCs
      BY <2>2 DEF E!Stopped, E!At, E!Processes
    <3>2. event_pc[Worker] = "none"
      BY <2>1, <3>1 DEF EP!LifecycleOK, EP!StopPCs, E!StopPCs
    <3>3. lifecycle_pc = "down"
      <4>1. CASE core_state = "STOPPED"
        BY <2>1, <4>1 DEF LifecycleAt
      <4>2. CASE core_state = "RUNNING"
        BY <2>1, <3>1, <4>2 DEF BusAt
      <4>3. CASE core_state \in {"STARTING", "STOPPING"}
        <5>1. PICK t \in Threads : at[t] \in InitPoints \union ShutdownPoints
          BY <2>1, <4>3 DEF Control
        <5>2. at[t] \notin BusPoints
          BY <2>1, <3>1 DEF BusAt, BusOf
        <5>3. at[t] \in DownPoints
          BY <5>1, <5>2 DEF InitPoints, ShutdownPoints, BusPoints, DownPoints
        <5> QED  BY <2>1, <5>3 DEF LifecycleAt, LifecycleOf
      <4> QED  BY <2>1, <4>1, <4>2, <4>3 DEF CoreVariables
    <3> QED  BY <3>2, <3>3
  <2>3. E!StoppedIsDrained
    BY <1>1, <2>1, <2>2, DownIsEmpty DEF E!StoppedIsDrained
  <2>4. E!StopAwaitsCallbacks
    BY <1>1, <2>1, <2>2, DownIsEmpty DEF E!StopAwaitsCallbacks
  <2>5. S!ClosedBeforeWaiting
    BY <2>1 DEF S!ClosedBeforeWaiting, S!At, CallsAt, CallsOf
  <2>6. ASSUME NEW t \in Threads, at[t] = "init_bus", event_pc[t] = "ready"
        PROVE  E!Stopped /\ life[Worker] = "free"
    <3>1. ~running
      BY <2>1, <2>6 DEF BusAt, BusOf
    <3>2. \A u \in Threads : event_pc[u] # "start" /\ event_pc[u] \notin E!StopPCs
      <4>1. \A u \in Threads \ {t} : at[u] = "out" /\ Outside(u)
        BY <1>1, <2>6, OthersOutside DEF CoreInvariant
      <4> QED  BY <2>6, <4>1 DEF Outside, E!StopPCs
    <3>3. event_pc[Worker] = "none"
      BY <2>1, <3>1, <3>2 DEF EP!LifecycleOK, EP!StopPCs, E!StopPCs
    <3>4. E!Stopped
      BY <3>1, <3>2, <3>3 DEF E!Stopped, E!At, E!Processes, E!StopPCs
    <3>5. life[Worker] \in {"free", "counted", "running", "exited"}
      BY <2>1, OtherHandles DEF CoreVariables
    <3> QED  BY <2>1, <3>2, <3>3, <3>4, <3>5 DEF WorkerLife, E!StopPCs
  <2>7. ASSUME NEW t \in Threads
        PROVE  /\ at[t] = "init_components" => lifecycle_pc = "down"
               /\ at[t] = "stop_components" => lifecycle_pc = "up"
    BY <2>1, <2>7 DEF LifecycleAt, LifecycleOf, DownPoints, UpPoints
  <2> QED  BY <2>3, <2>4, <2>5, <2>6, <2>7 DEF FrameworkKeepsTheRules
<1> QED  BY <1>1, FrameworkInOrder, PTL

(* Nothing reaches a component that is not built through a service or an   *)
(* event.                                                                  *)
THEOREM EntriesAreIntoAlive == CoreSpec => []EntriesIntoAlive
<1>1. ASSUME Parts, CoreInvariant PROVE EntriesIntoAlive
  <2>1. Contents /\ E!NoUseAfterFree /\ E!TypeOK /\ S!TypeOK /\ S!NoDanglingReference
    BY <1>1 DEF CoreInvariant, Parts
  <2>2. ASSUME NEW t \in Threads, ref[t] # NULL PROVE ref[t] \in C!Built
    <3>1. ref[t] \in Providers /\ desc[ref[t]] # NULL
      BY <2>1, <2>2 DEF S!TypeOK, S!NoDanglingReference
    <3> QED  BY <2>1, <3>1 DEF S!Used, Contents
  <2>3. ASSUME NEW p \in DOMAIN calls, NEW i \in DOMAIN calls[p] PROVE E!Callees(calls[p][i]) \subseteq C!Built
    <3>1. p \in E!Processes
      BY <2>1, <2>3 DEF E!TypeOK
    <3> QED  BY <2>1, <2>3, <3>1 DEF E!NoUseAfterFree, Contents
  <2>4. ASSUME NEW i \in DOMAIN queue PROVE queue[i] \subseteq C!Built
    BY <2>1, <2>4 DEF E!NoUseAfterFree, Contents
  <2> QED  BY <2>2, <2>3, <2>4 DEF EntriesIntoAlive
<1> QED  BY <1>1, FrameworkInOrder, PTL

(* A health check is not so well guarded: it may reach a component that    *)
(* has been stopped and deinitialized after the check read its state.      *)
(* What holds is that this takes a shutdown, or a start that fails, begun  *)
(* or under way when the check runs: while the core comes up or is         *)
(* running, a check of this start is of an active component.               *)
THEOREM ChecksInStartAreOfActive == CoreSpec => []Health
<1>1. CoreInvariant => Health
  BY DEF CoreInvariant
<1> QED  BY <1>1, FrameworkInOrder, PTL

(* The two counts of sys_thread.c are exact, and a shutdown that answers   *)
(* SYS_OK leaves no thread.                                                *)
THEOREM ThreadsAreAccounted == CoreSpec => []ThreadsAccounted
<1>1. CoreInvariant => ThreadsAccounted
  BY DEF CoreInvariant, Accounts, ThreadsAccounted
<1> QED  BY <1>1, FrameworkInOrder, PTL

(* sys_core_init answers SYS_OK if it goes on or is done, and an error if  *)
(* it rolls back.                                                          *)
Results == \A t \in Threads :
    /\ at[t] \in {"init_reset", "init_bus", "init_components", "start_all", "init_done"} => ret[t] = "ok"
    /\ at[t] \in {"rollback_bus", "rollback_reset", "rolled_back"} => ret[t] = "failed"

(* The answer of sys_core_init.                                            *)
LEMMA ResultsStep ==
    ASSUME CoreVariables, Results, [CoreNext]_frameworkVars
    PROVE  Results'
<1>1. ASSUME UNCHANGED <<at, ret>> PROVE Results'
  BY <1>1 DEF Results
<1>2. ASSUME NEW t \in Threads, CallerStep(t) PROVE Results'
  <2>1. CASE CoreInit(t)
    <3>1. CASE MayInit
      BY <2>1, <3>1 DEF CoreInit, Goes, Results, CoreVariables
    <3>2. CASE ~MayInit
      BY <2>1, <3>2 DEF CoreInit, Fails, Idle, Results, CoreVariables
    <3> QED  BY <3>1, <3>2
  <2>2. CASE CoreShutdown(t)
    BY <2>2 DEF CoreShutdown, Goes, Fails, Idle, Results, CoreVariables
  <2> QED
    BY <1>1, <1>2, <2>1, <2>2 DEF CallerStep, PublishInCall, Release, HealthChecked, Acquire, CheckHealth
<1>3. ASSUME NEW t \in Threads, CoreStep(t) PROVE Results'
  <2>1. ASSUME NEW q, Goes(t, q), UNCHANGED ret,
               q \in {"init_reset", "init_bus", "init_components", "start_all", "init_done"} =>
                   at[t] \in {"init_reset", "init_bus", "init_components", "start_all", "init_done"},
               q \in {"rollback_bus", "rollback_reset", "rolled_back"} =>
                   at[t] \in {"rollback_bus", "rollback_reset"}
        PROVE  Results'
    BY <2>1 DEF Goes, Results, CoreVariables
  <2>2. ASSUME NEW q, Goes(t, q), Fails(t),
               q \notin {"init_reset", "init_bus", "init_components", "start_all", "init_done"}
        PROVE  Results'
    BY <2>2 DEF Goes, Fails, Results, CoreVariables
  <2>3. CASE CoreReturns(t)
    BY <2>1, <2>3 DEF CoreReturns
  <2>4. CASE ResetRegistry(t)
    BY <1>1, <2>1, <2>4 DEF ResetRegistry, AfterReset
  <2>5. CASE StartBus(t)
    BY <1>1, <2>1, <2>2, <2>5 DEF StartBus
  <2>6. CASE StopBus(t)
    BY <1>1, <2>1, <2>6 DEF StopBus, AfterBus
  <2>7. CASE CheckThreads(t)
    BY <2>1, <2>2, <2>7 DEF CheckThreads
  <2>8. CASE CallComponents(t) \/ BetweenCallbacks(t)
    <3>1. PICK point \in {"start_all", "stop_all"} :
              /\ Advance(t, point)
              /\ IF point = "start_all" THEN at[t] \in {"init_components", "start_all"}
                                        ELSE at[t] \in {"stop_components", "stop_all"}
      BY <2>8 DEF CallComponents, BetweenCallbacks, RunsComponents
    <3> QED  BY <2>1, <2>2, <3>1 DEF Advance, AfterStartAll
  <2>9. CASE CallbackReturns(t)
    BY <1>1, <2>9 DEF CallbackReturns, Fails, Results, CoreVariables
  <2> QED
    BY <1>1, <1>3, <2>3, <2>4, <2>5, <2>6, <2>7, <2>8, <2>9
    DEF CoreStep, UseRegistry, UseBus, UseThread
<1>4. ASSUME Background PROVE Results'
  BY <1>1, <1>4 DEF Background, CallbackEnds, WorkerRuns, ProducerEnds
<1>5. ASSUME UNCHANGED frameworkVars PROVE Results'
  BY <1>1, <1>5 DEF frameworkVars
<1> QED  BY <1>2, <1>3, <1>4, <1>5 DEF CoreNext, Background

(* So when it returns, SYS_OK means RUNNING and an error means STOPPED.    *)
THEOREM ResultsHold == CoreSpec => []Results
<1>1. CoreStart => Results
  BY DEF CoreStart, Results
<1>2. CoreSpec => []CoreVariables
  BY FrameworkInOrder, PTL DEF CoreInvariant
<1> QED  BY <1>1, <1>2, ResultsStep, PTL DEF CoreSpec

=============================================================================
