-------------------------------- MODULE SysCore --------------------------------
(***************************************************************************)
(* sys_core_init and sys_core_shutdown of core/sys_core.c, called by any   *)
(* thread, and the framework they drive: the component lifecycle (C), the  *)
(* event bus (E), the service registry (S) and the managed threads, each   *)
(* with the actions of its own module.                                     *)
(*                                                                         *)
(* at[t] is where t is in one of the two functions, "out" outside.  What   *)
(* the components do is the general form of app/features: init registers   *)
(* the service of a Provider and the subscription of a Subscriber, deinit  *)
(* withdraws them; start creates the thread of a Producer, and stop asks   *)
(* it to end and joins it, or gives up and fails; stop may publish, as     *)
(* camera_component_stop does. A callback that fails has undone what it    *)
(* did, except for the thread that a failed stop leaves: as camera_init    *)
(* does, the component's next init forgets it. A component names its own   *)
(* service, subscription and thread; the thread of the bus is Worker.      *)
(*                                                                         *)
(* Threads outside call services, which may publish, and health checks.    *)
(* No client rule of the three modules is assumed.  sys_core_get_status    *)
(* and sys_core_is_running read and change nothing.                        *)
(***************************************************************************)
EXTENDS SysThread, SysRuntime, Sequences

CONSTANTS
    Threads, Worker,
    Components, LastPhase, Images,
    Providers, Subscribers, Producers,
    MaxPublishes    \* bound: the publications

VARIABLES
    core_state,     \* g_core_state
    at,
    ret,            \* ret[t]: `ret` of t's last or present call
    starts,         \* the initializations begun
    checking,       \* the component whose health_check t is in, and `starts`
                    \* when it read RUNNING
    left,           \* the components with a thread that a failed stop has left
    section, state, initialized, initialized_order, started_order, lifecycle_pc,
    phase, index, subject, alive, active,
    allocated, event_id, in_flight, subscribers, queue, running, accepting, handles,
    event_pc, calls, unsubscribing, publishes,
    desc, slot_accepting, reference_count, ref, held, service_pc, emptying

C == INSTANCE SysComponent WITH pc <- lifecycle_pc
E == INSTANCE SysEvent WITH
        Subscriptions <- Subscribers, Events <- {"event"}, QueueCapacity <- 1,
        MaxSubscribers <- Cardinality(Subscribers), ExclusiveStart <- FALSE,
        pc <- event_pc, target <- unsubscribing
S == INSTANCE SysService WITH
        Slots <- Providers, Keys <- Providers, Abis <- {"abi"}, Ops <- Providers,
        SIZE_MAX <- Cardinality(Threads), ExclusiveUnregister <- FALSE, ExclusiveReset <- FALSE,
        accepting <- slot_accepting, pc <- service_pc, target <- emptying

ASSUME CoreAssumption ==
    /\ Worker \notin Components
    /\ Handles = Producers \union {Worker}
    /\ Tasks = Threads \union Handles
    /\ Providers \union Subscribers \union Producers \subseteq Components
    /\ C!ComponentAssumption /\ E!EventAssumption /\ S!ServiceAssumption

componentVars == <<section, state, initialized, initialized_order, started_order, lifecycle_pc,
                   phase, index, subject, alive, active>>
eventVars == <<allocated, event_id, in_flight, subscribers, queue, running, accepting, handles,
               event_pc, calls, unsubscribing, publishes>>
serviceVars == <<desc, slot_accepting, reference_count, ref, held, service_pc, emptying>>
coreVars == <<core_state, starts, checking, left>>
frameworkVars == <<at, ret, coreVars, componentVars, eventVars, serviceVars, threadVars>>
vars == <<frameworkVars, runtimeVars>>

InitPoints == {"init_reset", "init_bus", "init_components", "start_all",
               "rollback_bus", "rollback_reset", "rolled_back", "init_done"}
ShutdownPoints == {"stop_components", "stop_all", "stop_bus", "check_threads",
                   "stop_reset", "stop_done"}
Inside == {t \in Threads : at[t] # "out"}

Service(c) == [key |-> c, abi |-> "abi", ops |-> c]
Quiet(t) == event_pc[t] = "ready" /\ service_pc[t] = "ready"
Idle(t) == at[t] = "out" /\ Quiet(t) /\ ref[t] = NULL /\ checking[t] = NULL

(* Definitions named X_Y are X with the plausible bug Y; no action uses     *)
(* them.                                                                   *)
MayInit_UnlessRunning == core_state # "RUNNING"
AfterStartAll_NoRollback == IF lifecycle_pc' = "up" THEN "init_done" ELSE "rollback_reset"
ThreadsRemain_Active == active_count # 0

MayInit == core_state = "STOPPED"
MayShutdown == core_state = "RUNNING"
ThreadsRemain == unjoined_count # 0

(* t goes on at point p, having noted the error in `ret` if it fails. *)
Goes(t, p) == at' = [at EXCEPT ![t] = p]
Fails(t) == ret' = [ret EXCEPT ![t] = "failed"]

-----------------------------------------------------------------------------
(* The first critical section of sys_core_init and of sys_core_shutdown.   *)
CoreInit(t) ==
    /\ Idle(t)
    /\ IF MayInit
         THEN /\ core_state' = "STARTING" /\ Goes(t, "init_reset")
              /\ ret' = [ret EXCEPT ![t] = "ok"]
              /\ starts' = starts + 1
         ELSE Fails(t) /\ UNCHANGED <<core_state, at, starts>>
    /\ UNCHANGED <<checking, left, componentVars, eventVars, serviceVars, threadVars, runtimeVars>>

CoreShutdown(t) ==
    /\ Idle(t)
    /\ IF MayShutdown
         THEN /\ core_state' = "STOPPING" /\ Goes(t, "stop_components")
              /\ ret' = [ret EXCEPT ![t] = "ok"]
         ELSE Fails(t) /\ UNCHANGED <<core_state, at>>
    /\ UNCHANGED <<checking, left, starts, componentVars, eventVars, serviceVars, threadVars, runtimeVars>>

(* The last one. *)
CoreReturns(t) ==
    /\ at[t] \in {"init_done", "rolled_back", "stop_done"}
    /\ core_state' = IF at[t] = "init_done" THEN "RUNNING" ELSE "STOPPED"
    /\ Goes(t, "out")
    /\ UNCHANGED <<ret, checking, left, starts, componentVars, eventVars, serviceVars, threadVars, runtimeVars>>

(* sys_service_registry_reset: before a start, and after a shutdown or a   *)
(* start that failed.                                                      *)
AfterReset == [init_reset |-> "init_bus", rollback_reset |-> "rolled_back", stop_reset |-> "stop_done"]
ResetRegistry(t) ==
    /\ at[t] \in DOMAIN AfterReset
    /\ S!Reset(t) \/ S!Resume(t)
    /\ IF service_pc'[t] = "ready" THEN Goes(t, AfterReset[at[t]]) ELSE UNCHANGED at
    /\ UNCHANGED <<ret, coreVars, componentVars, eventVars, threadVars, runtimeVars>>

(* sys_event_bus_start, with the creation of its worker *)
StartBus(t) ==
    /\ at[t] = "init_bus"
    /\ \/ E!Start(t) /\ UNCHANGED <<at, ret, threadVars, runtimeVars>>
       \/ /\ event_pc[t] = "start" /\ ThreadCreate(Worker)
          /\ UNCHANGED <<at, ret, eventVars, runtimeVars>>
       \/ /\ E!StartWorker(t) /\ ThreadStarts(Worker) /\ Inherit(t, Worker)
          /\ Goes(t, "init_components") /\ UNCHANGED ret
       \/ /\ E!StartFails(t) /\ ThreadCreateFails(Worker)
          /\ Goes(t, "rollback_bus") /\ Fails(t) /\ UNCHANGED runtimeVars
    /\ UNCHANGED <<coreVars, componentVars, serviceVars>>

(* sys_event_bus_stop; a bus that does not run is left alone.              *)
AfterBus == [rollback_bus |-> "rollback_reset", stop_bus |-> "check_threads"]
StopBus(t) ==
    /\ at[t] \in DOMAIN AfterBus
    /\ \/ running /\ E!Stop(t) /\ UNCHANGED <<at, threadVars>>
       \/ /\ E!FinishStop(t)
          /\ IF event_pc[t] = "stop_join" THEN ThreadJoin(Worker) ELSE UNCHANGED threadVars
          /\ IF event_pc'[t] = "ready" THEN Goes(t, AfterBus[at[t]]) ELSE UNCHANGED at
       \/ /\ ~running /\ event_pc[t] = "ready"
          /\ Goes(t, AfterBus[at[t]]) /\ UNCHANGED <<eventVars, threadVars>>
    /\ UNCHANGED <<ret, coreVars, componentVars, serviceVars, runtimeVars>>

CheckThreads(t) ==
    /\ at[t] = "check_threads"
    /\ IF ThreadsRemain THEN Fails(t) ELSE UNCHANGED ret
    /\ Goes(t, "stop_reset")
    /\ UNCHANGED <<coreVars, componentVars, eventVars, serviceVars, threadVars, runtimeVars>>

-----------------------------------------------------------------------------
(* Where t is after a step of sys_component_start_all or                   *)
(* sys_component_stop_all, and what that returns if the step is its last.  *)
AfterStartAll == IF lifecycle_pc' = "up" THEN "init_done" ELSE "rollback_bus"
Advance(t, point) ==
    IF lifecycle_pc' \notin {"up", "down"} THEN Goes(t, point) /\ UNCHANGED ret
    ELSE IF point = "stop_all" THEN Goes(t, "stop_bus") /\ UNCHANGED ret
    ELSE /\ Goes(t, AfterStartAll)
         /\ IF lifecycle_pc' = "down" THEN Fails(t) ELSE UNCHANGED ret

CallComponents(t) ==
    /\ \/ at[t] = "init_components" /\ C!StartAll /\ Advance(t, "start_all")
       \/ at[t] = "stop_components" /\ C!StopAll /\ Advance(t, "stop_all")
    /\ UNCHANGED <<coreVars, eventVars, serviceVars, threadVars, runtimeVars>>

RunsComponents(t) == at[t] \in {"start_all", "stop_all"}

(* The lifecycle between two callbacks. *)
BetweenCallbacks(t) ==
    /\ RunsComponents(t)
    /\ \/ C!PhaseDone \/ C!InitializeCandidate \/ C!InitializeNone
       \/ C!StartNext \/ C!StartDone \/ C!StopNext \/ C!StopDone
       \/ C!DeinitNext \/ C!DeinitDone
    /\ Advance(t, at[t])
    /\ UNCHANGED <<coreVars, eventVars, serviceVars, threadVars, runtimeVars>>

(* What the callback of `subject` does before it returns. *)
Offered(c) == (c \in Providers => S!IsRegistered(c)) /\ (c \in Subscribers => c \in subscribers)
Withdrawn(c) == (c \in Providers => ~S!IsRegistered(c)) /\ (c \in Subscribers => c \notin allocated)
InCallback(t, points) == RunsComponents(t) /\ lifecycle_pc \in points /\ Quiet(t)

UseRegistry(t) ==
    /\ RunsComponents(t) /\ event_pc[t] = "ready" /\ subject \in Providers
    /\ \/ lifecycle_pc = "init" /\ S!Register(t, subject, Service(subject))
       \/ lifecycle_pc \in {"deinit", "discard"} /\ (S!Unregister(t, subject) \/ S!Resume(t))
    /\ UNCHANGED <<at, ret, coreVars, componentVars, eventVars, threadVars, runtimeVars>>

UseBus(t) ==
    /\ RunsComponents(t) /\ service_pc[t] = "ready"
    /\ \/ lifecycle_pc = "init" /\ subject \in Subscribers /\ E!Subscribe(t, subject, "event")
       \/ lifecycle_pc \in {"deinit", "discard"} /\ subject \in Subscribers
          /\ (E!Unsubscribe(t, subject) \/ E!UnsubscribeResume(t))
       \/ lifecycle_pc = "stop" /\ Quiet(t) /\ E!PublishSync(t, "event")
    /\ UNCHANGED <<at, ret, coreVars, componentVars, serviceVars, threadVars, runtimeVars>>

UseThread(t) ==
    /\ subject \in Producers \ left
    /\ \/ /\ InCallback(t, {"start"})
          /\ \/ ThreadCreate(subject) /\ UNCHANGED runtimeVars
             \/ ThreadStarts(subject) /\ Inherit(t, subject)
       \/ /\ InCallback(t, {"stop"})
          /\ \/ subject \notin stop_requested /\ ThreadRequestStop(subject)
             \/ ThreadJoin(subject)
          /\ UNCHANGED runtimeVars
    /\ UNCHANGED <<at, ret, coreVars, componentVars, eventVars, serviceVars>>

(* init forgets the thread of an earlier run: start and stop do without.   *)
HasThread(c) == life[c] \in {"running", "exited"} /\ c \notin left

CallbackReturns(t) ==
    /\ InCallback(t, {"init", "start", "stop", "discard", "deinit"})
    /\ \/ C!InitSucceeds /\ Offered(subject)
       \/ C!InitFails /\ Withdrawn(subject)
       \/ C!StartSucceeds /\ (subject \in Producers \ left => HasThread(subject))
       \/ C!StartFails /\ (subject \in Producers => ~HasThread(subject))
       \/ C!StopReturns /\ (state'[subject] = "stopped" /\ subject \in Producers => ~HasThread(subject))
       \/ (C!DiscardReturns \/ C!DeinitReturns) /\ Withdrawn(subject)
    /\ IF at[t] = "stop_all" /\ lifecycle_pc = "stop" /\ state'[subject] = "failed"
         THEN Fails(t) ELSE UNCHANGED ret
    /\ left' = IF lifecycle_pc = "stop" /\ subject \in Producers /\ HasThread(subject)
                 THEN left \union {subject} ELSE left
    /\ IF subject \in Producers /\ life[subject] = "counted"
         THEN ThreadCreateFails(subject) ELSE UNCHANGED threadVars
    /\ UNCHANGED <<at, core_state, starts, checking, eventVars, serviceVars, runtimeVars>>

-----------------------------------------------------------------------------
(* Calls from outside. *)
Acquire(t, c) ==
    /\ Idle(t)
    /\ S!Acquire(t, c, c, "abi")
    /\ UNCHANGED <<at, ret, coreVars, componentVars, eventVars, threadVars, runtimeVars>>

PublishInCall(t) ==
    /\ ref[t] # NULL
    /\ E!PublishSync(t, "event") \/ E!PublishAsync(t, "event")
    /\ UNCHANGED <<at, ret, coreVars, componentVars, serviceVars, threadVars, runtimeVars>>

Release(t) ==
    /\ Quiet(t)
    /\ S!Release(t)
    /\ UNCHANGED <<at, ret, coreVars, componentVars, eventVars, threadVars, runtimeVars>>

(* sys_component_check_health up to the call of health_check. *)
CheckHealth(t, c) ==
    /\ Idle(t)
    /\ c \in C!Registered /\ state[c] = "running"
    /\ checking' = [checking EXCEPT ![t] = <<c, starts>>]
    /\ UNCHANGED <<core_state, starts, left, at, ret, componentVars, eventVars, serviceVars, threadVars, runtimeVars>>

HealthChecked(t) ==
    /\ checking[t] # NULL
    /\ checking' = [checking EXCEPT ![t] = NULL]
    /\ UNCHANGED <<core_state, starts, left, at, ret, componentVars, eventVars, serviceVars, threadVars, runtimeVars>>

(* An event callback ends, in whatever thread. *)
CallbackEnds(p) ==
    /\ E!FinishCallback(p)
    /\ UNCHANGED <<at, ret, coreVars, componentVars, serviceVars, threadVars, runtimeVars>>

(* event_worker *)
WorkerRuns ==
    /\ \/ (E!WorkerTake \/ E!WorkerBlock) /\ UNCHANGED threadVars
       \/ E!WorkerExit /\ ThreadReturns(Worker)
    /\ UNCHANGED <<at, ret, coreVars, componentVars, serviceVars, runtimeVars>>

(* The thread of a producer ends, on request or by itself. *)
ProducerEnds(c) ==
    /\ ThreadReturns(c)
    /\ UNCHANGED <<at, ret, coreVars, componentVars, eventVars, serviceVars, runtimeVars>>

-----------------------------------------------------------------------------
CoreStep(t) ==
    \/ CoreReturns(t) \/ ResetRegistry(t) \/ StartBus(t) \/ StopBus(t) \/ CheckThreads(t)
    \/ CallComponents(t) \/ BetweenCallbacks(t) \/ CallbackReturns(t)
    \/ UseRegistry(t) \/ UseBus(t) \/ UseThread(t)

CoreStart ==
    /\ core_state = "STOPPED" /\ starts = 0
    /\ at = [t \in Threads |-> "out"] /\ ret = [t \in Threads |-> "ok"]
    /\ checking = [t \in Threads |-> NULL] /\ left = {}
    /\ C!Init /\ E!Init /\ S!Init /\ ThreadInit

-----------------------------------------------------------------------------
CoreTypeOK ==
    /\ core_state \in {"STOPPED", "STARTING", "RUNNING", "STOPPING"}
    /\ at \in [Threads -> InitPoints \union ShutdownPoints \union {"out"}]
    /\ ret \in [Threads -> {"ok", "failed"}]
    /\ starts \in Nat
    /\ checking \in [Threads -> (Components \X (0..starts)) \union {NULL}]
    /\ left \subseteq Producers
    /\ ThreadTypeOK /\ RuntimeTypeOK /\ C!TypeOK /\ E!TypeOK /\ S!TypeOK

(* g_core_state tells the truth about the whole framework.  RUNNING: the   *)
(* lifecycle is up, the bus accepts and its worker exists.  STOPPED, after *)
(* a shutdown as after a start that failed anywhere: nothing is built, no  *)
(* service or subscription is left, the bus and its worker are gone.       *)
(* Otherwise exactly one thread is in sys_core_init or sys_core_shutdown.  *)
CoreStateTruthful ==
    CASE core_state = "RUNNING" ->
            Inside = {} /\ lifecycle_pc = "up" /\ accepting /\ event_pc[Worker] # "none"
      [] core_state = "STOPPED" ->
            /\ Inside = {} /\ lifecycle_pc = "down" /\ alive = {} /\ active = {}
            /\ S!Used = {} /\ allocated = {} /\ E!Stopped /\ life[Worker] = "free"
      [] core_state = "STARTING" -> \E t \in Threads : Inside = {t} /\ at[t] \in InitPoints
      [] core_state = "STOPPING" -> \E t \in Threads : Inside = {t} /\ at[t] \in ShutdownPoints

(* The core keeps the rules that the modules below assume of their callers *)
(* (a bus is started when it is stopped, and by nobody else; start_all     *)
(* when the lifecycle is down, stop_all when it is up), and in the         *)
(* framework as a whole what registry and bus alone do not keep holds: no  *)
(* unregister waits on a slot that accepts again, no event is lost in a    *)
(* start that fails, no callback runs when the bus has stopped.            *)
FrameworkKeepsTheRules ==
    /\ \A t \in Threads :
         /\ at[t] = "init_bus" /\ event_pc[t] = "ready" => E!Stopped /\ life[Worker] = "free"
         /\ at[t] = "init_components" => lifecycle_pc = "down"
         /\ at[t] = "stop_components" => lifecycle_pc = "up"
    /\ S!ClosedBeforeWaiting
    /\ E!StoppedIsDrained /\ E!StopAwaitsCallbacks

(* No call reaches a component before its init or after its deinit: not    *)
(* through a service, nor through an event that is queued or being         *)
(* delivered.  (Nothing waits for a health check: one that has read the    *)
(* state may call a component that has been taken down since.)             *)
EntriesIntoAlive ==
    /\ \A t \in Threads : ref[t] # NULL => ref[t] \in C!Built
    /\ \A p \in DOMAIN calls : \A i \in DOMAIN calls[p] : E!Callees(calls[p][i]) \subseteq C!Built
    /\ \A i \in DOMAIN queue : queue[i] \subseteq C!Built

(* The counts are exact, and a shutdown that answers SYS_OK leaves no      *)
(* thread: one that a failed stop has left keeps it from doing so, in      *)
(* every later shutdown too.                                               *)
ThreadsAccounted ==
    /\ ThreadsCounted
    /\ \A t \in Threads : at[t] = "stop_done" /\ ret[t] = "ok" => InLife({"free"}) = Handles
=============================================================================
