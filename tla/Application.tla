------------------------------ MODULE Application ------------------------------
(***************************************************************************)
(* A process built on the framework, as app/main.c is: Main creates the    *)
(* runtime, initializes the core, starts a stream through a service, waits *)
(* for a stop with a timeout, stops the stream, shuts the core down and    *)
(* destroys the runtime.  main_pc names the call of main that comes next   *)
(* or is under way.                                                        *)
(*                                                                         *)
(* Helper stands for the other threads of an application: it calls         *)
(* services and health checks, requests the stop, and may call             *)
(* sys_core_init and sys_core_shutdown.  main.c has no such thread; it is  *)
(* started after the runtime exists, as sys_runtime.h asks, and does not   *)
(* use the runtime while Main destroys it.                                 *)
(*                                                                         *)
(* Signals come at any time.  The process ends with main's return or by a  *)
(* signal.  The calls of wifi, gps and imu, which only change the log, are *)
(* left out.                                                               *)
(***************************************************************************)
EXTENDS SysCore

CONSTANTS
    Main, Helper,
    MaxStarts,  \* bound: Helper initializes the core only before this many starts
    Camera,     \* the provider whose service main uses
    Checked     \* bound: the components whose health Helper checks

ASSUME ApplicationAssumption ==
    /\ Threads = {Main, Helper} /\ Main # Helper
    /\ Camera \in Providers /\ Checked \subseteq Components
    /\ MaxStops \in Nat /\ NULL \notin Tasks

VARIABLES
    main_pc,
    exit_code,
    controllers     \* the threads that have called sys_core_init or _shutdown

mainVars == <<main_pc, exit_code, controllers>>
allVars == <<vars, mainVars>>

Live == (IF main_pc \in {"create", "start_helper"} THEN {Main} ELSE Threads) \union InLife({"running"})

AfterInit == IF ret[Main] = "ok" THEN "start_stream" ELSE "destroy"

MainGoes(p) == main_pc' = p /\ UNCHANGED <<exit_code, controllers>>
MainFails(p) == main_pc' = p /\ exit_code' = 1 /\ UNCHANGED controllers

-----------------------------------------------------------------------------
MainCreates ==
    /\ main_pc = "create"
    /\ \/ RuntimeCreate(Main) /\ MainGoes("start_helper")
       \/ UNCHANGED runtimeVars /\ MainFails("exit")
    /\ UNCHANGED frameworkVars

StartHelper ==
    /\ main_pc = "start_helper"
    /\ Inherit(Main, Helper)
    /\ MainGoes("init")
    /\ UNCHANGED frameworkVars

MainInits ==
    \/ main_pc = "init" /\ CoreInit(Main) /\ MainGoes("initializing")
    \/ /\ main_pc = "initializing" /\ at[Main] = "out"
       /\ IF ret[Main] = "ok" THEN MainGoes(AfterInit) ELSE MainFails(AfterInit)
       /\ UNCHANGED vars

(* camera_start_stream and camera_stop_stream acquire the service, or find *)
(* none that accepts; what they return is left open.                       *)
MainStreams ==
    /\ main_pc \in {"start_stream", "stop_stream"}
    /\ \/ Acquire(Main, Camera) /\ UNCHANGED mainVars
       \/ /\ Release(Main)
          /\ \/ MainGoes(IF main_pc = "start_stream" THEN "wait" ELSE "shutdown")
             \/ main_pc = "start_stream" /\ MainGoes("shutdown")
             \/ main_pc = "stop_stream" /\ MainFails("shutdown")
       \/ /\ ref[Main] = NULL /\ ~S!CanAcquire(Camera, Camera, "abi")
          /\ IF main_pc = "start_stream" THEN MainGoes("shutdown") ELSE MainFails("shutdown")
          /\ UNCHANGED vars

MainWaits ==
    /\ main_pc = "wait"
    /\ \/ \E r \in {"cancelled", "timeout"} : WaitReturns(r) /\ MainGoes("stop_stream")
       \/ WaitReturns("would_block") /\ MainFails("stop_stream")
    /\ UNCHANGED frameworkVars

MainShutsDown ==
    \/ main_pc = "shutdown" /\ CoreShutdown(Main) /\ MainGoes("shutting_down")
    \/ /\ main_pc = "shutting_down" /\ at[Main] = "out"
       /\ IF ret[Main] = "ok" THEN MainGoes("destroy") ELSE MainFails("destroy")
       /\ UNCHANGED vars

MainDestroys ==     \* closing a descriptor may report an error
    /\ main_pc = "destroy"
    /\ RuntimeDestroy(Main, Live)
    /\ MainGoes("exit") \/ MainFails("exit")
    /\ UNCHANGED frameworkVars

-----------------------------------------------------------------------------
HelperActs ==
    /\ Helper \in Live
    /\ \/ \E c \in Providers : Acquire(Helper, c)
       \/ \E c \in Checked : CheckHealth(Helper, c)
       \/ Idle(Helper) /\ RuntimeRequestStop /\ UNCHANGED frameworkVars
    /\ UNCHANGED mainVars

(* The other thread initializes or shuts down the core, too.               *)
HelperControls ==
    /\ Helper \in Live
    /\ CoreShutdown(Helper) \/ (starts < MaxStarts /\ CoreInit(Helper))
    /\ controllers' = controllers \union {Helper}
    /\ UNCHANGED <<main_pc, exit_code>>

SignalArrives ==
    /\ \E s \in Signals : Raise(s, Live)
    /\ UNCHANGED <<frameworkVars, mainVars>>

MainStep ==
    \/ MainCreates \/ StartHelper \/ MainInits \/ MainStreams \/ MainWaits
    \/ MainShutsDown \/ MainDestroys

(* What a thread does in a call that it has begun; main goes on by itself. *)
ThreadStep(t) ==
    \/ (CoreStep(t) \/ HealthChecked(t) \/ CallbackEnds(t)) /\ UNCHANGED mainVars
    \/ t = Helper /\ Release(t) /\ UNCHANGED mainVars
    \/ t = Main /\ MainStep

WorkerStep == (WorkerRuns \/ CallbackEnds(Worker)) /\ UNCHANGED mainVars
ProducerStep(c) == ProducerEnds(c) /\ UNCHANGED mainVars

Over == killed \/ main_pc = "exit"

Init ==
    /\ CoreStart /\ RuntimeInit
    /\ main_pc = "create" /\ exit_code = 0
    /\ controllers = {Main}

Next ==
    \/ ~Over /\ \E t \in Threads : ThreadStep(t) \/ (PublishInCall(t) /\ UNCHANGED mainVars)
    \/ ~Over /\ (WorkerStep \/ \E c \in Producers : ProducerStep(c))
    \/ ~Over /\ (HelperActs \/ HelperControls \/ SignalArrives)
    \/ Over /\ UNCHANGED allVars

Spec == Init /\ [][Next]_allVars

(* Each thread runs on in its calls; callbacks and calls through services  *)
(* end, and so does main's wait, which has a timeout; a thread that is     *)
(* asked to stop ends.                                                     *)
LiveSpec ==
    /\ Spec
    /\ \A t \in Threads : WF_allVars(~Over /\ ThreadStep(t))
    /\ WF_allVars(~Over /\ WorkerStep)
    /\ \A c \in Producers : WF_allVars(~Over /\ c \in stop_requested /\ ProducerStep(c))

-----------------------------------------------------------------------------
TypeOK ==
    /\ CoreTypeOK
    /\ main_pc \in {"create", "start_helper", "init", "initializing", "start_stream", "wait",
                    "stop_stream", "shutdown", "shutting_down", "destroy", "exit"}
    /\ exit_code \in {0, 1} /\ controllers \subseteq Threads

(* When main alone controls the core, the process ends in good order:      *)
(* SIGINT and SIGTERM never kill it in the middle of a component, only     *)
(* before the core is initialized or when everything has been stopped, and *)
(* if main returns 0 no thread is left and every mask is as before.        *)
EndsInOrder ==
    Over /\ controllers = {Main} =>
        /\ core_state = "STOPPED" /\ alive = {}
        /\ ~killed /\ exit_code = 0 => InLife({"free"}) = Handles /\ Main \notin blocked

(* Whatever fails and whoever stops whom: the process ends, so no thread   *)
(* waits for ever in a start, a shutdown or an unsubscribe.                *)
ProcessEnds == <>Over
=============================================================================
