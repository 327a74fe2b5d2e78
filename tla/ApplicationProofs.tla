---------------------------- MODULE ApplicationProofs ----------------------------
(***************************************************************************)
(* Proofs about a process built on the framework, of any components: it is *)
(* a client of the framework like any other (FrameworkRefined), and it     *)
(* ends in good order (MainInvariant says where main stands meanwhile).    *)
(***************************************************************************)
EXTENDS Application, SysCoreProofs

(* Before the runtime exists nothing else does, and Helper is not there.   *)
Before ==
    main_pc \in {"create", "start_helper"} =>
        core_state = "STOPPED" /\ AllFree /\ controllers = {Main}

(* From the creation of the runtime to its destruction every live thread   *)
(* blocks the signals; main had not blocked them before.                   *)
Masks ==
    /\ ~previous_mask
    /\ main_pc = "create" => blocked = {}
    /\ main_pc \notin {"create", "exit"} =>
           owner = Main /\ Main \in blocked /\ InLife({"running"}) \subseteq blocked
    /\ main_pc \notin {"create", "start_helper", "exit"} => Helper \in blocked
    /\ main_pc = "exit" => Main \notin blocked
    /\ killed => main_pc \in {"create", "exit"}

(* While main alone controls the core, main_pc tells what state it is in.  *)
UpPCs == {"start_stream", "wait", "stop_stream", "shutdown"}
DownPCs == {"create", "start_helper", "init", "destroy", "exit"}
Alone ==
    controllers = {Main} =>
        /\ at[Helper] = "out"
        /\ main_pc \in DownPCs => core_state = "STOPPED"
        /\ main_pc \in UpPCs => core_state = "RUNNING"
        /\ main_pc = "initializing" =>
               \/ at[Main] \in InitPoints
               \/ at[Main] = "out" /\ core_state = (IF ret[Main] = "ok" THEN "RUNNING" ELSE "STOPPED")
        /\ main_pc = "shutting_down" =>
               \/ at[Main] \in ShutdownPoints
               \/ at[Main] = "out" /\ core_state = "STOPPED" /\ (ret[Main] = "ok" => AllFree)
        /\ main_pc \in {"destroy", "exit"} /\ exit_code = 0 => AllFree

MainVariables ==
    /\ main_pc \in DownPCs \union UpPCs \union {"initializing", "shutting_down"}
    /\ exit_code \in {0, 1} /\ controllers \subseteq Threads
    /\ RuntimeTypeOK

MainInvariant == MainVariables /\ Before /\ Masks /\ Alone

-----------------------------------------------------------------------------
(* What the process does with the framework is what any thread may do.     *)
LEMMA StepIsCore == [Next]_allVars => [CoreNext]_frameworkVars
<1>1. Main \in Threads /\ Helper \in Threads /\ Camera \in Providers /\ Checked \subseteq Components
  BY ApplicationAssumption DEF ApplicationAssumption
<1>2. ASSUME UNCHANGED vars PROVE UNCHANGED frameworkVars
  BY <1>2 DEF vars
<1>3. ASSUME NEW t \in Threads, ThreadStep(t) PROVE [CoreNext]_frameworkVars
  <2>1. CASE MainStep
    BY <1>1, <1>2, <2>1
    DEF MainStep, MainCreates, StartHelper, MainInits, MainStreams, MainWaits, MainShutsDown, MainDestroys,
        CoreNext, CallerStep
  <2> QED  BY <1>3, <2>1 DEF ThreadStep, CoreNext, CallerStep
<1>4. ASSUME NEW t \in Threads, PublishInCall(t) PROVE CoreNext
  BY <1>4 DEF CoreNext, CallerStep
<1>5. ASSUME WorkerStep \/ \E c \in Producers : ProducerStep(c) PROVE CoreNext
  BY <1>5 DEF WorkerStep, ProducerStep, CoreNext
<1>6. ASSUME HelperActs \/ HelperControls \/ SignalArrives PROVE [CoreNext]_frameworkVars
  BY <1>1, <1>6 DEF HelperActs, HelperControls, SignalArrives, CoreNext, CallerStep
<1>7. ASSUME UNCHANGED allVars PROVE UNCHANGED frameworkVars
  BY <1>7 DEF allVars, vars
<1> QED  BY <1>3, <1>4, <1>5, <1>6, <1>7 DEF Next

(* So all that is proved about the framework holds in it.                  *)
THEOREM FrameworkRefined == Spec => CoreSpec
  BY StepIsCore, PTL DEF Spec, Init, CoreSpec

(* In particular the properties of SysCore.                                *)
THEOREM FrameworkHolds ==
    Spec => [](CoreStateTruthful /\ FrameworkKeepsTheRules /\ EntriesIntoAlive /\ ThreadsAccounted)
  BY FrameworkRefined, CoreStateIsTruthful, RulesAreKept, EntriesAreIntoAlive, ThreadsAreAccounted, PTL

-----------------------------------------------------------------------------
(* The points of one function are not left but by its return.              *)
LEMMA CorePath ==
    ASSUME CoreVariables, NEW t \in Threads, CoreStep(t), ~CoreReturns(t)
    PROVE  /\ at[t] \in InitPoints => at'[t] \in InitPoints
           /\ at[t] \in ShutdownPoints => at'[t] \in ShutdownPoints
           /\ \A u \in Threads \ {t} : at'[u] = at[u]
           /\ UNCHANGED core_state
<1> DEFINE Path(q) == /\ at[t] \in InitPoints => q \in InitPoints
                      /\ at[t] \in ShutdownPoints => q \in ShutdownPoints
<1>1. ASSUME NEW q, Goes(t, q), Path(q)
      PROVE  at'[t] = q /\ Path(at'[t]) /\ \A u \in Threads \ {t} : at'[u] = at[u]
  BY <1>1 DEF Goes, CoreVariables
<1>2. UNCHANGED at => Path(at'[t]) /\ \A u \in Threads \ {t} : at'[u] = at[u]
  OBVIOUS
<1>3. CASE ResetRegistry(t)
  BY <1>1, <1>2, <1>3 DEF ResetRegistry, AfterReset, InitPoints, ShutdownPoints, coreVars
<1>4. CASE StartBus(t)
  BY <1>1, <1>2, <1>4 DEF StartBus, InitPoints, ShutdownPoints, coreVars
<1>5. CASE StopBus(t)
  BY <1>1, <1>2, <1>5 DEF StopBus, AfterBus, InitPoints, ShutdownPoints, coreVars
<1>6. CASE CheckThreads(t)
  BY <1>1, <1>6 DEF CheckThreads, InitPoints, ShutdownPoints, coreVars
<1>7. CASE CallComponents(t) \/ BetweenCallbacks(t)
  <2>1. PICK point \in {"start_all", "stop_all"} :
            /\ Advance(t, point)
            /\ IF point = "start_all" THEN at[t] \in {"init_components", "start_all"}
                                      ELSE at[t] \in {"stop_components", "stop_all"}
    BY <1>7 DEF CallComponents, BetweenCallbacks, RunsComponents
  <2>2. PICK q : Goes(t, q) /\ Path(q)
    BY <2>1 DEF Advance, AfterStartAll, InitPoints, ShutdownPoints
  <2> QED  BY <1>1, <1>7, <2>2 DEF CallComponents, BetweenCallbacks, coreVars
<1>8. CASE CallbackReturns(t) \/ UseRegistry(t) \/ UseBus(t) \/ UseThread(t)
  BY <1>2, <1>8 DEF CallbackReturns, UseRegistry, UseBus, UseThread, coreVars
<1> QED  BY <1>3, <1>4, <1>5, <1>6, <1>7, <1>8 DEF CoreStep

(* A thread that a call creates has the mask of its creator.               *)
LEMMA RunningStep ==
    ASSUME CoreVariables, NEW t \in Threads, CoreStep(t)
    PROVE  \/ UNCHANGED runtimeVars /\ InLife({"running"})' \subseteq InLife({"running"})
           \/ \E h \in Handles : Inherit(t, h) /\ InLife({"running"})' \subseteq InLife({"running"}) \union {h}
<1>1. Worker \in Handles /\ Producers \subseteq Handles
  BY CoreAssumption DEF CoreAssumption
<1>2. ASSUME UNCHANGED threadVars PROVE InLife({"running"})' = InLife({"running"})
  BY <1>2 DEF threadVars, InLife
<1>3. ASSUME NEW h \in Handles,
             ThreadCreate(h) \/ ThreadCreateFails(h) \/ ThreadRequestStop(h) \/ ThreadReturns(h) \/ ThreadJoin(h)
      PROVE  InLife({"running"})' \subseteq InLife({"running"})
  BY <1>3 DEF ThreadCreate, ThreadCreateFails, ThreadRequestStop, ThreadReturns, ThreadJoin, InLife,
     CoreVariables
<1>4. ASSUME NEW h \in Handles, ThreadStarts(h)
      PROVE  InLife({"running"})' \subseteq InLife({"running"}) \union {h}
  BY <1>4 DEF ThreadStarts, InLife, CoreVariables
<1>5. CASE StartBus(t)
  BY <1>1, <1>2, <1>3, <1>4, <1>5 DEF StartBus
<1>6. CASE StopBus(t)
  BY <1>1, <1>2, <1>3, <1>6 DEF StopBus
<1>7. CASE UseThread(t)
  BY <1>1, <1>3, <1>4, <1>7 DEF UseThread
<1>8. CASE CallbackReturns(t)
  BY <1>1, <1>2, <1>3, <1>8 DEF CallbackReturns
<1> QED
  BY <1>2, <1>5, <1>6, <1>7, <1>8
  DEF CoreStep, CoreReturns, ResetRegistry, CheckThreads, CallComponents, BetweenCallbacks, UseRegistry, UseBus

(* main, and the tasks of the process.                                     *)
LEMMA Tasked ==
    /\ Threads = {Main, Helper} /\ Main # Helper /\ Main \in Tasks /\ Helper \in Tasks
    /\ Handles \subseteq Tasks /\ MaxStops \in Nat /\ Main # NULL
  BY CoreAssumption, ApplicationAssumption DEF CoreAssumption, ApplicationAssumption

(* Inheriting a mask keeps the runtime well-typed.                         *)
LEMMA InheritTypes ==
    ASSUME RuntimeTypeOK, NEW t, NEW h \in Tasks, Inherit(t, h)
    PROVE  RuntimeTypeOK'
  BY DEF RuntimeTypeOK, Inherit

(* Nothing is inside when the core is stopped or running.                  *)
LEMMA NobodyInside ==
    ASSUME Places, core_state \in {"STOPPED", "RUNNING"}, NEW t \in Threads
    PROVE  at[t] = "out"
  BY DEF Places, Control, Inside

-----------------------------------------------------------------------------
(* A step that concerns neither main nor the core: at most a thread ends.  *)
LEMMA AsideStep ==
    ASSUME MainInvariant, UNCHANGED <<core_state, at, ret, mainVars, runtimeVars>>,
           UNCHANGED threadVars \/ \E h \in Handles : ThreadReturns(h)
    PROVE  MainInvariant'
<1>1. AllFree => AllFree'
  BY DEF AllFree, InLife, threadVars, ThreadReturns
<1>2. InLife({"running"})' \subseteq InLife({"running"})
  <2>1. ASSUME UNCHANGED life PROVE InLife({"running"})' \subseteq InLife({"running"})
    BY <2>1 DEF InLife
  <2>2. ASSUME NEW h \in Handles, NEW k \in Handles, ThreadReturns(h), life'[k] = "running" PROVE life[k] = "running"
    BY <2>2 DEF ThreadReturns
  <2> QED  BY <2>1, <2>2 DEF threadVars, InLife
<1>3. MainVariables'
  BY DEF MainInvariant, MainVariables, RuntimeTypeOK, mainVars, runtimeVars
<1>4. Before' /\ Masks' /\ Alone'
  BY <1>1, <1>2 DEF MainInvariant, Before, Masks, Alone, mainVars, runtimeVars
<1> QED  BY <1>3, <1>4 DEF MainInvariant

(* A step of a thread in sys_core_init or sys_core_shutdown.               *)
LEMMA InsideStep ==
    ASSUME CoreVariables, Places, Accounts, Results, MainInvariant, ~Over,
           NEW t \in Threads, CoreStep(t), at[t] # "out", UNCHANGED mainVars
    PROVE  MainInvariant'
<1> USE Tasked
<1>1. core_state \notin {"STOPPED", "RUNNING"}
  BY NobodyInside
<1>2. main_pc \notin {"create", "start_helper", "exit"} /\ t \in blocked /\ ~killed
  BY <1>1 DEF MainInvariant, Before, Masks, Over
<1>3. MainVariables'
  BY RunningStep, InheritTypes DEF MainInvariant, MainVariables, RuntimeTypeOK, mainVars, runtimeVars
<1>4. Before'
  BY <1>2 DEF Before, mainVars
<1>5. Masks'
  <2>1. blocked \subseteq blocked' /\ InLife({"running"})' \subseteq blocked'
    BY <1>2, RunningStep DEF MainInvariant, Masks, Inherit, runtimeVars
  <2>2. UNCHANGED <<owner, previous_mask, killed>>
    BY RunningStep DEF Inherit, runtimeVars
  <2> QED  BY <1>2, <2>1, <2>2 DEF MainInvariant, Masks, mainVars
<1>6. ASSUME controllers = {Main}
      PROVE  Alone'
  <2>1. t = Main /\ at[Helper] = "out" /\ main_pc \in {"initializing", "shutting_down"}
    BY <1>1, <1>6 DEF MainInvariant, MainVariables, Alone
  <2>2. CASE CoreReturns(t)
    <3>1. /\ at'[Main] = "out" /\ at'[Helper] = "out" /\ UNCHANGED <<ret, life>>
          /\ at[Main] \in {"init_done", "rolled_back", "stop_done"}
          /\ core_state' = IF at[t] = "init_done" THEN "RUNNING" ELSE "STOPPED"
      BY <2>1, <2>2 DEF CoreReturns, Goes, CoreVariables, threadVars
    <3>2. at[Main] = "stop_done" /\ ret[Main] = "ok" => AllFree'
      BY <3>1 DEF Accounts, AllFree, InLife
    <3>3. at[Main] = "init_done" => ret[Main] = "ok"
      BY <2>1 DEF Results
    <3>4. at[Main] = "rolled_back" => ret[Main] # "ok"
      BY <2>1 DEF Results
    <3> QED
      BY <1>6, <2>1, <3>1, <3>2, <3>3, <3>4
      DEF MainInvariant, Alone, mainVars, InitPoints, ShutdownPoints, UpPCs, DownPCs
  <2>3. CASE ~CoreReturns(t)
    <3>1. /\ at[Main] \in InitPoints => at'[Main] \in InitPoints
          /\ at[Main] \in ShutdownPoints => at'[Main] \in ShutdownPoints
          /\ at'[Helper] = "out"
      BY <2>1, <2>3, CorePath
    <3> QED  BY <1>6, <2>1, <3>1 DEF MainInvariant, Alone, mainVars, UpPCs, DownPCs
  <2> QED  BY <2>2, <2>3
<1>7. Alone'
  BY <1>6 DEF Alone, mainVars
<1> QED  BY <1>3, <1>4, <1>5, <1>7 DEF MainInvariant

(* Helper calls sys_core_init or sys_core_shutdown.                        *)
LEMMA HelperControlsStep ==
    ASSUME MainInvariant, ~Over, HelperControls
    PROVE  MainInvariant'
<1> USE Tasked
<1>1. main_pc \notin {"create", "start_helper"}
  BY DEF HelperControls, Live, MainInvariant, Before, AllFree, InLife
<1>2. UNCHANGED <<main_pc, exit_code, threadVars, runtimeVars>> /\ controllers' = controllers \union {Helper}
  BY DEF HelperControls, CoreInit, CoreShutdown
<1>3. MainVariables'
  BY <1>2 DEF MainInvariant, MainVariables, RuntimeTypeOK, runtimeVars
<1>4. Before' /\ Masks'
  BY <1>1, <1>2 DEF MainInvariant, Before, Masks, InLife, runtimeVars, threadVars
<1>5. controllers' # {Main}
  BY <1>2
<1> QED  BY <1>3, <1>4, <1>5 DEF MainInvariant, Alone

(* A stop is requested, or a signal arrives.                               *)
LEMMA AsynchronousStep ==
    ASSUME MainInvariant, ~Over, UNCHANGED <<frameworkVars, mainVars>>,
           RuntimeRequestStop \/ \E s \in Signals : Raise(s, Live)
    PROVE  MainInvariant'
<1> USE Tasked
<1>1. UNCHANGED <<core_state, at, ret, life>>
  BY DEF frameworkVars, coreVars, threadVars
<1>2. MainVariables'
  <2>1. CASE RuntimeRequestStop
    BY <2>1 DEF MainInvariant, MainVariables, RuntimeTypeOK, RuntimeRequestStop, mainVars
  <2>2. CASE \E s \in Signals : Raise(s, Live)
    BY <2>2 DEF MainInvariant, MainVariables, RuntimeTypeOK, Raise, Kills, mainVars
  <2> QED  BY <2>1, <2>2
<1>3. UNCHANGED <<owner, previous_mask, blocked>>
  BY DEF RuntimeRequestStop, Raise
<1>4. killed' => main_pc = "create"
  <2>1. main_pc \notin {"create", "exit"} => Live \subseteq blocked
    BY DEF Live, MainInvariant, Masks
  <2> QED  BY <2>1 DEF Over, RuntimeRequestStop, Raise, Kills
<1>5. Before' /\ Masks' /\ Alone'
  BY <1>1, <1>3, <1>4 DEF MainInvariant, Before, Masks, Alone, AllFree, InLife, mainVars
<1> QED  BY <1>2, <1>5 DEF MainInvariant

-----------------------------------------------------------------------------
(* main creates the runtime, and the thread Helper.                        *)
LEMMA CreateStep ==
    ASSUME MainInvariant, ~Over, MainCreates \/ StartHelper
    PROVE  MainInvariant'
<1> USE Tasked
<1>1. UNCHANGED <<core_state, at, ret, life>> /\ main_pc \in {"create", "start_helper"}
  BY DEF MainCreates, StartHelper, frameworkVars, coreVars, threadVars
<1>2. core_state = "STOPPED" /\ AllFree /\ controllers = {Main} /\ at[Helper] = "out" /\ InLife({"running"}) = {}
  BY <1>1 DEF MainInvariant, Before, Alone, AllFree, InLife
<1>3. AllFree' /\ InLife({"running"})' = {}
  BY <1>1, <1>2 DEF AllFree, InLife
<1>4. CASE main_pc = "create" /\ RuntimeCreate(Main) /\ MainGoes("start_helper")
  <2>1. MainVariables'
    BY <1>4 DEF MainInvariant, MainVariables, RuntimeTypeOK, RuntimeCreate, MaskAfterCreate, MainGoes, DownPCs
  <2>2. Before' /\ Masks' /\ Alone'
    BY <1>1, <1>2, <1>3, <1>4
    DEF MainInvariant, Before, Masks, Alone, Over, RuntimeCreate, MaskAfterCreate, MainGoes, DownPCs, UpPCs
  <2> QED  BY <2>1, <2>2 DEF MainInvariant
<1>5. CASE main_pc = "create" /\ UNCHANGED runtimeVars /\ MainFails("exit")
  <2>1. MainVariables'
    BY <1>5 DEF MainInvariant, MainVariables, RuntimeTypeOK, runtimeVars, MainFails, DownPCs
  <2>2. Before' /\ Masks' /\ Alone'
    BY <1>1, <1>2, <1>3, <1>5
    DEF MainInvariant, Before, Masks, Alone, Over, runtimeVars, MainFails, DownPCs, UpPCs
  <2> QED  BY <2>1, <2>2 DEF MainInvariant
<1>6. CASE main_pc = "start_helper" /\ Inherit(Main, Helper) /\ MainGoes("init")
  <2>1. MainVariables'
    BY <1>6, InheritTypes DEF MainInvariant, MainVariables, MainGoes, DownPCs
  <2>2. Before' /\ Masks' /\ Alone'
    BY <1>1, <1>2, <1>3, <1>6
    DEF MainInvariant, Before, Masks, Alone, Over, Inherit, MainGoes, DownPCs, UpPCs
  <2> QED  BY <2>1, <2>2 DEF MainInvariant
<1> QED  BY <1>4, <1>5, <1>6 DEF MainCreates, StartHelper

(* main goes on, and leaves the runtime and the threads alone.             *)
LEMMA MainKeeps ==
    ASSUME MainInvariant, ~Over, UNCHANGED <<runtimeVars, life, controllers>>,
           main_pc \notin {"create", "start_helper", "exit"},
           main_pc' \in (DownPCs \union UpPCs \union {"initializing", "shutting_down"})
                            \ {"create", "start_helper", "exit"},
           exit_code' \in {exit_code, 1}, controllers = {Main} => Alone'
    PROVE  MainInvariant'
<1>1. MainVariables'
  BY DEF MainInvariant, MainVariables, RuntimeTypeOK, runtimeVars
<1>2. Before' /\ Masks'
  BY DEF MainInvariant, Before, Masks, runtimeVars, InLife
<1>3. Alone'
  BY DEF Alone
<1> QED  BY <1>1, <1>2, <1>3 DEF MainInvariant

(* main initializes the core.                                              *)
LEMMA InitStep ==
    ASSUME CoreVariables, MainInvariant, ~Over, MainInits
    PROVE  MainInvariant'
<1> USE Tasked
<1>1. UNCHANGED <<runtimeVars, life, controllers>>
  BY DEF MainInits, CoreInit, threadVars, vars, frameworkVars, MainGoes, MainFails
<1>2. CASE main_pc = "init" /\ CoreInit(Main) /\ MainGoes("initializing")
  <2>1. ASSUME controllers = {Main} PROVE Alone'
    <3>1. MayInit /\ at[Helper] = "out"
      BY <1>2, <2>1 DEF MayInit, MainInvariant, Alone, DownPCs
    <3>2. at'[Main] = "init_reset" /\ at'[Helper] = "out"
      BY <1>2, <3>1 DEF CoreInit, Goes, CoreVariables
    <3> QED  BY <1>2, <3>2 DEF Alone, MainGoes, DownPCs, UpPCs, InitPoints
  <2> QED  BY <1>1, <1>2, <2>1, MainKeeps DEF MainGoes
<1>3. CASE main_pc = "initializing" /\ at[Main] = "out" /\ UNCHANGED vars
           /\ IF ret[Main] = "ok" THEN MainGoes(AfterInit) ELSE MainFails(AfterInit)
  <2>1. UNCHANGED <<core_state, at, ret>>
    BY <1>3 DEF vars, frameworkVars, coreVars
  <2>2. /\ main_pc' = AfterInit /\ exit_code' \in {exit_code, 1}
        /\ main_pc' = "start_stream" <=> ret[Main] = "ok"
        /\ main_pc' \in {"start_stream", "destroy"}
        /\ main_pc' = "destroy" => exit_code' = 1
    BY <1>3 DEF AfterInit, MainGoes, MainFails
  <2>3. ASSUME controllers = {Main} PROVE Alone'
    <3>1. at[Helper] = "out" /\ core_state = (IF ret[Main] = "ok" THEN "RUNNING" ELSE "STOPPED")
      BY <1>3, <2>3 DEF MainInvariant, Alone, InitPoints
    <3> QED  BY <2>1, <2>2, <3>1 DEF Alone, DownPCs, UpPCs
  <2> QED  BY <1>1, <1>3, <2>2, <2>3, MainKeeps DEF DownPCs, UpPCs
<1> QED  BY <1>2, <1>3 DEF MainInits

(* main calls the camera and waits.                                        *)
LEMMA StreamStep ==
    ASSUME MainInvariant, ~Over, MainStreams
    PROVE  MainInvariant'
<1>1. UNCHANGED <<core_state, at, ret, life, runtimeVars, threadVars>> /\ main_pc \in {"start_stream", "stop_stream"}
  BY DEF MainStreams, Acquire, Release, vars, frameworkVars, coreVars, threadVars
<1>2. CASE UNCHANGED mainVars
  BY <1>1, <1>2, AsideStep
<1>3. CASE main_pc' \in {"wait", "shutdown"} /\ exit_code' \in {exit_code, 1} /\ UNCHANGED controllers
  <2>1. controllers = {Main} => Alone'
    BY <1>1, <1>3 DEF MainInvariant, Alone, UpPCs, DownPCs
  <2> QED  BY <1>1, <1>3, <2>1, MainKeeps DEF UpPCs, DownPCs
<1> QED  BY <1>2, <1>3 DEF MainStreams, MainGoes, MainFails

(* The wait ends, and main goes on to stop the stream.                     *)
LEMMA WaitStep ==
    ASSUME MainInvariant, ~Over, MainWaits
    PROVE  MainInvariant'
<1> USE Tasked
<1>1. UNCHANGED <<core_state, at, ret, life>>
  BY DEF MainWaits, frameworkVars, coreVars, threadVars
<1>2. /\ main_pc = "wait" /\ main_pc' = "stop_stream" /\ exit_code' \in {exit_code, 1} /\ UNCHANGED controllers
      /\ \E r \in {"cancelled", "timeout", "would_block"} : WaitReturns(r)
  BY DEF MainWaits, MainGoes, MainFails
<1>3. /\ UNCHANGED <<owner, previous_mask, blocked, raised, killed>>
      /\ pending' \subseteq pending /\ stop_count' \in {0, stop_count}
  BY <1>2 DEF WaitReturns
<1>4. MainVariables'
  BY <1>2, <1>3 DEF MainInvariant, MainVariables, RuntimeTypeOK, UpPCs
<1>5. Before' /\ Masks' /\ Alone'
  BY <1>1, <1>2, <1>3 DEF MainInvariant, Before, Masks, Alone, InLife, UpPCs, DownPCs
<1> QED  BY <1>4, <1>5 DEF MainInvariant

(* main shuts the core down.                                               *)
LEMMA ShutdownStep ==
    ASSUME CoreVariables, MainInvariant, ~Over, MainShutsDown
    PROVE  MainInvariant'
<1> USE Tasked
<1>1. UNCHANGED <<runtimeVars, life, controllers>>
  BY DEF MainShutsDown, CoreShutdown, threadVars, vars, frameworkVars, MainGoes, MainFails
<1>2. CASE main_pc = "shutdown" /\ CoreShutdown(Main) /\ MainGoes("shutting_down")
  <2>1. ASSUME controllers = {Main} PROVE Alone'
    <3>1. MayShutdown /\ at[Helper] = "out"
      BY <1>2, <2>1 DEF MayShutdown, MainInvariant, Alone, UpPCs
    <3>2. at'[Main] = "stop_components" /\ at'[Helper] = "out"
      BY <1>2, <3>1 DEF CoreShutdown, Goes, CoreVariables
    <3> QED  BY <1>2, <3>2 DEF Alone, MainGoes, DownPCs, UpPCs, ShutdownPoints
  <2> QED  BY <1>1, <1>2, <2>1, MainKeeps DEF MainGoes
<1>3. CASE main_pc = "shutting_down" /\ at[Main] = "out" /\ UNCHANGED vars
           /\ IF ret[Main] = "ok" THEN MainGoes("destroy") ELSE MainFails("destroy")
  <2>1. UNCHANGED <<core_state, at, ret>>
    BY <1>3 DEF vars, frameworkVars, coreVars
  <2>2. main_pc' = "destroy" /\ exit_code' \in {exit_code, 1} /\ (exit_code' = 0 => ret[Main] = "ok")
    BY <1>3 DEF MainGoes, MainFails
  <2>3. ASSUME controllers = {Main} PROVE Alone'
    <3>1. at[Helper] = "out" /\ core_state = "STOPPED" /\ (ret[Main] = "ok" => AllFree)
      BY <1>3, <2>3 DEF MainInvariant, Alone, ShutdownPoints
    <3>2. AllFree => AllFree'
      BY <1>1 DEF AllFree, InLife
    <3> QED  BY <2>1, <2>2, <3>1, <3>2 DEF Alone, UpPCs
  <2> QED  BY <1>1, <1>3, <2>2, <2>3, MainKeeps DEF DownPCs, UpPCs
<1> QED  BY <1>2, <1>3 DEF MainShutsDown

(* main destroys the runtime and returns.                                  *)
LEMMA DestroyStep ==
    ASSUME MainInvariant, ~Over, MainDestroys
    PROVE  MainInvariant'
<1> USE Tasked
<1>1. UNCHANGED <<core_state, at, ret, life>> /\ main_pc = "destroy"
  BY DEF MainDestroys, frameworkVars, coreVars, threadVars
<1>2. main_pc' = "exit" /\ exit_code' \in {exit_code, 1} /\ UNCHANGED controllers
  BY DEF MainDestroys, MainGoes, MainFails
<1>3. /\ owner' = NULL /\ blocked' = blocked \ {Main} /\ stop_count' = 0 /\ killed' \in BOOLEAN
      /\ UNCHANGED <<previous_mask, pending, raised>>
  BY <1>1 DEF MainDestroys, RuntimeDestroy, MaskAfterDestroy, Kills, MainInvariant, Masks
<1>4. MainVariables'
  BY <1>2, <1>3 DEF MainInvariant, MainVariables, RuntimeTypeOK, DownPCs
<1>5. Before' /\ Masks' /\ Alone'
  BY <1>1, <1>2, <1>3 DEF MainInvariant, Before, Masks, Alone, AllFree, InLife, UpPCs, DownPCs
<1> QED  BY <1>4, <1>5 DEF MainInvariant

-----------------------------------------------------------------------------
(* main stands where it should after every step of the process.            *)
LEMMA MainInvariantStep ==
    CoreVariables /\ Places /\ Accounts /\ Results /\ MainInvariant /\ [Next]_allVars => MainInvariant'
<1> SUFFICES ASSUME CoreVariables, Places, Accounts, Results, MainInvariant, [Next]_allVars
             PROVE  MainInvariant'
  OBVIOUS
<1>1. CASE UNCHANGED allVars
  <2>1. UNCHANGED <<core_state, at, ret, mainVars, runtimeVars, threadVars>>
    BY <1>1 DEF allVars, vars, frameworkVars, coreVars
  <2> QED  BY <2>1, AsideStep
<1>2. ASSUME ~Over, NEW t \in Threads, CoreStep(t), UNCHANGED mainVars PROVE MainInvariant'
  <2>1. at[t] # "out"
    BY <1>2 DEF CoreStep, CoreReturns, ResetRegistry, StartBus, StopBus, CheckThreads, CallComponents,
       BetweenCallbacks, CallbackReturns, InCallback, UseRegistry, UseBus, UseThread, RunsComponents,
       AfterReset, AfterBus
  <2> QED  BY <1>2, <2>1, InsideStep
<1>3. ASSUME UNCHANGED mainVars,
             \/ \E t \in Threads : HealthChecked(t) \/ CallbackEnds(t) \/ Release(t) \/ PublishInCall(t)
             \/ CallbackEnds(Worker)
             \/ \E t \in Threads : (\E c \in Providers : Acquire(t, c)) \/ (\E c \in Checked : CheckHealth(t, c))
      PROVE  MainInvariant'
  <2>1. UNCHANGED <<core_state, at, ret, runtimeVars, threadVars>>
    BY <1>3 DEF HealthChecked, CallbackEnds, Release, PublishInCall, Acquire, CheckHealth, coreVars
  <2> QED  BY <1>3, <2>1, AsideStep
<1>4. ASSUME UNCHANGED mainVars, WorkerRuns \/ \E c \in Producers : ProducerEnds(c) PROVE MainInvariant'
  <2>1. Worker \in Handles /\ Producers \subseteq Handles
    BY CoreAssumption DEF CoreAssumption
  <2>2. UNCHANGED <<core_state, at, ret, runtimeVars>>
    BY <1>4 DEF WorkerRuns, ProducerEnds, coreVars
  <2>3. UNCHANGED threadVars \/ \E h \in Handles : ThreadReturns(h)
    BY <1>4, <2>1 DEF WorkerRuns, ProducerEnds
  <2> QED  BY <1>4, <2>2, <2>3, AsideStep
<1>5. ASSUME ~Over, MainStep PROVE MainInvariant'
  BY <1>5, CreateStep, InitStep, StreamStep, WaitStep, ShutdownStep, DestroyStep DEF MainStep
<1>6. ASSUME ~Over, NEW t \in Threads, ThreadStep(t) PROVE MainInvariant'
  BY <1>2, <1>3, <1>5, <1>6 DEF ThreadStep
<1>7. ASSUME ~Over, HelperActs PROVE MainInvariant'
  <2>1. Helper \in Threads
    BY Tasked
  <2> QED  BY <1>3, <1>7, <2>1, AsynchronousStep DEF HelperActs
<1>8. ASSUME ~Over, SignalArrives PROVE MainInvariant'
  BY <1>8, AsynchronousStep DEF SignalArrives
<1>9. ASSUME ~Over, WorkerStep \/ \E c \in Producers : ProducerStep(c) PROVE MainInvariant'
  BY <1>3, <1>4, <1>9 DEF WorkerStep, ProducerStep
<1> QED
  BY <1>1, <1>3, <1>6, <1>7, <1>8, <1>9, HelperControlsStep DEF Next

(* And where it should when it begins.                                     *)
LEMMA MainInvariantInit == Init => MainInvariant
<1> SUFFICES ASSUME Init PROVE MainInvariant
  OBVIOUS
<1> USE Tasked
<1>1. MainVariables
  <2>1. RuntimeInit /\ main_pc = "create" /\ exit_code = 0 /\ controllers = {Main}
    BY DEF Init
  <2>2. stop_count \in 0..MaxStops
    BY <2>1 DEF RuntimeInit
  <2>3. RuntimeTypeOK
    BY <2>1, <2>2, Zenon DEF RuntimeInit, RuntimeTypeOK
  <2>4. controllers \subseteq Threads
    BY <2>1
  <2> QED  BY <2>1, <2>3, <2>4, SMT DEF MainVariables, DownPCs
<1>2. Before
  BY DEF Init, CoreStart, ThreadInit, Before, AllFree, InLife
<1>3. Masks
  BY DEF Init, RuntimeInit, Masks
<1>4. Alone
  BY DEF Init, CoreStart, Alone, DownPCs, UpPCs
<1> QED  BY <1>1, <1>2, <1>3, <1>4 DEF MainInvariant

(* The invariant of main holds.                                            *)
THEOREM MainInOrder == Spec => []MainInvariant
<1>1. Spec => [](CoreVariables /\ Places /\ Accounts /\ Results)
  BY FrameworkRefined, FrameworkInOrder, ResultsHold, PTL DEF CoreInvariant
<1> QED  BY <1>1, MainInvariantInit, MainInvariantStep, PTL DEF Spec

(* Every variable of the process has its type.                             *)
THEOREM TypeCorrect == Spec => []TypeOK
<1>1. ASSUME Parts, CoreInvariant, MainInvariant PROVE TypeOK
  <2>1. CoreVariables /\ ThreadsCounted /\ MainVariables
    BY <1>1 DEF CoreInvariant, Accounts, MainInvariant
  <2>2. active_count \in Nat /\ unjoined_count \in Nat
    BY <2>1, HandlesFinite, FS_Subset, FS_CardinalityType DEF ThreadsCounted, InLife
  <2>3. C!TypeOK /\ E!TypeOK /\ S!TypeOK
    BY <1>1 DEF Parts
  <2>4. CoreTypeOK
    BY <2>1, <2>2, <2>3 DEF CoreTypeOK, CoreVariables, ThreadTypeOK, MainVariables
  <2> QED  BY <2>1, <2>4 DEF TypeOK, MainVariables, DownPCs, UpPCs
<1> QED  BY <1>1, FrameworkRefined, FrameworkInOrder, MainInOrder, PTL

(* A process whose main alone controls the core ends in good order, by     *)
(* main's return or by a signal, whatever fails in it.                     *)
THEOREM ProcessEndsInOrder == Spec => []EndsInOrder
<1>1. ASSUME CoreStateTruthful, MainInvariant PROVE EndsInOrder
  <2>1. ASSUME Over, controllers = {Main} PROVE main_pc \in DownPCs /\ core_state = "STOPPED"
    BY <1>1, <2>1 DEF Over, MainInvariant, Masks, Alone, DownPCs
  <2>2. ASSUME Over, controllers = {Main} PROVE alive = {}
    BY <1>1, <2>1, <2>2 DEF CoreStateTruthful
  <2>3. ASSUME Over, controllers = {Main}, ~killed, exit_code = 0
        PROVE  InLife({"free"}) = Handles /\ Main \notin blocked
    BY <1>1, <2>3 DEF Over, MainInvariant, Masks, Alone, AllFree
  <2> QED  BY <2>1, <2>2, <2>3 DEF EndsInOrder
<1> QED  BY <1>1, FrameworkHolds, MainInOrder, PTL
=============================================================================
