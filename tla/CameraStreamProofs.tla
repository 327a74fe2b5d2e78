-------------------------- MODULE CameraStreamProofs --------------------------
(***************************************************************************)
(* Proofs about CameraStream, for any number of threads, streams, blocks   *)
(* and starts of the core.  Turns says which thread is in the middle of a  *)
(* start or a stop, Owners who owns the handles of each stream, and        *)
(* Undisturbed what the client rule quiet adds.                            *)
(***************************************************************************)
EXTENDS CameraStream, SequenceTheorems, WellFoundedInduction, TLAPS

USE CameraAssumption

(* The places of camera_real_start after its unlock, and of the rest of a  *)
(* rollback or camera_real_stop.                                           *)
StartingPlaces == {"publish_started", "attach", "started", "rollback"}
StoppingPlaces == {"halt", "join", "publish_stopping", "cleanup", "wait_idle", "finish"}

(* Those of sys_core_init, of the deinit callbacks, and those where a      *)
(* subscription is being made or taken back.                               *)
InitPlaces == {"init_camera", "init_zlmedia", "subscribe_stopping", "register", "starting"}
EndPlaces == {"unsubscribe", "await_stopping", "await_started", "close", "await_calls"}
CorePlaces == InitPlaces \union EndPlaces
Subscribing == {"subscribe_stopping", "register", "unsubscribe", "await_stopping", "await_started"}

Detaches(t, place) == call[t].at \in Detaching /\ call[t].resume = place

(* The steps of the core's owner outside the camera's start and stop.      *)
Lifecycle(t) ==
    \/ InitCamera(t) \/ SubscribeStarted(t) \/ SubscribeStopping(t) \/ Register(t)
    \/ StartNext(t) \/ InitDone(t) \/ InitFails(t)
    \/ Unsubscribe(t) \/ AwaitStopping(t) \/ AwaitStarted(t) \/ Close(t) \/ AwaitCalls(t)

(* A thread is in the middle of a start or a stop of the camera.           *)
Busy(t) == call[t].at \in StartingPlaces \union StoppingPlaces \/ Detaches(t, "cleanup")

(* The core is stopped when every call has returned.  Who is in an         *)
(* initialization or in the deinit callbacks is the thread that owns the   *)
(* core, ...                                                               *)
Owned ==
    /\ core.owner = "nobody" <=> core.state \in {"STOPPED", "RUNNING"}
    /\ core.state = "STOPPED" => ~core.open /\ \A t \in Threads : call[t].at = "ready"
    /\ \A t \in Threads :
         /\ call[t].at \in CorePlaces \/ Detaches(t, "stop") => core.owner = t
         /\ core.owner = t => call[t].at \notin {"ready", "start"} \union StartingPlaces
         /\ call[t].at = "init_camera" =>
                ~core.open /\ \A u \in Threads \ {t} : call[u].at = "ready"

(* ... which initializes the camera first and takes it down last.          *)
Layered ==
    /\ core.open \/ "zlmedia" \in core.built => "camera" \in core.built
    /\ core.state = "STOPPED" => core.built = {}
    /\ core.state = "RUNNING" => core.started = core.built /\ "camera" \in core.built
    /\ \A t \in Threads :
         /\ call[t].at = "init_camera" => core.built = {}
         /\ call[t].at = "await_calls" => ~core.open
         /\ call[t].at \in {"close", "await_calls"} => "zlmedia" \notin core.built
         /\ call[t].at \in CorePlaces \ {"init_camera", "await_calls"} => "camera" \in core.built

CoreOK == Owned /\ Layered

(* The handles of the camera are given up one after the other.             *)
HandlesOK ==
    /\ pools = {camera.pool} \ {None}
    /\ camera.thread # None => camera.thread = camera.channel
    /\ camera.channel # None => camera.channel = camera.pool
    /\ camera.pool # None => camera.pool = generation
    /\ camera.state \in {"STARTING", "RUNNING"} => camera.thread # None
    /\ camera.state = "STOPPED" => ~camera.streaming

(* One thread at a time is in the middle of a start or a stop, the state   *)
(* of the camera says so, and its place tells which handles are left.      *)
Turns ==
    /\ \A t, u \in Threads : Busy(t) /\ Busy(u) => t = u
    /\ camera.state \in {"STARTING", "STOPPING"} => \E t \in Threads : Busy(t)
    /\ \A t \in Threads :
         /\ call[t].at \in StartingPlaces => camera.state = "STARTING" /\ call[t].gen = generation
         /\ Busy(t) /\ call[t].at \notin StartingPlaces => camera.state = "STOPPING"
         /\ call[t].at \in {"halt", "join"} => camera.thread # None
         /\ call[t].at \in {"publish_stopping", "cleanup"} \/ Detaches(t, "cleanup") =>
                camera.thread = None /\ camera.channel # None
         /\ call[t].at = "wait_idle" => camera.channel = None /\ camera.pool # None
         /\ call[t].at = "finish" => camera.channel = None
         /\ Busy(t) /\ call[t].at \notin StartingPlaces \union {"halt"} => ~camera.streaming

(* A thread that runs has its handle with the camera, and has a block in   *)
(* its hands where its loop says so; the camera's reference is where its   *)
(* handle says.                                                            *)
ProducerOwned ==
    \A g \in Generations :
      /\ Unjoined(producer[g]) <=> camera.thread = g
      /\ producer[g].frame # None <=> producer[g].at \in {"frame", "sent", "rejected"}
CameraOwned ==
    \A g \in Generations : "camera" \in channel[g].holders <=> camera.channel = g

(* Likewise for zlmedia; but a thread that detaches takes the handles over. *)
ConsumerOwned ==
    \A g \in Generations :
      /\ Unjoined(consumer[g]) <=>
             zl.channel = g \/ \E t \in Threads : call[t].at = "detach_join" /\ call[t].channel = g
      /\ consumer[g].frame # None <=> consumer[g].at = "frame"
ZlmediaOwned ==
    \A g \in Generations : "zlmedia" \in channel[g].holders <=>
        zl.channel = g \/ \E t \in Threads : call[t].channel = g

(* Blocks in use are those of the camera's pool.                           *)
BlocksOwned == \A g \in Generations : ~Idle(g) => camera.pool = g

Owners == ProducerOwned /\ CameraOwned /\ ConsumerOwned /\ ZlmediaOwned /\ BlocksOwned

(* The consumer of a stream is attached once, and detached by one thread.  *)
AttachedOnce ==
    /\ zl.thread = zl.channel
    /\ zl.running => zl.channel # None
    /\ \A g \in Generations : g > generation => consumer[g].at = "none"
    /\ generation # None /\ consumer[generation].at # "none" => zl.generation = generation
    /\ zl.channel # None => consumer[zl.channel].at # "none"
DetachedOnce ==
    /\ \A t, u \in Threads : call[t].channel = call[u].channel => t = u \/ call[t].channel = None
    /\ \A t \in Threads :
         /\ call[t].at \in {"publish_started", "attach"} => consumer[generation].at = "none"
         /\ call[t].channel # None => /\ call[t].channel # zl.channel
                                      /\ consumer[call[t].channel].at # "none"
         /\ call[t].at = "detach_join" => call[t].thread = call[t].channel /\ call[t].thread # None
         /\ call[t].at \notin {"detach_join", "detach_release"} => call[t].channel = None

Attached == AttachedOnce /\ DetachedOnce

Invariant == TypeOK /\ CoreOK /\ HandlesOK /\ Turns /\ Owners /\ Attached

(* What the rule adds.  An initialization or a shutdown has the service    *)
(* for itself, ...                                                         *)
Alone == \A t \in Threads : core.owner \notin {"nobody", t} => call[t].at = "ready"

(* ... so every handshake reaches zlmedia if it has been initialized, ...  *)
Subscribed ==
    /\ \A t \in Threads : /\ call[t].at = "register" => core.subscribed = {"started", "stopping"}
                          /\ call[t].at = "await_started" => core.subscribed = {}
    /\ (\A t \in Threads : call[t].at \notin Subscribing) =>
           core.subscribed = IF "zlmedia" \in core.built THEN {"started", "stopping"} ELSE {}

(* ... and there is no consumer if it has not, ...                         *)
Consumed ==
    /\ \A t \in Threads : call[t].at = "attach" => "zlmedia" \in core.built
    /\ "zlmedia" \notin core.built => \A g \in Generations : "zlmedia" \notin channel[g].holders

(* ... a stop ends well, and comes before the deinit callbacks, ...        *)
StoppedInTime ==
    /\ camera.state # "ERROR"
    /\ camera.state = "STOPPED" => camera.pool = None
    /\ core.state = "STOPPED" \/ (\E t \in Threads : call[t].at \in CorePlaces) =>
           camera.state = "STOPPED"

(* ... and what a stop gives up, nobody else keeps.                        *)
NothingLeft ==
    /\ \A g \in Generations : channel[g].holders # {} => camera.channel = g
    /\ \A t \in Threads :
         /\ call[t].at \in {"detach_join", "detach_release"} => zl.channel = None
         /\ call[t].at = "cleanup" => "zlmedia" \notin channel[camera.channel].holders
         /\ call[t].at = "wait_idle" => Idle(camera.pool)
         /\ call[t].at = "finish" => camera.pool = None

Undisturbed == Quiet => Alone /\ Subscribed /\ Consumed /\ StoppedInTime /\ NothingLeft

-----------------------------------------------------------------------------
(* TypeOK, variable by variable.                                           *)
CameraType ==
    camera \in [state : {"STOPPED", "STARTING", "RUNNING", "STOPPING", "ERROR"},
                pool : 0..MaxStreams, channel : 0..MaxStreams, thread : 0..MaxStreams,
                streaming : BOOLEAN]
ZlmediaType ==
    zl \in [thread : 0..MaxStreams, channel : 0..MaxStreams, generation : 0..MaxStreams,
            running : BOOLEAN]
ChannelType ==
    channel \in [Generations -> [holders : SUBSET {"camera", "zlmedia"}, closed : BOOLEAN,
                                 queue : Seq(Blocks)]]
LoopType(f) == f \in [Generations -> [at : Loops, stop : BOOLEAN, frame : Blocks \union {None}]]
CoreType ==
    core \in [state : {"STOPPED", "STARTING", "RUNNING", "STOPPING"},
              owner : Threads \union {"nobody"},
              built : SUBSET {"camera", "zlmedia"}, started : SUBSET {"camera", "zlmedia"},
              open : BOOLEAN, subscribed : SUBSET {"started", "stopping"}, boots : 0..MaxBoots]
CallType ==
    call \in [Threads -> [at : Places, gen : 0..MaxStreams, thread : 0..MaxStreams,
                          channel : 0..MaxStreams, resume : {"cleanup", "stop"}]]
OthersType == generation \in 0..MaxStreams /\ pools \subseteq Generations
              /\ quiet \subseteq {"STARTING", "STOPPING"}

(* And so it is.                                                           *)
LEMMA TypeParts ==
    TypeOK <=> /\ CameraType /\ ZlmediaType /\ ChannelType /\ LoopType(producer)
               /\ LoopType(consumer) /\ CoreType /\ CallType /\ OthersType
<1>1. {producer, consumer} \subseteq
          [Generations -> [at : Loops, stop : BOOLEAN, frame : Blocks \union {None}]]
      <=> LoopType(producer) /\ LoopType(consumer)
  BY Zenon DEF LoopType
<1> QED
  BY <1>1, Zenon DEF TypeOK, CameraType, ZlmediaType, ChannelType, CoreType, CallType, OthersType

(* Generations and blocks are numbers.                                     *)
LEMMA Numbers ==
    /\ Generations \subseteq Nat /\ Generations = (0..MaxStreams) \ {None}
    /\ MaxStreams \in Nat /\ Blocks \subseteq Nat /\ None \notin Blocks
  BY DEF Generations, Blocks, None

(* Places at which threads arrive.                                         *)
LEMMA Named == {"publish_started", "halt", "cleanup", "stop", "detach"} \subseteq Places
  BY DEF Places

(* A thread that goes to another place.                                    *)
LEMMA GotoMoves ==
    ASSUME CallType, NEW t \in Threads, NEW p \in Places, Goto(t, p)
    PROVE  /\ CallType' /\ call'[t].at = p
           /\ call'[t].gen = call[t].gen /\ call'[t].thread = call[t].thread
           /\ call'[t].channel = call[t].channel /\ call'[t].resume = call[t].resume
           /\ \A u \in Threads \ {t} : call'[u] = call[u]
  BY DEF CallType, Goto

(* Where the teardown goes on.                                             *)
LEMMA WaysDown ==
    /\ AfterStop \in {"unsubscribe", "close", "await_calls"}
    /\ FirstDown \in {"detach", "stop"} \/ FirstDown = AfterStop
    /\ {"detach", "stop", "unsubscribe", "close", "await_calls", "ready"} \subseteq Places
  BY DEF AfterStop, FirstDown, Places

(* Return is such a step, out of the call or on to the deinit callbacks.   *)
LEMMA ReturnMoves ==
    ASSUME CallType, NEW t \in Threads, Return(t)
    PROVE  /\ CallType' /\ call'[t].at = IF core.owner = t THEN AfterStop ELSE "ready"
           /\ call'[t].thread = call[t].thread /\ call'[t].channel = call[t].channel
           /\ \A u \in Threads \ {t} : call'[u] = call[u]
<1>1. PICK p \in Places : p = IF core.owner = t THEN AfterStop ELSE "ready"
  BY WaysDown
<1>2. call' = [call EXCEPT ![t].at = p, ![t].gen = None, ![t].resume = "cleanup"]
  BY <1>1 DEF Return
<1>3. None \in 0..MaxStreams
  BY DEF None
<1> QED  BY <1>1, <1>2, <1>3 DEF CallType

(* The first step of a teardown.                                           *)
LEMMA DownMoves ==
    ASSUME CallType, NEW t \in Threads, Shutdown(t) \/ InitFails(t)
    PROVE  /\ CallType' /\ call'[t].at = FirstDown /\ call'[t].resume = "stop"
           /\ call'[t].gen = call[t].gen /\ call'[t].thread = call[t].thread
           /\ call'[t].channel = call[t].channel
           /\ \A u \in Threads \ {t} : call'[u] = call[u]
<1>1. PICK p \in Places : p = FirstDown
  BY WaysDown
<1>2. call' = [call EXCEPT ![t].at = p, ![t].resume = "stop"]
  BY <1>1 DEF Shutdown, InitFails
<1> QED  BY <1>1, <1>2 DEF CallType

(* A handle that is not None is that of a stream.                          *)
LEMMA HandleType ==
    ASSUME CameraType, ZlmediaType, CallType, OthersType
    PROVE  /\ \A h \in {camera.pool, camera.channel, camera.thread, zl.channel, zl.thread, generation} :
                  h # None => h \in Generations
           /\ \A t \in Threads : \A h \in {call[t].gen, call[t].thread, call[t].channel} :
                  h # None => h \in Generations
  BY Numbers DEF CameraType, ZlmediaType, CallType, OthersType

(* What the steps of the core's owner leave alone, and where they lead.    *)
LEMMA LifecycleMoves ==
    ASSUME TypeOK, NEW t \in Threads, Lifecycle(t)
    PROVE  /\ call[t].at \in CorePlaces /\ CallType'
           /\ UNCHANGED <<generation, pools, channel, producer, consumer, quiet>>
           /\ camera' = camera \/ InitCamera(t)
           /\ zl' = zl \/ SubscribeStarted(t)
           /\ call'[t].gen = call[t].gen /\ call'[t].thread = call[t].thread
           /\ call'[t].channel = call[t].channel
           /\ \A u \in Threads \ {t} : call'[u] = call[u]
           /\ call'[t].at \in CorePlaces \/ InitDone(t) \/ InitFails(t) \/ AwaitCalls(t)
           /\ InitDone(t) \/ AwaitCalls(t) => call'[t].at = "ready"
           /\ \/ call'[t].at \in CorePlaces \union {"ready"}
              \/ call'[t].at \in {"stop", "detach"} /\ call'[t].resume = "stop"
<1> USE TypeParts
<1> USE DEF CorePlaces, InitPlaces, EndPlaces
<1>1. call[t].at \in CorePlaces
  BY DEF Lifecycle, InitCamera, SubscribeStarted, SubscribeStopping, Register, StartNext, InitDone,
     InitFails, Unsubscribe, AwaitStopping, AwaitStarted, Close, AwaitCalls
<1>2. UNCHANGED <<generation, pools, channel, producer, consumer, quiet>>
  BY Zenon DEF Lifecycle, InitCamera, SubscribeStarted, SubscribeStopping, Register, StartNext,
     InitDone, InitFails, Unsubscribe, AwaitStopping, AwaitStarted, Close, AwaitCalls
<1>3. camera' = camera \/ InitCamera(t)
  BY Zenon DEF Lifecycle, SubscribeStarted, SubscribeStopping, Register, StartNext,
     InitDone, InitFails, Unsubscribe, AwaitStopping, AwaitStarted, Close, AwaitCalls
<1>4. zl' = zl \/ SubscribeStarted(t)
  BY Zenon DEF Lifecycle, InitCamera, SubscribeStopping, Register, StartNext,
     InitDone, InitFails, Unsubscribe, AwaitStopping, AwaitStarted, Close, AwaitCalls
<1>5. ASSUME InitDone(t) \/ AwaitCalls(t) PROVE Goto(t, "ready") /\ "ready" \in Places
  BY <1>5, WaysDown DEF InitDone, AwaitCalls
<1>6. InitDone(t) \/ AwaitCalls(t) => call'[t].at = "ready"
  BY <1>5, GotoMoves
<1> DEFINE Kept ==
           /\ CallType'
           /\ call'[t].gen = call[t].gen /\ call'[t].thread = call[t].thread
           /\ call'[t].channel = call[t].channel
           /\ \A u \in Threads \ {t} : call'[u] = call[u]
       Stays == call'[t].at \in CorePlaces
       Leaves ==
           \/ call'[t].at \in CorePlaces \union {"ready"}
           \/ call'[t].at \in {"stop", "detach"} /\ call'[t].resume = "stop"
<1>7. CASE InitFails(t)
  <2>1. Leaves
    BY <1>7, DownMoves, WaysDown
  <2> QED  BY <1>1, <1>2, <1>3, <1>4, <1>6, <1>7, <2>1, DownMoves
<1>8. ASSUME NEW p \in CorePlaces, Goto(t, p) PROVE Kept /\ Stays
  BY <1>8, GotoMoves DEF Places
<1>9. CASE InitCamera(t) \/ SubscribeStarted(t) \/ SubscribeStopping(t) \/ Register(t)
           \/ Unsubscribe(t) \/ AwaitStopping(t) \/ AwaitStarted(t) \/ Close(t)
  <2>1. \E p \in CorePlaces : Goto(t, p)
    BY <1>9 DEF InitCamera, SubscribeStarted, SubscribeStopping, Register, Unsubscribe,
       AwaitStopping, AwaitStarted, Close
  <2>2. Kept /\ Stays
    BY <1>8, <2>1
  <2> QED  BY <1>1, <1>2, <1>3, <1>4, <1>6, <2>2
<1>10. CASE StartNext(t)
  <2>1. call' = call /\ call[t].at = "starting"
    BY <1>10 DEF StartNext
  <2>2. Kept /\ Stays
    BY <2>1 DEF CallType
  <2> QED  BY <1>1, <1>2, <1>3, <1>4, <1>6, <2>2
<1>11. CASE InitDone(t) \/ AwaitCalls(t)
  <2>1. Kept
    BY <1>5, <1>11, GotoMoves
  <2> QED  BY <1>1, <1>2, <1>3, <1>4, <1>6, <1>11, <2>1
<1> QED  BY <1>7, <1>9, <1>10, <1>11 DEF Lifecycle

(* The steps of a call of the service, and of a stop or a detach in a      *)
(* teardown.                                                               *)
LEMMA CallMoves ==
    ASSUME TypeOK, NEW t \in Threads, Step(t), ~Lifecycle(t)
    PROVE  /\ core' = core
           /\ call[t].at \notin CorePlaces \union {"ready"}
           /\ \A u \in Threads \ {t} : call'[u] = call[u]
           /\ call'[t].at \notin InitPlaces
           /\ call'[t].at \in EndPlaces =>
                  /\ core.owner = t /\ call'[t].at = AfterStop
                  /\ \/ StartRefused(t) \/ StartWithoutProducer(t) \/ Started(t)
                     \/ StopRefused(t) \/ Finish(t)
<1> USE TypeParts
<1> USE DEF CorePlaces, InitPlaces, EndPlaces
<1>1. CASE StartRefused(t) \/ StartWithoutProducer(t) \/ Started(t) \/ StopRefused(t) \/ Finish(t)
  <2>1. core' = core /\ call[t].at \in {"start", "started", "stop", "finish"} /\ Return(t)
    BY <1>1 DEF StartRefused, StartWithoutProducer, Started, StopRefused, Finish
  <2> QED  BY <1>1, <2>1, ReturnMoves, WaysDown
<1>2. CASE \/ PublishStarted(t) \/ Attach(t) \/ AttachRefused(t) \/ AttachFails(t) \/ Rollback(t)
           \/ Halt(t) \/ Join(t) \/ Cleanup(t) \/ DestroyPool(t) \/ WaitTimeout(t) \/ DetachJoin(t)
  <2>1. \E p \in Places \ CorePlaces : Goto(t, p)
    BY <1>2 DEF PublishStarted, Attach, AttachRefused, AttachFails, Rollback, Halt, Join, Cleanup,
       DestroyPool, WaitTimeout, DetachJoin, AfterStarted, AfterJoin, Places
  <2>2. core' = core /\ call[t].at \notin CorePlaces \union {"ready"}
    BY <1>2 DEF PublishStarted, Attach, AttachRefused, AttachFails, Rollback, Halt, Join, Cleanup,
       DestroyPool, WaitTimeout, DetachJoin
  <2> QED  BY <2>1, <2>2, GotoMoves
<1>3. CASE Start(t) \/ Stop(t) \/ PublishStopping(t)
  <2>1. core' = core /\ call[t].at \notin CorePlaces \union {"ready"}
    BY <1>3 DEF Start, Stop, PublishStopping
  <2>2. CASE Start(t)
    BY <2>1, <2>2 DEF Start, CallType
  <2>3. CASE Stop(t)
    BY <2>1, <2>3 DEF Stop, CallType
  <2>4. CASE PublishStopping(t)
    BY <2>1, <2>4 DEF PublishStopping, CallType
  <2> QED  BY <1>3, <2>2, <2>3, <2>4
<1>4. CASE Detach(t)
  BY <1>4 DEF Detach, CallType
<1>5. CASE DetachRelease(t)
  BY <1>5 DEF DetachRelease, CallType
<1> QED  BY <1>1, <1>2, <1>3, <1>4, <1>5 DEF Step, Lifecycle

(* A step of a thread's call leaves the other threads where they are.      *)
LEMMA StepMoves ==
    ASSUME TypeOK, NEW t \in Threads, Step(t)
    PROVE  call[t].at # "ready" /\ \A u \in Threads \ {t} : call'[u] = call[u]
BY CallMoves, LifecycleMoves DEF CorePlaces, InitPlaces, EndPlaces

(* The places of a loop.                                                   *)
LEMMA LoopNames == {"loop", "receive", "frame", "sent", "rejected", "done", "joined"} \subseteq Loops
  BY DEF Loops

(* What is left of a loop by a step to another place, or by a stop token.  *)
LEMMA LoopUpdate ==
    ASSUME NEW f, LoopType(f), NEW g
    PROVE  /\ \A p \in Loops : LoopType([f EXCEPT ![g].at = p])
           /\ LoopType([f EXCEPT ![g] = StopRequested(f[g])])
<1>1. ASSUME NEW p \in Loops PROVE LoopType([f EXCEPT ![g].at = p])
  BY DEF LoopType
<1>2. LoopType([f EXCEPT ![g] = StopRequested(f[g])])
  BY DEF LoopType, StopRequested
<1> QED  BY <1>1, <1>2

(* The steps that change where a thread is change it as they should.       *)
LEMMA CallStep == ASSUME TypeOK, Next PROVE CallType'
<1> USE TypeParts
<1>1. ASSUME NEW t \in Threads, \E o \in {"start", "stop"} : Call(t, o) PROVE CallType'
  BY <1>1, GotoMoves DEF Call, Places
<1>2. ASSUME NEW t \in Threads, Return(t) PROVE CallType'
  BY <1>2, ReturnMoves
<1>3. ASSUME NEW t \in Threads, NEW p \in Places, Goto(t, p) PROVE CallType'
  BY <1>3, GotoMoves
<1>4. ASSUME NEW t \in Threads, Step(t) PROVE CallType'
  <2>1. CASE StartRefused(t) \/ StartWithoutProducer(t) \/ Started(t) \/ StopRefused(t) \/ Finish(t)
    BY <1>2, <2>1 DEF StartRefused, StartWithoutProducer, Started, StopRefused, Finish
  <2>2. CASE \/ PublishStarted(t) \/ Attach(t) \/ AttachRefused(t) \/ AttachFails(t) \/ Rollback(t)
             \/ Halt(t) \/ Join(t) \/ Cleanup(t) \/ DestroyPool(t) \/ WaitTimeout(t) \/ DetachJoin(t)
    <3>1. \E p \in Places : Goto(t, p)
      BY <2>2 DEF PublishStarted, Attach, AttachRefused, AttachFails, Rollback, Halt, Join, Cleanup,
         DestroyPool, WaitTimeout, DetachJoin, AfterStarted, AfterJoin, Places
    <3> QED  BY <1>3, <3>1
  <2>3. CASE Start(t)
    <3>1. generation + 1 \in 0..MaxStreams
      BY <2>3, Numbers DEF Start, OthersType
    <3> QED  BY <2>3, <3>1, Named DEF Start, CallType
  <2>4. CASE Stop(t)
    BY <2>4, Named DEF Stop, CallType, OthersType
  <2>5. CASE PublishStopping(t)
    BY <2>5 DEF PublishStopping, CallType, Places
  <2>6. CASE Detach(t)
    BY <2>6, Numbers DEF Detach, CallType, Places, ZlmediaType
  <2>7. CASE DetachRelease(t)
    <3>1. call[t].resume \in Places /\ None \in 0..MaxStreams
      BY Named, Numbers DEF CallType, None
    <3>2. \A u \in Threads \ {t} : call'[u] = call[u]
      BY <2>7 DEF DetachRelease, CallType
    <3>3. call'[t] = [at |-> call[t].resume, gen |-> call[t].gen, thread |-> None,
                      channel |-> None, resume |-> call[t].resume]
      BY <2>7 DEF DetachRelease, CallType
    <3>4. DOMAIN call' = Threads /\ call' = [u \in Threads |-> call'[u]]
      BY <2>7 DEF DetachRelease, CallType
    <3> QED  BY <3>1, <3>2, <3>3, <3>4 DEF CallType
  <2>8. CASE Lifecycle(t)
    BY <2>8, LifecycleMoves
  <2> QED  BY <1>4, <2>1, <2>2, <2>3, <2>4, <2>5, <2>6, <2>7, <2>8 DEF Step, Lifecycle
<1>5. ASSUME NEW t \in Threads, Begin(t) PROVE CallType'
  <2>1. CASE Shutdown(t)
    BY <2>1, DownMoves
  <2>2. CASE Boot(t)
    BY <2>2, GotoMoves DEF Boot, Places
  <2> QED  BY <1>1, <1>5, <2>1, <2>2 DEF Begin
<1>6. ASSUME NEW g \in Generations, Produce(g) \/ Consume(g) PROVE CallType'
  BY <1>6 DEF Produce, Consume, ProducerExit, ProducerAcquire, ProducerSend, ProducerGivesUp, ProducerRelease,
     ConsumerTest, ConsumerReceive, ConsumerReceiveNothing, ConsumerRelease, CallType
<1> QED  BY <1>4, <1>5, <1>6 DEF Next

(* Few steps touch the channels.                                           *)
LEMMA ChannelMoves ==
    ASSUME Next
    PROVE  \/ channel' = channel
           \/ \E t \in Threads : Start(t) \/ Attach(t) \/ Halt(t) \/ Cleanup(t) \/ DetachRelease(t)
           \/ \E g \in Generations : ProducerSend(g) \/ ConsumerReceive(g)
  BY ZenonT(40) DEF Next, Begin, Step, Produce, Consume,
     Call, Shutdown, Boot, InitCamera, SubscribeStarted, SubscribeStopping, Register, StartNext,
     InitDone, InitFails, StartRefused, StartWithoutProducer, PublishStarted, AttachRefused,
     AttachFails, Started, Rollback, StopRefused, Stop, Join, PublishStopping, DestroyPool,
     WaitTimeout, Finish, Detach, DetachJoin, Unsubscribe, AwaitStopping, AwaitStarted, Close, AwaitCalls,
     ProducerExit, ProducerAcquire, ProducerGivesUp, ProducerRelease, ConsumerTest, ConsumerReceiveNothing,
     ConsumerRelease
(* Few steps touch the producers.                                          *)
LEMMA ProducerMoves ==
    ASSUME Next
    PROVE  \/ producer' = producer
           \/ \E t \in Threads : Start(t) \/ Halt(t) \/ Join(t)
           \/ \E g \in Generations : Produce(g)
  BY ZenonT(40) DEF Next, Begin, Step, Consume,
     Call, Shutdown, Boot, InitCamera, SubscribeStarted, SubscribeStopping, Register, StartNext,
     InitDone, InitFails, StartRefused, StartWithoutProducer, PublishStarted, Attach,
     AttachRefused, AttachFails, Started, Rollback, StopRefused, Stop, PublishStopping, Cleanup,
     DestroyPool, WaitTimeout, Finish, Detach, DetachJoin, DetachRelease, Unsubscribe,
     AwaitStopping, AwaitStarted, Close, AwaitCalls, ConsumerTest, ConsumerReceive,
     ConsumerReceiveNothing, ConsumerRelease
(* Few steps touch the consumers.                                          *)
LEMMA ConsumerMoves ==
    ASSUME Next
    PROVE  \/ consumer' = consumer
           \/ \E t \in Threads : Attach(t) \/ Detach(t) \/ DetachJoin(t)
           \/ \E g \in Generations : Consume(g)
  BY ZenonT(40) DEF Next, Begin, Step, Produce,
     Call, Shutdown, Boot, InitCamera, SubscribeStarted, SubscribeStopping, Register, StartNext,
     InitDone, InitFails, StartRefused, StartWithoutProducer, Start, PublishStarted,
     AttachRefused, AttachFails, Started, Rollback, StopRefused, Stop, Halt, Join, PublishStopping,
     Cleanup, DestroyPool, WaitTimeout, Finish, DetachRelease, Unsubscribe, AwaitStopping,
     AwaitStarted, Close, AwaitCalls, ProducerExit, ProducerAcquire, ProducerSend, ProducerGivesUp,
     ProducerRelease
(* Few steps touch zlmedia's handles.                                      *)
LEMMA ZlmediaMoves ==
    ASSUME Next
    PROVE  \/ zl' = zl
           \/ \E t \in Threads : Attach(t) \/ AttachFails(t) \/ Detach(t) \/ SubscribeStarted(t)
  BY ZenonT(40) DEF Next, Begin, Step, Produce, Consume,
     Call, Shutdown, Boot, InitCamera, SubscribeStopping, Register, StartNext,
     InitDone, InitFails, StartRefused, StartWithoutProducer, Start, PublishStarted,
     AttachRefused, Started, Rollback, StopRefused, Stop, Halt, Join, PublishStopping,
     Cleanup, DestroyPool, WaitTimeout, Finish, DetachJoin, DetachRelease, Unsubscribe,
     AwaitStopping, AwaitStarted, Close, AwaitCalls, ProducerExit, ProducerAcquire, ProducerSend,
     ProducerGivesUp, ProducerRelease, ConsumerTest, ConsumerReceive, ConsumerReceiveNothing, ConsumerRelease
(* Few steps touch the core.                                               *)
LEMMA CoreMoves ==
    ASSUME Next
    PROVE  \/ core' = core
           \/ \E t \in Threads : Boot(t) \/ Shutdown(t) \/ Lifecycle(t)
  BY ZenonT(40) DEF Next, Begin, Step, Lifecycle, Produce, Consume,
     Call, StartRefused, StartWithoutProducer, Start, PublishStarted, Attach,
     AttachRefused, AttachFails, Started, Rollback, StopRefused, Stop, Halt, Join, PublishStopping,
     Cleanup, DestroyPool, WaitTimeout, Finish, Detach, DetachJoin, DetachRelease,
     ProducerExit, ProducerAcquire, ProducerSend,
     ProducerGivesUp, ProducerRelease, ConsumerTest, ConsumerReceive, ConsumerReceiveNothing, ConsumerRelease
(* Few steps touch the camera's handles.                                   *)
LEMMA CameraMoves ==
    ASSUME Next
    PROVE  \/ UNCHANGED <<camera, generation, pools>>
           \/ \E t \in Threads :
                \/ StartWithoutProducer(t) \/ Start(t) \/ Started(t) \/ Rollback(t) \/ Stop(t) \/ Halt(t)
                \/ Join(t) \/ Cleanup(t) \/ DestroyPool(t) \/ Finish(t) \/ InitCamera(t)
  BY ZenonT(40) DEF Next, Begin, Step, Produce, Consume,
     Call, Shutdown, Boot, SubscribeStarted, SubscribeStopping, Register, StartNext,
     InitDone, InitFails, StartRefused, PublishStarted, Attach,
     AttachRefused, AttachFails, StopRefused, PublishStopping,
     WaitTimeout, Detach, DetachJoin, DetachRelease, Unsubscribe,
     AwaitStopping, AwaitStarted, Close, AwaitCalls, ProducerExit, ProducerAcquire, ProducerSend,
     ProducerGivesUp, ProducerRelease, ConsumerTest, ConsumerReceive, ConsumerReceiveNothing, ConsumerRelease

(* The loops leave the calls, the core and the handles alone.              *)
LEMMA LoopMoves ==
    ASSUME NEW g \in Generations, Produce(g) \/ Consume(g)
    PROVE  UNCHANGED <<camera, generation, zl, pools, core, call>>
BY Zenon DEF Produce, Consume, ProducerExit, ProducerAcquire, ProducerSend, ProducerGivesUp, ProducerRelease,
   ConsumerTest, ConsumerReceive, ConsumerReceiveNothing, ConsumerRelease

(* A non-empty set of numbers has a least one.                             *)
LEMMA LeastBlock == ASSUME NEW S \in SUBSET Blocks, S # {} PROVE Min(S) \in S
<1>1. S \subseteq Nat
  BY Numbers
<1>2. PICK n \in S : \A m \in S : ~(<<m, n>> \in OpToRel(<, Nat))
  BY <1>1, WFMin, NatLessThanWellFounded
<1>3. ASSUME NEW m \in S PROVE n <= m
  <2>1. <<m, n>> \notin OpToRel(<, Nat)
    BY <1>2
  <2>2. ~(m < n)
    BY <1>1, <2>1 DEF OpToRel
  <2> QED  BY <1>1, <2>2
<1>4. \E k \in S : \A m \in S : k =< m
  BY <1>3
<1> QED  BY <1>4 DEF Min

(* A block that is acquired is a free one.                                 *)
LEMMA AcquiredIsFree == ASSUME NEW g, NEW b \in Acquired(g) PROVE b \in Blocks /\ b \notin InUse(g)
<1>1. FreeBlocks(g) # {} /\ b = Min(FreeBlocks(g))
  BY DEF Acquired
<1>2. FreeBlocks(g) \subseteq Blocks
  BY DEF FreeBlocks
<1> QED  BY <1>1, <1>2, LeastBlock DEF FreeBlocks

(* The client rule does not change.                                        *)
LEMMA QuietStays == ASSUME Next PROVE quiet' = quiet
  BY ZenonT(40) DEF Next, Begin, Step, Produce, Consume,
     Call, Shutdown, Boot, InitCamera, SubscribeStarted, SubscribeStopping, Register, StartNext,
     InitDone, InitFails, StartRefused, StartWithoutProducer, Start, PublishStarted, Attach,
     AttachRefused, AttachFails, Started, Rollback, StopRefused, Stop, Halt, Join, PublishStopping,
     Cleanup, DestroyPool, WaitTimeout, Finish, Detach, DetachJoin, DetachRelease, Unsubscribe,
     AwaitStopping, AwaitStarted, Close, AwaitCalls, ProducerExit, ProducerAcquire, ProducerSend,
     ProducerGivesUp, ProducerRelease, ConsumerTest, ConsumerReceive, ConsumerReceiveNothing, ConsumerRelease

(* Every step keeps the channels what they are.                            *)
LEMMA ChannelTypeStep == ASSUME TypeOK, HandlesOK, Turns, Owners, Next PROVE ChannelType'
<1> USE TypeParts
<1>1. ASSUME NEW g \in Generations, NEW c \in [holders : SUBSET {"camera", "zlmedia"},
             closed : BOOLEAN, queue : Seq(Blocks)], channel' = [channel EXCEPT ![g] = c]
      PROVE  ChannelType'
  BY <1>1 DEF ChannelType
<1>2. CASE channel' = channel
  BY <1>2 DEF ChannelType
<1>3. ASSUME NEW t \in Threads, Start(t) PROVE ChannelType'
  <2>1. channel' = [channel EXCEPT ![generation + 1].holders = {"camera"}]
    BY <1>3 DEF Start
  <2> QED  BY <2>1 DEF ChannelType
<1>4. ASSUME NEW t \in Threads, Attach(t) PROVE ChannelType'
  <2>1. channel' = [channel EXCEPT ![call[t].gen].holders = @ \union {"zlmedia"}]
    BY <1>4 DEF Attach
  <2> QED  BY <2>1 DEF ChannelType
<1>5. ASSUME NEW t \in Threads, Halt(t) PROVE ChannelType'
  <2>1. channel' = [channel EXCEPT ![camera.channel].closed = TRUE]
    BY <1>5 DEF Halt
  <2> QED  BY <2>1 DEF ChannelType
<1>6. ASSUME NEW g \in Generations, NEW owner
      PROVE  Released(channel[g], owner) \in [holders : SUBSET {"camera", "zlmedia"},
                                              closed : BOOLEAN, queue : Seq(Blocks)]
  <2>1. channel[g] \in [holders : SUBSET {"camera", "zlmedia"}, closed : BOOLEAN, queue : Seq(Blocks)]
    BY DEF ChannelType
  <2>2. channel[g].holders \ {owner} \in SUBSET {"camera", "zlmedia"} /\ <<>> \in Seq(Blocks)
    BY <2>1
  <2> DEFINE left == channel[g].holders \ {owner}
  <2>3. Released(channel[g], owner) = [channel[g] EXCEPT !.holders = left,
            !.queue = IF left = {} THEN <<>> ELSE channel[g].queue]
    BY DEF Released
  <2> QED  BY <2>1, <2>2, <2>3
<1>7. ASSUME NEW t \in Threads, Cleanup(t) PROVE ChannelType'
  <2>1. channel' = [channel EXCEPT ![camera.channel] = Released(channel[camera.channel], "camera")]
    BY <1>7 DEF Cleanup
  <2>2. camera.channel \in Generations
    BY <1>7, HandleType DEF Cleanup, Turns
  <2> QED  BY <1>1, <1>6, <2>1, <2>2
<1>8. ASSUME NEW t \in Threads, DetachRelease(t) PROVE ChannelType'
  <2>1. CASE call[t].channel = None
    BY <1>2, <1>8, <2>1 DEF DetachRelease
  <2>2. CASE call[t].channel # None
    <3>1. call[t].channel \in Generations
      BY <2>2, HandleType
    <3>2. channel' = [channel EXCEPT ![call[t].channel] = Released(channel[call[t].channel], "zlmedia")]
      BY <1>8, <2>2 DEF DetachRelease
    <3> QED  BY <1>1, <1>6, <3>1, <3>2
  <2> QED  BY <2>1, <2>2
<1>9. ASSUME NEW g \in Generations, ProducerSend(g) PROVE ChannelType'
  <2>1. producer[g].frame \in Blocks
    BY <1>9 DEF ProducerSend, Owners, ProducerOwned, LoopType
  <2>2. CASE channel' = [channel EXCEPT ![camera.channel].queue = Append(@, producer[g].frame)]
    <3>1. \A c \in Generations : Append(channel[c].queue, producer[g].frame) \in Seq(Blocks)
      BY <2>1, AppendProperties DEF ChannelType
    <3> QED  BY <2>2, <3>1 DEF ChannelType
  <2> QED  BY <1>2, <1>9, <2>2 DEF ProducerSend
<1>10. ASSUME NEW g \in Generations, ConsumerReceive(g) PROVE ChannelType'
  <2>1. channel[g].queue \in Seq(Blocks) /\ channel[g].queue # <<>>
    BY <1>10 DEF ConsumerReceive, ChannelType
  <2>2. Tail(channel[g].queue) \in Seq(Blocks)
    BY <2>1, HeadTailProperties
  <2> QED  BY <1>10, <2>2 DEF ConsumerReceive, ChannelType
<1> QED  BY <1>2, <1>3, <1>4, <1>5, <1>7, <1>8, <1>9, <1>10, ChannelMoves

(* A loop stays one.                                                       *)
LEMMA ProducerTypeStep == ASSUME TypeOK, HandlesOK, Turns, Owners, Next PROVE LoopType(producer)'
<1>1. LoopType(producer)
  BY TypeParts
<1>2. ASSUME NEW t \in Threads, Start(t) \/ Halt(t) \/ Join(t) PROVE LoopType(producer)'
  <2>1. CASE Start(t)
    BY <1>1, <2>1, LoopUpdate, LoopNames DEF Start
  <2>2. CASE Halt(t)
    BY <1>1, <2>2, LoopUpdate DEF Halt
  <2>3. CASE Join(t)
    BY <1>1, <2>3, LoopUpdate, LoopNames DEF Join
  <2> QED  BY <1>2, <2>1, <2>2, <2>3
<1>3. ASSUME NEW g \in Generations, Produce(g) PROVE LoopType(producer)'
  <2>1. CASE ProducerExit(g)
    BY <1>1, <2>1, LoopUpdate, LoopNames DEF ProducerExit
  <2>2. CASE ProducerAcquire(g)
    <3>1. PICK b \in Acquired(camera.pool) :
              producer' = [producer EXCEPT ![g].at = "frame", ![g].frame = b]
      BY <2>2 DEF ProducerAcquire
    <3>2. b \in Blocks
      BY AcquiredIsFree
    <3> QED  BY <1>1, <3>1, <3>2, LoopNames DEF LoopType
  <2>3. CASE ProducerSend(g)
    <3>1. PICK p \in Loops : producer' = [producer EXCEPT ![g].at = p]
      BY <2>3, LoopNames DEF ProducerSend
    <3> QED  BY <1>1, <3>1, LoopUpdate
  <2>4. CASE ProducerRelease(g)
    BY <1>1, <2>4, LoopNames DEF ProducerRelease, LoopType
  <2>5. CASE ProducerGivesUp(g)
    BY <1>1, <2>5, LoopUpdate, LoopNames DEF ProducerGivesUp
  <2> QED  BY <1>3, <2>1, <2>2, <2>3, <2>4, <2>5 DEF Produce
<1>4. CASE producer' = producer
  BY <1>1, <1>4 DEF LoopType
<1> QED  BY <1>2, <1>3, <1>4, ProducerMoves

(* Likewise the consumer's.                                                *)
LEMMA ConsumerTypeStep == ASSUME TypeOK, Next PROVE LoopType(consumer)'
<1>1. LoopType(consumer) /\ ChannelType
  BY TypeParts
<1>2. ASSUME NEW t \in Threads, Attach(t) \/ Detach(t) \/ DetachJoin(t) PROVE LoopType(consumer)'
  <2>1. CASE Attach(t)
    BY <1>1, <2>1, LoopUpdate, LoopNames DEF Attach
  <2>2. CASE Detach(t)
    <3>1. CASE consumer' = consumer
      BY <1>1, <3>1 DEF LoopType
    <3>2. CASE consumer' = [consumer EXCEPT ![zl.thread] = StopRequested(@)]
      BY <1>1, <3>2, LoopUpdate
    <3> QED  BY <2>2, <3>1, <3>2 DEF Detach
  <2>3. CASE DetachJoin(t)
    BY <1>1, <2>3, LoopUpdate, LoopNames DEF DetachJoin
  <2> QED  BY <1>2, <2>1, <2>2, <2>3
<1>3. ASSUME NEW g \in Generations, Consume(g) PROVE LoopType(consumer)'
  <2>1. CASE ConsumerTest(g) \/ ConsumerReceiveNothing(g)
    <3>1. PICK p \in Loops : consumer' = [consumer EXCEPT ![g].at = p]
      BY <2>1, LoopNames DEF ConsumerTest, ConsumerReceiveNothing
    <3> QED  BY <1>1, <3>1, LoopUpdate
  <2>2. CASE ConsumerReceive(g)
    <3>1. channel[g].queue \in Seq(Blocks) /\ channel[g].queue # <<>>
      BY <1>1, <2>2 DEF ConsumerReceive, ChannelType
    <3>2. Head(channel[g].queue) \in Blocks
      BY <3>1, HeadTailProperties
    <3> QED  BY <1>1, <2>2, <3>2, LoopNames DEF ConsumerReceive, LoopType
  <2>3. CASE ConsumerRelease(g)
    BY <1>1, <2>3, LoopNames DEF ConsumerRelease, LoopType
  <2> QED  BY <1>3, <2>1, <2>2, <2>3 DEF Consume
<1>4. CASE consumer' = consumer
  BY <1>1, <1>4 DEF LoopType
<1> QED  BY <1>2, <1>3, <1>4, ConsumerMoves

(* Likewise zlmedia, ...                                                   *)
LEMMA ZlmediaTypeStep == ASSUME TypeOK, Next PROVE ZlmediaType'
<1> USE TypeParts, Numbers
<1>0. None \in 0..MaxStreams
  BY DEF None
<1>1. ASSUME NEW t \in Threads, Attach(t) \/ AttachFails(t) PROVE ZlmediaType'
  <2>1. call[t].gen \in 0..MaxStreams
    BY DEF CallType
  <2>2. CASE Attach(t)
    BY <2>1, <2>2 DEF Attach, AttachedGeneration, ZlmediaType
  <2>3. CASE AttachFails(t)
    BY <1>0, <2>1, <2>3 DEF AttachFails, ZlmediaType
  <2> QED  BY <1>1, <2>2, <2>3
<1>2. ASSUME NEW t \in Threads, Detach(t) \/ SubscribeStarted(t) PROVE ZlmediaType'
  <2>1. CASE Detach(t)
    BY <1>0, <2>1 DEF Detach, ZlmediaType
  <2>2. CASE SubscribeStarted(t)
    BY <2>2 DEF SubscribeStarted, ZlmediaType
  <2> QED  BY <1>2, <2>1, <2>2
<1> QED  BY <1>1, <1>2, ZlmediaMoves DEF ZlmediaType

(* ... the core, ...                                                       *)
LEMMA CoreTypeStep == ASSUME TypeOK, Next PROVE CoreType'
<1> USE TypeParts
<1>1. ASSUME NEW t \in Threads,
             Shutdown(t) \/ Unsubscribe(t) \/ AwaitStopping(t) \/ AwaitStarted(t) \/ Close(t)
      PROVE  CoreType'
  <2>1. CASE AwaitStarted(t)
    <3>1. core.built \ {"zlmedia"} \in SUBSET {"camera", "zlmedia"}
      BY DEF CoreType
    <3> QED  BY <2>1, <3>1 DEF AwaitStarted, CoreType
  <2>2. CASE Shutdown(t)
    BY <2>2 DEF Shutdown, CoreType
  <2>3. CASE Unsubscribe(t) \/ AwaitStopping(t)
    <3>1. PICK S \in SUBSET {"started", "stopping"} : core' = [core EXCEPT !.subscribed = S]
      BY <2>3 DEF Unsubscribe, AwaitStopping
    <3> QED  BY <3>1 DEF CoreType
  <2>4. CASE Close(t)
    BY <2>4 DEF Close, CoreType
  <2> QED  BY <1>1, <2>1, <2>2, <2>3, <2>4
<1>2. ASSUME NEW t \in Threads, AwaitCalls(t) \/ InitCamera(t) \/ SubscribeStarted(t) \/ SubscribeStopping(t)
      PROVE  CoreType'
  <2>1. CASE AwaitCalls(t)
    BY <2>1 DEF AwaitCalls, CoreType
  <2>2. CASE InitCamera(t)
    <3>1. \/ core' = core
          \/ \E S \in SUBSET {"camera", "zlmedia"} : core' = [core EXCEPT !.open = TRUE, !.built = S]
      BY <2>2 DEF InitCamera
    <3> QED  BY <3>1 DEF CoreType
  <2>3. CASE SubscribeStarted(t) \/ SubscribeStopping(t)
    BY <2>3 DEF SubscribeStarted, SubscribeStopping, CoreType
  <2> QED  BY <1>2, <2>1, <2>2, <2>3
<1>3. ASSUME NEW t \in Threads, Boot(t) PROVE CoreType'
  <2>1. core.boots + 1 \in 0..MaxBoots
    BY <1>3 DEF Boot, CoreType
  <2> QED  BY <1>3, <2>1 DEF Boot, CoreType
<1>4. ASSUME NEW t \in Threads, Register(t) \/ StartNext(t) \/ InitDone(t) \/ InitFails(t)
      PROVE  CoreType'
  <2>1. CASE Register(t)
    BY <2>1 DEF Register, CoreType
  <2>2. CASE StartNext(t)
    BY <2>2 DEF StartNext, CoreType
  <2>3. CASE InitDone(t) \/ InitFails(t)
    BY <2>3 DEF InitDone, InitFails, CoreType
  <2> QED  BY <1>4, <2>1, <2>2, <2>3
<1>5. CASE core' = core
  BY <1>5 DEF CoreType
<1> QED  BY <1>1, <1>2, <1>3, <1>4, <1>5, CoreMoves DEF Lifecycle

(* ... the camera, the generation and the pools.                           *)
LEMMA CameraTypeStep == ASSUME TypeOK, Next PROVE CameraType' /\ OthersType'
<1> USE TypeParts, Numbers
<1> USE DEF CameraType, OthersType, None
<1>1. quiet' = quiet
  BY QuietStays
<1>2. CASE UNCHANGED <<camera, generation, pools>>
  BY <1>1, <1>2
<1>3. ASSUME NEW t \in Threads, Start(t) \/ StartWithoutProducer(t) PROVE CameraType' /\ OthersType'
  <2>1. generation + 1 \in 0..MaxStreams
    BY <1>3 DEF Start, StartWithoutProducer
  <2>2. CASE Start(t)
    BY <1>1, <2>1, <2>2 DEF Start
  <2>3. CASE StartWithoutProducer(t)
    BY <1>1, <2>1, <2>3 DEF StartWithoutProducer
  <2> QED  BY <1>3, <2>2, <2>3
<1>4. ASSUME NEW t \in Threads, Started(t) \/ Rollback(t) \/ Stop(t) \/ Halt(t)
      PROVE  CameraType' /\ OthersType'
  BY <1>1, <1>4 DEF Started, Rollback, Stop, Halt
<1>5. ASSUME NEW t \in Threads, Join(t) \/ Cleanup(t) \/ DestroyPool(t) \/ InitCamera(t)
      PROVE  CameraType' /\ OthersType'
  <2>1. CASE Join(t) \/ Cleanup(t)
    BY <1>1, <2>1 DEF Join, Cleanup
  <2>2. CASE DestroyPool(t)
    BY <1>1, <2>2 DEF DestroyPool
  <2>3. CASE InitCamera(t)
    BY <1>1, <2>3 DEF InitCamera
  <2> QED  BY <1>5, <2>1, <2>2, <2>3
<1>6. ASSUME NEW t \in Threads, Finish(t) PROVE CameraType' /\ OthersType'
  BY <1>1, <1>6 DEF Finish, FinalState
<1> QED  BY <1>2, <1>3, <1>4, <1>5, <1>6, CameraMoves

(* Every step keeps the types.                                             *)
LEMMA TypesStep == ASSUME Invariant, Next PROVE TypeOK'
<1>1. /\ CameraType' /\ ZlmediaType' /\ ChannelType' /\ LoopType(producer)'
      /\ LoopType(consumer)' /\ CoreType' /\ CallType' /\ OthersType'
  BY CallStep, ChannelTypeStep, ProducerTypeStep, ConsumerTypeStep, ZlmediaTypeStep, CoreTypeStep,
     CameraTypeStep DEF Invariant
<1>2. {producer', consumer'} \subseteq
          [Generations -> [at : Loops, stop : BOOLEAN, frame : Blocks \union {None}]]
  BY <1>1, Zenon DEF LoopType
<1> QED
  BY <1>1, <1>2, Zenon
     DEF TypeOK, CameraType, ZlmediaType, ChannelType, CoreType, CallType, OthersType

(* The places of the core's owner, step by step.                           *)
LEMMA OwnedStep == ASSUME Invariant, Next PROVE Owned'
<1> USE TypeParts
<1> USE DEF Invariant, CoreOK, Owned, CoreType, CallType, CorePlaces, InitPlaces, EndPlaces, StartingPlaces, Detaches, Detaching
<1>1. ASSUME NEW t \in Threads, NEW p \in Places, Goto(t, p), core' = core, call[t].at # "ready",
             p # "init_camera",
             p \in CorePlaces \/ (p \in Detaching /\ call[t].resume = "stop") => core.owner = t,
             core.owner = t => p \notin {"ready", "start"} \union StartingPlaces
      PROVE  Owned'
  BY <1>1, GotoMoves
<1>2. ASSUME NEW t \in Threads, Return(t), core' = core, call[t].at # "ready" PROVE Owned'
  <2>1. /\ call'[t].at = IF core.owner = t THEN AfterStop ELSE "ready"
        /\ \A u \in Threads \ {t} : call'[u] = call[u]
    BY <1>2, ReturnMoves
  <2> QED  BY <1>2, <2>1, WaysDown
<1>3. ASSUME NEW t \in Threads, NEW o \in {"start", "stop"}, Call(t, o) PROVE Owned'
  <2>1. /\ call'[t].at = o /\ \A u \in Threads \ {t} : call'[u] = call[u]
        /\ call[t].at = "ready" /\ core.open /\ core' = core
    BY <1>3, GotoMoves DEF Call, Places
  <2> QED  BY <2>1
<1>4. ASSUME NEW t \in Threads, Shutdown(t) PROVE Owned'
  <2>1. /\ call'[t].at = FirstDown /\ call'[t].resume = "stop"
        /\ \A u \in Threads \ {t} : call'[u] = call[u]
    BY <1>4, DownMoves
  <2>2. /\ core'.state = "STOPPING" /\ core'.owner = t /\ core'.open = core.open
        /\ core.owner = "nobody"
    BY <1>4 DEF Shutdown
  <2>3. FirstDown \in {"detach", "stop", "unsubscribe", "close", "await_calls"}
    BY WaysDown
  <2>4. \A u \in Threads : core.owner # u
    BY <2>2
  <2> QED  BY <2>1, <2>2, <2>3, <2>4
<1>5. ASSUME NEW t \in Threads, Boot(t) PROVE Owned'
  <2>1. \A u \in Threads : call[u].at = "ready"
    BY <1>5 DEF Boot
  <2>2. /\ call'[t].at = "init_camera" /\ \A u \in Threads \ {t} : call'[u] = call[u]
        /\ core'.state = "STARTING" /\ core'.owner = t /\ ~core'.open
    BY <1>5, GotoMoves DEF Boot, Places
  <2> QED  BY <2>1, <2>2
<1>6. ASSUME NEW t \in Threads, \/ StartRefused(t) \/ StartWithoutProducer(t) \/ Started(t)
                                \/ StopRefused(t) \/ Finish(t)
      PROVE  Owned'
  BY <1>2, <1>6 DEF StartRefused, StartWithoutProducer, Started, StopRefused, Finish
<1>7. ASSUME NEW t \in Threads, Start(t) \/ Stop(t) PROVE Owned'
  BY <1>7 DEF Start, Stop
<1>8. ASSUME NEW t \in Threads,
             PublishStarted(t) \/ Attach(t) \/ AttachRefused(t) \/ AttachFails(t) \/ Rollback(t)
      PROVE  Owned'
  <2>1. PICK p \in {"attach", "started", "rollback", "halt"} : Goto(t, p)
    BY <1>8 DEF PublishStarted, Attach, AttachRefused, AttachFails, Rollback, AfterStarted
  <2>2. core' = core /\ call[t].at \in StartingPlaces
    BY <1>8 DEF PublishStarted, Attach, AttachRefused, AttachFails, Rollback
  <2>3. p \in Places /\ p \notin CorePlaces /\ p \notin Detaching
    BY DEF Places
  <2> QED  BY <1>1, <2>1, <2>2, <2>3
<1>9. ASSUME NEW t \in Threads, Halt(t) \/ Join(t) \/ Cleanup(t) \/ DestroyPool(t) \/ WaitTimeout(t)
      PROVE  Owned'
  <2>1. PICK p \in {"join", "publish_stopping", "wait_idle", "finish"} : Goto(t, p)
    BY <1>9 DEF Halt, Join, Cleanup, DestroyPool, WaitTimeout, AfterJoin
  <2>2. core' = core /\ call[t].at \in StoppingPlaces
    BY <1>9 DEF Halt, Join, Cleanup, DestroyPool, WaitTimeout, StoppingPlaces
  <2>3. p \in Places /\ p \notin CorePlaces /\ p \notin Detaching
    BY DEF Places
  <2> QED  BY <1>1, <2>1, <2>2, <2>3 DEF StoppingPlaces
<1>10. ASSUME NEW t \in Threads, PublishStopping(t) PROVE Owned'
  BY <1>10 DEF PublishStopping
<1>11. ASSUME NEW t \in Threads, Detach(t) \/ DetachRelease(t) PROVE Owned'
  BY <1>11 DEF Detach, DetachRelease
<1>12. ASSUME NEW t \in Threads, DetachJoin(t) PROVE Owned'
  BY <1>1, <1>12 DEF DetachJoin, Places
<1>13. ASSUME NEW t \in Threads, Lifecycle(t) PROVE Owned'
  <2> USE <1>13
  <2>1. /\ call[t].at \in CorePlaces /\ core.owner = t
        /\ \A u \in Threads \ {t} : call'[u] = call[u] /\ core.owner # u
    BY LifecycleMoves
  <2>2. core.state \in {"STARTING", "STOPPING"}
    BY <2>1
  <2>3. CASE InitDone(t)
    BY <2>1, <2>3, LifecycleMoves DEF InitDone
  <2>4. CASE AwaitCalls(t)
    <3>1. \A u \in Threads : call'[u].at = "ready"
      BY <2>1, <2>4, LifecycleMoves DEF AwaitCalls, At
    <3>2. ~core.open
      BY <2>4 DEF AwaitCalls, Layered
    <3> QED  BY <2>4, <3>1, <3>2 DEF AwaitCalls
  <2>5. CASE InitFails(t)
    <3>1. call'[t].at \in {"detach", "stop", "unsubscribe", "close", "await_calls"}
      BY <2>5, DownMoves, WaysDown
    <3>2. core' = core
      BY <2>5 DEF InitFails
    <3> QED  BY <2>1, <2>2, <3>1, <3>2
  <2>6. CASE ~InitDone(t) /\ ~AwaitCalls(t) /\ ~InitFails(t)
    <3>1. call'[t].at \in CorePlaces
      BY <2>6, LifecycleMoves
    <3>2. core'.state = core.state /\ core'.owner = core.owner
      BY <2>6 DEF Lifecycle, InitCamera, SubscribeStarted, SubscribeStopping, Register, StartNext,
         Unsubscribe, AwaitStopping, AwaitStarted, Close
    <3>3. call'[t].at # "init_camera"
      BY <2>6, GotoMoves DEF Lifecycle, InitCamera, SubscribeStarted, SubscribeStopping, Register,
         StartNext, Unsubscribe, AwaitStopping, AwaitStarted, Close, Places
    <3> QED  BY <2>1, <2>2, <3>1, <3>2, <3>3
  <2> QED  BY <2>3, <2>4, <2>5, <2>6
<1>15. ASSUME NEW g \in Generations, Produce(g) \/ Consume(g) PROVE Owned'
  BY <1>15, LoopMoves
<1> HIDE DEF Invariant, CoreOK, Owned, CoreType, CallType, CorePlaces, InitPlaces, EndPlaces, StartingPlaces, Detaches, Detaching
<1> QED
  BY <1>3, <1>4, <1>5, <1>6, <1>7, <1>8, <1>9, <1>10, <1>11, <1>12, <1>13, <1>15
     DEF Next, Begin, Step, Lifecycle

(* Likewise the components, layer by layer.                                *)
LEMMA LayeredStep == ASSUME Invariant, Next PROVE Layered'
<1> USE TypeParts
<1> USE DEF Invariant, CoreOK, Layered, CoreType, CorePlaces, InitPlaces, EndPlaces
<1>1. /\ AfterStop = "await_calls" => ~core.open /\ "zlmedia" \notin core.built
      /\ AfterStop = "close" => "zlmedia" \notin core.built /\ "camera" \in core.built
      /\ AfterStop = "unsubscribe" => "camera" \in core.built
      /\ core.state = "RUNNING" => FirstDown \in {"detach", "stop"}
  BY DEF AfterStop, FirstDown
<1>2. ASSUME NEW t \in Threads, core' = core, call'[t].at \notin CorePlaces \/ call'[t].at = AfterStop,
             \A u \in Threads \ {t} : call'[u] = call[u]
      PROVE  Layered'
  BY <1>1, <1>2, WaysDown
<1>3. ASSUME NEW t \in Threads, Step(t), ~Lifecycle(t) PROVE Layered'
  BY <1>2, <1>3, CallMoves
<1>4. ASSUME NEW t \in Threads, NEW o \in {"start", "stop"}, Call(t, o) PROVE Layered'
  BY <1>2, <1>4, GotoMoves DEF Call, Places
<1>5. ASSUME NEW t \in Threads, Shutdown(t) PROVE Layered'
  <2>1. call'[t].at \in {"detach", "stop"} /\ \A u \in Threads \ {t} : call'[u] = call[u]
    BY <1>1, <1>5, DownMoves DEF Shutdown
  <2>2. /\ core'.state = "STOPPING" /\ core'.open = core.open /\ core'.built = core.built
        /\ core'.started = core.started
    BY <1>5 DEF Shutdown
  <2> QED  BY <2>1, <2>2
<1>6. ASSUME NEW t \in Threads, Boot(t) PROVE Layered'
  <2>1. call'[t].at = "init_camera" /\ \A u \in Threads \ {t} : call'[u].at = "ready"
    BY <1>6, GotoMoves DEF Boot, Places, Owned
  <2>2. /\ core'.state = "STARTING" /\ core'.open = core.open /\ core'.built = core.built
    BY <1>6 DEF Boot
  <2>3. core.built = {}
    BY <1>6 DEF Boot
  <2> QED  BY <2>1, <2>2, <2>3
<1>7. ASSUME NEW t \in Threads, Lifecycle(t) PROVE Layered'
  <2> USE <1>7
  <2>1. /\ \A u \in Threads \ {t} : call'[u] = call[u] /\ call[u].at \notin CorePlaces
        /\ core.owner = t /\ core.state # "RUNNING"
    BY LifecycleMoves DEF Owned
  <2>2. CASE InitFails(t)
    <3>1. core' = core /\ call'[t].at \in {"detach", "stop", AfterStop}
      BY <2>2, DownMoves, WaysDown DEF InitFails
    <3> QED  BY <1>2, <2>1, <3>1
  <2>3. CASE InitDone(t)
    BY <2>1, <2>3, LifecycleMoves DEF InitDone
  <2>4. CASE AwaitCalls(t)
    BY <2>1, <2>4, LifecycleMoves DEF AwaitCalls
  <2>5. CASE InitCamera(t)
    <3>1. /\ call[t].at = "init_camera" /\ ~core.open /\ core.built = {}
          /\ core' = core \/ core' = [core EXCEPT !.open = TRUE, !.built = {"camera"}]
      BY <2>5 DEF InitCamera, Owned
    <3>2. \/ core' = core /\ call'[t].at = "await_calls"
          \/ core' = [core EXCEPT !.open = TRUE, !.built = {"camera"}] /\ call'[t].at = "init_zlmedia"
      BY <2>5, GotoMoves DEF InitCamera, Places
    <3>3. CASE core' = core /\ call'[t].at = "await_calls"
      BY <2>1, <3>1, <3>3
    <3>4. CASE core' = [core EXCEPT !.open = TRUE, !.built = {"camera"}] /\ call'[t].at = "init_zlmedia"
      <4>1. core'.state = core.state /\ core'.open /\ core'.built = {"camera"}
        BY <3>4
      <4>2. core'.state # "STOPPED"
        BY <2>1, <4>1 DEF Owned
      <4> QED  BY <2>1, <3>4, <4>1, <4>2
    <3> QED  BY <3>2, <3>3, <3>4
  <2>6. CASE SubscribeStarted(t) \/ SubscribeStopping(t)
    <3>1. PICK p \in {"subscribe_stopping", "register", "starting", "await_started"} : Goto(t, p)
      BY <2>6 DEF SubscribeStarted, SubscribeStopping
    <3>2. call[t].at \in {"init_zlmedia", "subscribe_stopping"}
      BY <2>6 DEF SubscribeStarted, SubscribeStopping
    <3>3. /\ core'.state = core.state /\ core'.open = core.open /\ core'.built = core.built
      BY <2>6 DEF SubscribeStarted, SubscribeStopping
    <3>4. call'[t].at = p
      BY <3>1, GotoMoves DEF Places
    <3> QED  BY <2>1, <3>2, <3>3, <3>4
  <2>7. CASE Register(t)
    BY <2>1, <2>7, GotoMoves DEF Register, Places
  <2>8. CASE StartNext(t)
    BY <2>1, <2>8 DEF StartNext
  <2>9. CASE Unsubscribe(t) \/ AwaitStopping(t)
    <3>1. PICK p \in {"await_stopping", "await_started"} : Goto(t, p)
      BY <2>9 DEF Unsubscribe, AwaitStopping
    <3>2. /\ core'.state = core.state /\ core'.open = core.open /\ core'.built = core.built
          /\ call[t].at \in {"unsubscribe", "await_stopping"}
      BY <2>9 DEF Unsubscribe, AwaitStopping
    <3>3. call'[t].at = p
      BY <3>1, GotoMoves DEF Places
    <3> QED  BY <2>1, <3>2, <3>3
  <2>10. CASE AwaitStarted(t)
    BY <2>1, <2>10, GotoMoves DEF AwaitStarted, Places
  <2>11. CASE Close(t)
    BY <2>1, <2>11, GotoMoves DEF Close, Places
  <2> QED  BY <2>2, <2>3, <2>4, <2>5, <2>6, <2>7, <2>8, <2>9, <2>10, <2>11 DEF Lifecycle
<1>8. ASSUME NEW g \in Generations, Produce(g) \/ Consume(g) PROVE Layered'
  BY <1>8, LoopMoves
<1> QED  BY <1>3, <1>4, <1>5, <1>6, <1>7, <1>8 DEF Next, Begin

(* Each handle of the camera is given up in its turn.                      *)
LEMMA HandlesStep == ASSUME Invariant, Next PROVE HandlesOK'
<1> USE TypeParts, Numbers
<1> USE DEF Invariant, HandlesOK, CameraType, OthersType
<1>1. CASE UNCHANGED <<camera, generation, pools>>
  BY <1>1
<1>2. ASSUME NEW t \in Threads, StartWithoutProducer(t) PROVE HandlesOK'
  BY <1>2 DEF StartWithoutProducer, MayStart
<1>3. ASSUME NEW t \in Threads, Start(t) PROVE HandlesOK'
  BY <1>3 DEF Start, MayStart, None
<1>4. ASSUME NEW t \in Threads, Started(t) PROVE HandlesOK'
  BY <1>4 DEF Started, Turns, StartingPlaces
<1>5. ASSUME NEW t \in Threads, Rollback(t) \/ Stop(t) PROVE HandlesOK'
  BY <1>5 DEF Rollback, Stop
<1>6. ASSUME NEW t \in Threads, Halt(t) PROVE HandlesOK'
  BY <1>6 DEF Halt
<1>7. ASSUME NEW t \in Threads, Join(t) PROVE HandlesOK'
  BY <1>7 DEF Join, Turns, Busy, StoppingPlaces, StartingPlaces
<1>8. ASSUME NEW t \in Threads, Cleanup(t) PROVE HandlesOK'
  BY <1>8 DEF Cleanup, Turns, Busy, StoppingPlaces, StartingPlaces
<1>9. ASSUME NEW t \in Threads, DestroyPool(t) PROVE HandlesOK'
  BY <1>9 DEF DestroyPool, Turns, Busy, StoppingPlaces, StartingPlaces
<1>10. ASSUME NEW t \in Threads, Finish(t) PROVE HandlesOK'
  BY <1>10 DEF Finish, FinalState, Turns, Busy, StoppingPlaces, StartingPlaces
<1>11. ASSUME NEW t \in Threads, InitCamera(t) PROVE HandlesOK'
  BY <1>11 DEF InitCamera
<1> QED
  BY <1>1, <1>2, <1>3, <1>4, <1>5, <1>6, <1>7, <1>8, <1>9, <1>10, <1>11, CameraMoves

(* One thread at a time has the camera.                                    *)
LEMMA TurnsStep == ASSUME Invariant, Next PROVE Turns'
<1> USE TypeParts, Numbers
<1> USE DEF Invariant, Turns, Busy, Detaches, Detaching, StartingPlaces, StoppingPlaces
<1>1. ASSUME NEW t \in Threads, UNCHANGED <<camera, generation>>, ~Busy(t), ~Busy(t)',
             \A u \in Threads \ {t} : call'[u] = call[u]
      PROVE  Turns'
  BY <1>1
<1>2. ASSUME NEW t \in Threads, Return(t)
      PROVE  ~Busy(t)' /\ \A u \in Threads \ {t} : call'[u] = call[u]
  BY <1>2, ReturnMoves, WaysDown
<1>3. ASSUME NEW t \in Threads, NEW o \in {"start", "stop"}, Call(t, o) PROVE Turns'
  <2>1. /\ call[t].at = "ready" /\ call'[t].at = o /\ UNCHANGED <<camera, generation>>
        /\ \A u \in Threads \ {t} : call'[u] = call[u]
    BY <1>3, GotoMoves DEF Call, Places
  <2> QED  BY <1>1, <2>1
<1>4. ASSUME NEW t \in Threads, StartRefused(t) \/ StopRefused(t) PROVE Turns'
  <2>1. call[t].at \in {"start", "stop"} /\ Return(t) /\ UNCHANGED <<camera, generation>>
    BY <1>4 DEF StartRefused, StopRefused
  <2> QED  BY <1>1, <1>2, <2>1
<1>5. ASSUME NEW t \in Threads, Lifecycle(t) PROVE Turns'
  <2>1. /\ ~Busy(t) /\ ~Busy(t)' /\ generation' = generation
        /\ \A u \in Threads \ {t} : call'[u] = call[u]
    BY <1>5, LifecycleMoves DEF CorePlaces, InitPlaces, EndPlaces
  <2>2. CASE InitCamera(t)
    <3>1. \A u \in Threads \ {t} : call[u].at = "ready"
      BY <2>2 DEF InitCamera, CoreOK, Owned
    <3>2. \A u \in Threads : ~Busy(u)'
      BY <2>1, <3>1
    <3>3. camera'.state = "STOPPED"
      BY <2>2 DEF InitCamera, CameraType
    <3> QED  BY <3>2, <3>3
  <2>3. CASE camera' = camera
    BY <1>1, <2>1, <2>3
  <2> QED  BY <1>5, <2>2, <2>3, LifecycleMoves
<1>6. ASSUME NEW t \in Threads, Shutdown(t) PROVE Turns'
  <2>1. call[t].at = "ready" /\ UNCHANGED <<camera, generation>>
    BY <1>6 DEF Shutdown
  <2>2. ~Busy(t)' /\ \A u \in Threads \ {t} : call'[u] = call[u]
    BY <1>6, DownMoves, WaysDown
  <2> QED  BY <1>1, <2>1, <2>2
<1>7. ASSUME NEW t \in Threads, Boot(t) PROVE Turns'
  <2>1. /\ call[t].at = "ready" /\ call'[t].at = "init_camera" /\ UNCHANGED <<camera, generation>>
        /\ \A u \in Threads \ {t} : call'[u] = call[u]
    BY <1>7, GotoMoves DEF Boot, Places
  <2> QED  BY <1>1, <2>1
<1>8. ASSUME NEW t \in Threads, StartWithoutProducer(t) PROVE Turns'
  <2>1. \A u \in Threads : ~Busy(u)
    BY <1>8 DEF StartWithoutProducer, MayStart
  <2>2. \A u \in Threads : ~Busy(u)'
    BY <1>2, <1>8, <2>1 DEF StartWithoutProducer
  <2> QED  BY <1>8, <2>1, <2>2 DEF StartWithoutProducer, MayStart, CameraType
<1>9. ASSUME NEW t \in Threads, Start(t) PROVE Turns'
  <2>1. \A u \in Threads : ~Busy(u)
    BY <1>9 DEF Start, MayStart
  <2> QED  BY <1>9, <2>1 DEF Start, CallType
<1>10. ASSUME NEW t \in Threads, NEW p \in StartingPlaces, Goto(t, p), call[t].at \in StartingPlaces,
              UNCHANGED <<camera, generation>>
       PROVE  Turns'
  BY <1>10, GotoMoves DEF Places
<1>11. ASSUME NEW t \in Threads, PublishStarted(t) \/ Attach(t) \/ AttachRefused(t) \/ AttachFails(t)
       PROVE  Turns'
  <2>1. \E p \in {"attach", "started", "rollback"} : Goto(t, p)
    BY <1>11 DEF PublishStarted, Attach, AttachRefused, AttachFails, AfterStarted
  <2>2. call[t].at \in StartingPlaces /\ UNCHANGED <<camera, generation>>
    BY <1>11 DEF PublishStarted, Attach, AttachRefused, AttachFails
  <2> QED  BY <1>10, <2>1, <2>2
<1>12. ASSUME NEW t \in Threads, Started(t) \/ Finish(t) PROVE Turns'
  <2>1. \A u \in Threads : ~Busy(u)'
    <3>1. Busy(t) /\ Return(t)
      BY <1>12 DEF Started, Finish
    <3>2. \A u \in Threads \ {t} : ~Busy(u)
      BY <3>1
    <3> QED  BY <1>2, <3>1, <3>2
  <2>2. camera'.state \notin {"STARTING", "STOPPING"}
    BY <1>12 DEF Started, Finish, FinalState, CameraType
  <2> QED  BY <2>1, <2>2
<1>13. ASSUME NEW t \in Threads, Rollback(t) PROVE Turns'
  <2>1. camera.thread # None
    BY <1>13 DEF Rollback, HandlesOK
  <2>2. /\ call[t].at = "rollback" /\ call'[t].at = "halt" /\ generation' = generation
        /\ \A u \in Threads \ {t} : call'[u] = call[u]
    BY <1>13, GotoMoves DEF Rollback, Places
  <2>3. camera'.state = "STOPPING" /\ camera'.thread = camera.thread
    BY <1>13 DEF Rollback, CameraType
  <2>4. \A u \in Threads \ {t} : ~Busy(u)
    BY <2>2
  <2> QED  BY <2>1, <2>2, <2>3, <2>4
<1>14. ASSUME NEW t \in Threads, Stop(t) PROVE Turns'
  <2>1. \A u \in Threads : ~Busy(u)
    BY <1>14 DEF Stop, MayStop
  <2>2. camera.thread # None
    BY <1>14 DEF Stop, MayStop, HandlesOK
  <2> QED  BY <1>14, <2>1, <2>2 DEF Stop, CameraType, CallType
<1>15. ASSUME NEW t \in Threads, Halt(t) \/ Join(t) PROVE Turns'
  <2>1. CASE Halt(t)
    BY <2>1, GotoMoves DEF Halt, Places, CameraType
  <2>2. CASE Join(t)
    BY <2>2, GotoMoves DEF Join, AfterJoin, HandlesOK, Places, CameraType
  <2> QED  BY <1>15, <2>1, <2>2
<1>16. ASSUME NEW t \in Threads, PublishStopping(t) PROVE Turns'
  BY <1>16 DEF PublishStopping, CallType
<1>17. ASSUME NEW t \in Threads, Cleanup(t) PROVE Turns'
  BY <1>17, GotoMoves DEF Cleanup, HandlesOK, Places, CameraType
<1>18. ASSUME NEW t \in Threads, DestroyPool(t) \/ WaitTimeout(t) PROVE Turns'
  <2>1. CASE DestroyPool(t)
    BY <2>1, GotoMoves DEF DestroyPool, Places, CameraType
  <2>2. CASE WaitTimeout(t)
    BY <2>2, GotoMoves DEF WaitTimeout, Places
  <2> QED  BY <1>18, <2>1, <2>2
<1>19. ASSUME NEW t \in Threads, Detach(t) \/ DetachJoin(t) \/ DetachRelease(t) PROVE Turns'
  <2>1. /\ call[t].at \in Detaching /\ call'[t].resume = call[t].resume
        /\ UNCHANGED <<camera, generation>> /\ \A u \in Threads \ {t} : call'[u] = call[u]
        /\ \/ call'[t].at \in {"detach_join", "detach_release"}
           \/ call'[t].at = call[t].resume
    <3>1. CASE Detach(t)
      BY <3>1 DEF Detach, CallType
    <3>2. CASE DetachJoin(t)
      BY <3>2, GotoMoves DEF DetachJoin, Places
    <3>3. CASE DetachRelease(t)
      BY <3>3 DEF DetachRelease, CallType
    <3> QED  BY <1>19, <3>1, <3>2, <3>3
  <2>2. call[t].resume \in {"cleanup", "stop"}
    BY DEF CallType
  <2>3. CASE call[t].resume = "stop"
    BY <2>1, <2>3
  <2>4. CASE call[t].resume = "cleanup"
    BY <2>1, <2>4
  <2> QED  BY <2>2, <2>3, <2>4
<1>20. ASSUME NEW g \in Generations, Produce(g) \/ Consume(g) PROVE Turns'
  <2>1. UNCHANGED <<camera, generation, call>>
    BY <1>20, LoopMoves
  <2> QED  BY <2>1
<1> HIDE DEF Invariant, Turns, Busy, Detaches, Detaching, StartingPlaces, StoppingPlaces
<1> QED
  BY <1>3, <1>4, <1>5, <1>6, <1>7, <1>8, <1>9, <1>11, <1>12, <1>13, <1>14, <1>15, <1>16, <1>17,
     <1>18, <1>19, <1>20
     DEF Next, Begin, Step, Lifecycle

(* Each handle of the camera has few steps that touch it.                  *)
LEMMA CameraHandles ==
    ASSUME CameraType, Next
    PROVE  /\ camera'.thread = camera.thread \/ \E t \in Threads : Start(t) \/ Join(t)
           /\ camera'.channel = camera.channel \/ \E t \in Threads : Start(t) \/ Cleanup(t)
           /\ camera'.pool = camera.pool \/ \E t \in Threads : Start(t) \/ DestroyPool(t)
<1>1. ASSUME NEW t \in Threads,
             StartWithoutProducer(t) \/ Started(t) \/ Rollback(t) \/ Stop(t) \/ Halt(t) \/ Finish(t)
                \/ InitCamera(t)
      PROVE  /\ camera'.thread = camera.thread /\ camera'.channel = camera.channel
             /\ camera'.pool = camera.pool
  BY <1>1 DEF StartWithoutProducer, Started, Rollback, Stop, Halt, Finish, InitCamera, CameraType
<1>2. ASSUME NEW t \in Threads, Join(t)
      PROVE  camera'.channel = camera.channel /\ camera'.pool = camera.pool
  BY <1>2 DEF Join, CameraType
<1>3. ASSUME NEW t \in Threads, Cleanup(t)
      PROVE  camera'.thread = camera.thread /\ camera'.pool = camera.pool
  BY <1>3 DEF Cleanup, CameraType
<1>4. ASSUME NEW t \in Threads, DestroyPool(t)
      PROVE  camera'.thread = camera.thread /\ camera'.channel = camera.channel
  BY <1>4 DEF DestroyPool, CameraType
<1> QED  BY <1>1, <1>2, <1>3, <1>4, CameraMoves

(* The handles of the thread in a stop name the camera's stream.           *)
LEMMA StreamOfStop ==
    ASSUME Invariant, NEW t \in Threads
    PROVE  /\ call[t].at \in {"halt", "join"} =>
                  /\ camera.thread \in Generations /\ camera.channel = camera.thread
                  /\ camera.pool = camera.thread
           /\ call[t].at \in {"publish_stopping", "cleanup"} =>
                  camera.channel \in Generations /\ camera.pool = camera.channel
           /\ call[t].at = "wait_idle" => camera.pool \in Generations
BY TypeParts, HandleType DEF Invariant, Turns, HandlesOK

(* The streams of a start.                                                 *)
LEMMA StreamOfStart ==
    ASSUME Invariant, NEW t \in Threads
    PROVE  /\ call[t].at \in StartingPlaces =>
                  /\ call[t].gen = generation /\ generation \in Generations
                  /\ camera.thread = generation /\ camera.channel = generation
                  /\ camera.pool = generation
           /\ Start(t) =>
                  /\ generation + 1 \in Generations /\ camera.thread = None
                  /\ camera.channel = None /\ camera.pool = None
BY TypeParts, HandleType, Numbers
   DEF Invariant, Turns, HandlesOK, Start, MayStart, OthersType, CameraType, Generations, None

(* Producers and their handle.                                             *)
LEMMA ProducerOwnedStep == ASSUME Invariant, Next PROVE ProducerOwned'
<1> USE TypeParts, Numbers
<1> USE DEF Invariant, Owners, ProducerOwned, LoopType, Unjoined, CameraType
<1>1. ASSUME NEW t \in Threads, Start(t) PROVE ProducerOwned'
  <2>1. /\ producer' = [producer EXCEPT ![generation + 1].at = "loop"]
        /\ camera'.thread = generation + 1 /\ generation + 1 \in Generations
        /\ camera.thread = None
    BY <1>1, StreamOfStart DEF Start
  <2> QED  BY <2>1
<1>2. ASSUME NEW t \in Threads, Join(t) PROVE ProducerOwned'
  <2>1. /\ producer' = [producer EXCEPT ![camera.thread].at = "joined"]
        /\ camera'.thread = None /\ camera.thread \in Generations
        /\ producer[camera.thread].at = "done"
    BY <1>2, StreamOfStop DEF Join
  <2> QED  BY <2>1
<1>3. ASSUME camera'.thread = camera.thread, NEW t \in Threads, Halt(t) PROVE ProducerOwned'
  BY <1>3 DEF Halt, StopRequested
<1>4. ASSUME camera'.thread = camera.thread, NEW g \in Generations, Produce(g) PROVE ProducerOwned'
  <2>1. CASE ProducerExit(g)
    BY <1>4, <2>1 DEF ProducerExit
  <2>2. CASE ProducerAcquire(g)
    <3>1. PICK b \in Acquired(camera.pool) :
              producer' = [producer EXCEPT ![g].at = "frame", ![g].frame = b]
      BY <2>2 DEF ProducerAcquire
    <3>2. b # None
      BY AcquiredIsFree
    <3>3. producer[g].at = "loop"
      BY <2>2 DEF ProducerAcquire
    <3> QED  BY <1>4, <3>1, <3>2, <3>3
  <2>3. CASE ProducerSend(g)
    BY <1>4, <2>3 DEF ProducerSend
  <2>4. CASE ProducerRelease(g)
    BY <1>4, <2>4 DEF ProducerRelease
  <2>5. CASE ProducerGivesUp(g)
    BY <1>4, <2>5 DEF ProducerGivesUp
  <2> QED  BY <1>4, <2>1, <2>2, <2>3, <2>4, <2>5 DEF Produce
<1>5. CASE camera'.thread = camera.thread /\ producer' = producer
  BY <1>5
<1> QED  BY <1>1, <1>2, <1>3, <1>4, <1>5, CameraHandles, ProducerMoves

(* An owner keeps its reference over the steps of the others.              *)
LEMMA HoldersKept ==
    ASSUME Invariant, Next
    PROVE  /\ \/ \A g \in Generations : "camera" \in channel'[g].holders <=> "camera" \in channel[g].holders
              \/ \E t \in Threads : Start(t) \/ Cleanup(t)
           /\ \/ \A g \in Generations : "zlmedia" \in channel'[g].holders <=> "zlmedia" \in channel[g].holders
              \/ \E t \in Threads : Start(t) \/ Attach(t) \/ DetachRelease(t)
<1> USE TypeParts
<1> USE DEF Invariant, ChannelType
<1>1. CASE channel' = channel
  BY <1>1
<1>2. ASSUME NEW t \in Threads, Attach(t)
      PROVE  \A g \in Generations : "camera" \in channel'[g].holders <=> "camera" \in channel[g].holders
  <2>1. channel' = [channel EXCEPT ![call[t].gen].holders = @ \union {"zlmedia"}]
    BY <1>2 DEF Attach
  <2> QED  BY <2>1
<1>3. ASSUME NEW t \in Threads, DetachRelease(t)
      PROVE  \A g \in Generations : "camera" \in channel'[g].holders <=> "camera" \in channel[g].holders
  <2>1. CASE channel' = [channel EXCEPT ![call[t].channel] = Released(channel[call[t].channel], "zlmedia")]
    BY <2>1 DEF Released
  <2> QED  BY <1>3, <2>1 DEF DetachRelease
<1>4. ASSUME NEW t \in Threads, Cleanup(t)
      PROVE  \A g \in Generations : "zlmedia" \in channel'[g].holders <=> "zlmedia" \in channel[g].holders
  <2>1. channel' = [channel EXCEPT ![camera.channel] = Released(channel[camera.channel], "camera")]
    BY <1>4 DEF Cleanup
  <2> QED  BY <2>1 DEF Released
<1>5. ASSUME NEW t \in Threads, Halt(t)
      PROVE  \A g \in Generations : channel'[g].holders = channel[g].holders
  BY <1>5 DEF Halt
<1>6. ASSUME NEW g \in Generations, ProducerSend(g) \/ ConsumerReceive(g)
      PROVE  \A h \in Generations : channel'[h].holders = channel[h].holders
  <2>1. CASE ProducerSend(g)
    BY <2>1 DEF ProducerSend
  <2>2. CASE ConsumerReceive(g)
    BY <2>2 DEF ConsumerReceive
  <2> QED  BY <1>6, <2>1, <2>2
<1> QED  BY <1>1, <1>2, <1>3, <1>4, <1>5, <1>6, ChannelMoves

(* The camera's references.                                                *)
LEMMA CameraOwnedStep == ASSUME Invariant, Next PROVE CameraOwned'
<1> USE TypeParts, Numbers
<1> USE DEF Invariant, Owners, CameraOwned, ChannelType
<1>1. ASSUME NEW t \in Threads, Start(t) PROVE CameraOwned'
  <2>1. /\ channel' = [channel EXCEPT ![generation + 1].holders = {"camera"}]
        /\ camera'.channel = generation + 1 /\ generation + 1 \in Generations
        /\ camera.channel = None
    BY <1>1, StreamOfStart DEF Start
  <2> QED  BY <2>1
<1>2. ASSUME NEW t \in Threads, Cleanup(t) PROVE CameraOwned'
  <2>1. /\ channel' = [channel EXCEPT ![camera.channel] = Released(channel[camera.channel], "camera")]
        /\ camera'.channel = None /\ camera.channel \in Generations
    BY <1>2, StreamOfStop DEF Cleanup, CameraType
  <2> QED  BY <2>1 DEF Released
<1>3. CASE /\ camera'.channel = camera.channel
           /\ \A g \in Generations : "camera" \in channel'[g].holders <=> "camera" \in channel[g].holders
  BY <1>3
<1> QED  BY <1>1, <1>2, <1>3, CameraHandles, HoldersKept

(* A thread at which a start is still to be announced to zlmedia.          *)
BeforeAttach(c) == c.at \in {"publish_started", "attach"}

(* Few steps touch zlmedia's handle, where it is and when a thread has     *)
(* taken it over.                                                          *)
LEMMA ZlmediaHandles ==
    ASSUME TypeOK, Next
    PROVE  /\ \/ zl'.channel = zl.channel /\ zl'.thread = zl.thread
              \/ \E t \in Threads : Attach(t) \/ AttachFails(t) \/ Detach(t)
           /\ \/ \A u \in Threads : /\ call'[u].channel = call[u].channel
                                    /\ call'[u].thread = call[u].thread
              \/ \E t \in Threads : Detach(t) \/ DetachRelease(t)
           /\ \/ \A u \in Threads : call'[u].at = "detach_join" <=> call[u].at = "detach_join"
              \/ \E t \in Threads : Detach(t) \/ DetachJoin(t)
           /\ \/ \A u \in Threads : /\ call'[u].at = "detach_release" <=> call[u].at = "detach_release"
                                    /\ BeforeAttach(call'[u]) => BeforeAttach(call[u])
              \/ \E t \in Threads : Start(t) \/ Detach(t) \/ DetachJoin(t) \/ DetachRelease(t)
<1> USE TypeParts
<1> USE DEF BeforeAttach
<1> DEFINE Kept == \A u \in Threads :
              /\ call'[u].channel = call[u].channel /\ call'[u].thread = call[u].thread
              /\ call'[u].at = "detach_join" <=> call[u].at = "detach_join"
       Waits == \A u \in Threads :
              /\ call'[u].at = "detach_release" <=> call[u].at = "detach_release"
              /\ BeforeAttach(call'[u]) => BeforeAttach(call[u])
       Joins == {"detach_join", "detach_release"}
<1>1. ASSUME NEW t \in Threads, NEW p \in Places \ Joins, Goto(t, p), call[t].at \notin Joins,
             p \in {"publish_started", "attach"} => BeforeAttach(call[t])
      PROVE  Kept /\ Waits
  BY <1>1, GotoMoves
<1>2. ASSUME NEW t \in Threads, Return(t), call[t].at \notin Joins PROVE Kept /\ Waits
  BY <1>2, ReturnMoves, WaysDown
<1>3. ASSUME NEW t \in Threads,
             StartRefused(t) \/ StartWithoutProducer(t) \/ Started(t) \/ StopRefused(t) \/ Finish(t)
      PROVE  Kept /\ Waits
  BY <1>2, <1>3 DEF StartRefused, StartWithoutProducer, Started, StopRefused, Finish
<1>4. ASSUME NEW t \in Threads,
             \/ PublishStarted(t) \/ Attach(t) \/ AttachRefused(t) \/ AttachFails(t) \/ Rollback(t)
             \/ Halt(t) \/ Join(t) \/ Cleanup(t) \/ DestroyPool(t) \/ WaitTimeout(t)
             \/ Boot(t)
      PROVE  Kept /\ Waits
  <2>1. \E p \in Places \ Joins : Goto(t, p) /\ (p = "attach" => PublishStarted(t)) /\ p # "publish_started"
    BY <1>4 DEF PublishStarted, Attach, AttachRefused, AttachFails, Rollback, Halt, Join, Cleanup,
       DestroyPool, WaitTimeout, Boot, AfterStarted, AfterJoin, Places
  <2>2. call[t].at \notin Joins /\ (PublishStarted(t) => BeforeAttach(call[t]))
    BY <1>4 DEF PublishStarted, Attach, AttachRefused, AttachFails, Rollback, Halt, Join, Cleanup,
       DestroyPool, WaitTimeout, Boot
  <2> QED  BY <1>1, <2>1, <2>2
<1>5. ASSUME NEW t \in Threads, Start(t) PROVE Kept
  BY <1>5 DEF Start, CallType
<1>6. ASSUME NEW t \in Threads, Stop(t) \/ PublishStopping(t) \/ Shutdown(t) \/ Lifecycle(t)
      PROVE  Kept /\ Waits
  <2>1. CASE Stop(t)
    BY <2>1 DEF Stop, CallType
  <2>2. CASE PublishStopping(t)
    BY <2>2 DEF PublishStopping, CallType
  <2>3. CASE Shutdown(t)
    <3>1. call[t].at = "ready" /\ call'[t].at \notin Joins \union {"publish_started", "attach"}
      BY <2>3, DownMoves, WaysDown DEF Shutdown
    <3> QED  BY <2>3, <3>1, DownMoves
  <2>4. CASE Lifecycle(t)
    <3>1. call[t].at \notin Joins /\ call'[t].at \notin Joins \union {"publish_started", "attach"}
      BY <2>4, LifecycleMoves DEF CorePlaces, InitPlaces, EndPlaces
    <3> QED  BY <2>4, <3>1, LifecycleMoves
  <2> QED  BY <1>6, <2>1, <2>2, <2>3, <2>4
<1>7. ASSUME NEW t \in Threads, NEW o \in {"start", "stop"}, Call(t, o) PROVE Kept /\ Waits
  BY <1>1, <1>7 DEF Call, Places
<1>8. ASSUME call' = call PROVE Kept /\ Waits
  BY <1>8
<1>9. ASSUME NEW g \in Generations, Produce(g) \/ Consume(g) PROVE call' = call
  BY <1>9 DEF Produce, Consume, ProducerExit, ProducerAcquire, ProducerSend, ProducerGivesUp, ProducerRelease,
     ConsumerTest, ConsumerReceive, ConsumerReceiveNothing, ConsumerRelease
<1>10. /\ Kept \/ \E t \in Threads : Detach(t) \/ DetachJoin(t) \/ DetachRelease(t)
       /\ Waits \/ \E t \in Threads : Start(t) \/ Detach(t) \/ DetachJoin(t) \/ DetachRelease(t)
  <2> HIDE DEF Kept, Waits
  <2> QED  BY <1>3, <1>4, <1>5, <1>6, <1>7, <1>8, <1>9 DEF Next, Begin, Step, Lifecycle
<1>11. ASSUME NEW t \in Threads, DetachJoin(t)
       PROVE  \A u \in Threads : call'[u].channel = call[u].channel /\ call'[u].thread = call[u].thread
  BY <1>11, GotoMoves DEF DetachJoin, Places
<1>12. ASSUME NEW t \in Threads, DetachRelease(t)
       PROVE  \A u \in Threads : call'[u].at = "detach_join" <=> call[u].at = "detach_join"
  BY <1>12 DEF DetachRelease, CallType
<1>13. ASSUME NEW t \in Threads, SubscribeStarted(t)
       PROVE  zl'.channel = zl.channel /\ zl'.thread = zl.thread
  BY <1>13 DEF SubscribeStarted, ZlmediaType
<1> QED  BY <1>10, <1>11, <1>12, <1>13, ZlmediaMoves

(* What a thread that detaches does to the handles.                        *)
LEMMA DetachMoves ==
    ASSUME TypeOK, NEW t \in Threads, Detach(t)
    PROVE  /\ zl'.channel = None /\ zl'.thread = None /\ ~zl'.running
           /\ zl'.generation = zl.generation
           /\ \A g \in Generations : /\ consumer'[g].at = consumer[g].at
                                     /\ consumer'[g].frame = consumer[g].frame
           /\ call'[t].channel = zl.channel /\ call'[t].thread = zl.thread
           /\ call'[t].at = IF zl.thread = None THEN "detach_release" ELSE "detach_join"
           /\ call'[t].gen = call[t].gen /\ call'[t].resume = call[t].resume
           /\ \A u \in Threads \ {t} : call'[u] = call[u]
<1>1. \A g \in Generations : /\ consumer'[g].at = consumer[g].at
                             /\ consumer'[g].frame = consumer[g].frame
  BY TypeParts DEF Detach, StopRequested, LoopType
<1> QED  BY <1>1, TypeParts DEF Detach, CallType, ZlmediaType

(* Likewise the step that gives the reference back.                        *)
LEMMA ReleaseMoves ==
    ASSUME TypeOK, NEW t \in Threads, DetachRelease(t)
    PROVE  /\ call'[t].channel = None /\ call'[t].thread = None /\ call'[t].at = call[t].resume
           /\ call'[t].gen = call[t].gen /\ call'[t].resume = call[t].resume
           /\ \A u \in Threads \ {t} : call'[u] = call[u]
BY TypeParts DEF DetachRelease, CallType

(* And the one that attaches.                                              *)
LEMMA AttachMoves ==
    ASSUME Invariant, NEW t \in Threads, Attach(t)
    PROVE  /\ generation \in Generations /\ consumer[generation].at = "none"
           /\ zl.channel = None /\ zl.thread = None
           /\ zl' = [thread |-> generation, channel |-> generation, generation |-> generation,
                     running |-> TRUE]
           /\ channel' = [channel EXCEPT ![generation].holders = @ \union {"zlmedia"}]
           /\ consumer' = [consumer EXCEPT ![generation].at = "loop"]
           /\ \A u \in Threads : call'[u].channel = call[u].channel /\ call'[u].thread = call[u].thread
           /\ \A u \in Threads : call'[u].at = "detach_join" <=> call[u].at = "detach_join"
<1>1. call[t].gen = generation /\ generation \in Generations
  BY StreamOfStart DEF Attach, StartingPlaces
<1>2. ~Detach(t) /\ call[t].at = "attach"
  BY DEF Attach, Detach
<1>3. PICK p \in {"started", "rollback"} : Goto(t, p)
  BY DEF Attach, AfterStarted
<1>4. \A u \in Threads : /\ call'[u].channel = call[u].channel /\ call'[u].thread = call[u].thread
                         /\ call'[u].at = "detach_join" <=> call[u].at = "detach_join"
  BY <1>2, <1>3, GotoMoves, TypeParts DEF Invariant, Places
<1> QED  BY <1>1, <1>2, <1>4 DEF Attach, AttachedGeneration, Invariant, Attached, AttachedOnce, DetachedOnce

(* zlmedia's references.                                                   *)
LEMMA ZlmediaOwnedStep == ASSUME Invariant, Next PROVE ZlmediaOwned'
<1> USE TypeParts, Numbers
<1> USE DEF Invariant, Owners, ZlmediaOwned, ChannelType
<1>1. ASSUME NEW t \in Threads, Start(t) PROVE ZlmediaOwned'
  <2>1. /\ channel' = [channel EXCEPT ![generation + 1].holders = {"camera"}]
        /\ generation + 1 \in Generations /\ zl' = zl
    BY <1>1, StreamOfStart DEF Start
  <2>0. \A u \in Threads : call'[u].channel = call[u].channel
    BY <1>1 DEF Start, CallType
  <2>2. consumer[generation + 1].at = "none"
    BY <2>1 DEF Attached, AttachedOnce, DetachedOnce, OthersType
  <2>3. zl.channel # generation + 1 /\ \A u \in Threads : call[u].channel # generation + 1
    BY <2>1, <2>2 DEF Attached, AttachedOnce, DetachedOnce, None
  <2>4. "zlmedia" \notin channel'[generation + 1].holders
    BY <2>1
  <2>5. \A h \in Generations \ {generation + 1} : channel'[h] = channel[h]
    BY <2>1
  <2> HIDE DEF ChannelType
  <2> QED  BY <2>0, <2>1, <2>3, <2>4, <2>5
<1>2. ASSUME NEW t \in Threads, Attach(t) PROVE ZlmediaOwned'
  <2>1. "zlmedia" \in channel'[generation].holders /\ generation \in Generations
    BY <1>2, AttachMoves
  <2>2. \A h \in Generations \ {generation} : channel'[h] = channel[h]
    BY <1>2, AttachMoves
  <2>3. zl.channel = None /\ zl'.channel = generation
    BY <1>2, AttachMoves
  <2>4. \A u \in Threads : call'[u].channel = call[u].channel
    BY <1>2, AttachMoves
  <2> HIDE DEF ChannelType
  <2> QED  BY <2>1, <2>2, <2>3, <2>4
<1>3. ASSUME NEW t \in Threads, DetachRelease(t) PROVE ZlmediaOwned'
  <2>1. CASE call[t].channel = None
    <3>1. channel' = channel /\ zl' = zl
      BY <1>3, <2>1 DEF DetachRelease
    <3>2. \A u \in Threads : call'[u].channel = call[u].channel
      BY <1>3, <2>1, ReleaseMoves
    <3> QED  BY <3>1, <3>2
  <2>2. CASE call[t].channel # None
    <3> DEFINE g == call[t].channel
    <3>1. channel' = [channel EXCEPT ![g] = Released(channel[g], "zlmedia")] /\ zl' = zl
      BY <1>3, <2>2 DEF DetachRelease
    <3>2. g # zl.channel /\ g \in Generations /\ \A u \in Threads \ {t} : call[u].channel # g
      BY <2>2, HandleType DEF Attached, AttachedOnce, DetachedOnce
    <3>3. "zlmedia" \notin channel'[g].holders /\ \A h \in Generations \ {g} : channel'[h] = channel[h]
      <4>1. "zlmedia" \notin Released(channel[g], "zlmedia").holders
        BY <3>2 DEF Released
      <4> HIDE DEF g
      <4> QED  BY <3>1, <3>2, <4>1
    <3>4. call'[t].channel = None /\ \A u \in Threads \ {t} : call'[u].channel = call[u].channel
      BY <1>3, ReleaseMoves
    <3>5. \A u \in Threads : call'[u].channel # g
      BY <2>2, <3>2, <3>4
    <3>6. ASSUME NEW h \in Generations \ {g}, NEW u \in Threads
          PROVE  call'[u].channel = h <=> call[u].channel = h
      BY <3>4
    <3> HIDE DEF g, ChannelType
    <3>7. ASSUME NEW h \in Generations \ {g}
          PROVE  "zlmedia" \in channel'[h].holders <=>
                     zl'.channel = h \/ \E u \in Threads : call'[u].channel = h
      BY <3>1, <3>3, <3>6
    <3> QED  BY <3>1, <3>2, <3>3, <3>5, <3>7
  <2> QED  BY <2>1, <2>2
<1>4. ASSUME NEW t \in Threads, Detach(t) PROVE ZlmediaOwned'
  <2>1. channel' = channel /\ call[t].channel = None
    BY <1>4 DEF Detach, Attached, AttachedOnce, DetachedOnce
  <2> QED  BY <1>4, <2>1, DetachMoves
<1>5. ASSUME NEW t \in Threads, AttachFails(t)
      PROVE  zl'.channel = zl.channel
  BY <1>5 DEF AttachFails, Attached, AttachedOnce, DetachedOnce
<1>6. CASE /\ zl'.channel = zl.channel
           /\ \A u \in Threads : call'[u].channel = call[u].channel
           /\ \A g \in Generations : "zlmedia" \in channel'[g].holders <=> "zlmedia" \in channel[g].holders
  <2> HIDE DEF ChannelType
  <2> QED  BY <1>6, SMTT(20)
<1> QED  BY <1>1, <1>2, <1>3, <1>4, <1>5, <1>6, ZlmediaHandles, HoldersKept

(* Consumers and their handle.                                             *)
LEMMA ConsumerOwnedStep == ASSUME Invariant, Next PROVE ConsumerOwned'
<1> USE TypeParts, Numbers
<1> USE DEF Invariant, Owners, ConsumerOwned, LoopType, Unjoined
<1>1. ASSUME NEW t \in Threads, Attach(t) PROVE ConsumerOwned'
  <2>1. \A g \in Generations : (zl'.channel = g) <=> (g = generation)
    BY <1>1, AttachMoves
  <2> QED  BY <1>1, <2>1, AttachMoves
<1>2. ASSUME NEW t \in Threads, Detach(t) PROVE ConsumerOwned'
  <2>1. \A g \in Generations : /\ consumer'[g].at = consumer[g].at
                               /\ consumer'[g].frame = consumer[g].frame
    BY <1>2, DetachMoves
  <2>2. \A u \in Threads \ {t} : call'[u].at = call[u].at /\ call'[u].channel = call[u].channel
    BY <1>2, DetachMoves
  <2>3. \A g \in Generations : zl.channel = g <=> call'[t].at = "detach_join" /\ call'[t].channel = g
    BY <1>2, DetachMoves DEF Attached, AttachedOnce, DetachedOnce
  <2>4. zl'.channel = None /\ call[t].at # "detach_join"
    BY <1>2, DetachMoves DEF Detach
  <2>5. ASSUME NEW g \in Generations
        PROVE  zl.channel = g \/ (\E u \in Threads : call[u].at = "detach_join" /\ call[u].channel = g)
                   <=> \E u \in Threads : call'[u].at = "detach_join" /\ call'[u].channel = g
    BY <2>2, <2>3, <2>4
  <2>6. \A g \in Generations : zl'.channel # g
    BY <2>4
  <2> QED  BY <2>1, <2>5, <2>6
<1>3. ASSUME NEW t \in Threads, DetachJoin(t) PROVE ConsumerOwned'
  <2> DEFINE g == call[t].thread
  <2>1. /\ g = call[t].channel /\ g \in Generations /\ zl' = zl
        /\ consumer' = [consumer EXCEPT ![g].at = "joined"] /\ consumer[g].at = "done"
    BY <1>3, HandleType DEF DetachJoin, Attached, AttachedOnce, DetachedOnce
  <2>2. zl.channel # g /\ \A u \in Threads \ {t} : call[u].channel # g
    BY <2>1 DEF Attached, AttachedOnce, DetachedOnce
  <2>3. /\ call'[t].at = "detach_release"
        /\ \A u \in Threads \ {t} : call'[u].at = call[u].at /\ call'[u].channel = call[u].channel
    <3>1. Goto(t, "detach_release") /\ "detach_release" \in Places
      BY <1>3 DEF DetachJoin, Places
    <3>2. CallType
      OBVIOUS
    <3> HIDE DEF Invariant, Owners, ConsumerOwned, LoopType, Unjoined
    <3> QED  BY <3>1, <3>2, GotoMoves
  <2>4. \A h \in Generations \ {g} : consumer'[h] = consumer[h]
    BY <2>1
  <2>5. consumer'[g].at = "joined" /\ consumer'[g].frame = consumer[g].frame
    BY <2>1
  <2> QED  BY <2>1, <2>2, <2>3, <2>4, <2>5
<1>4. ASSUME NEW g \in Generations, Consume(g)
      PROVE  \A h \in Generations : /\ Unjoined(consumer'[h]) <=> Unjoined(consumer[h])
                                    /\ consumer'[h].frame # None <=> consumer'[h].at = "frame"
  <2>1. CASE ConsumerTest(g)
    BY <2>1 DEF ConsumerTest
  <2>2. CASE ConsumerReceive(g)
    <3>1. channel[g].queue \in Seq(Blocks) /\ channel[g].queue # <<>>
      BY <2>2 DEF ConsumerReceive, ChannelType
    <3>2. Head(channel[g].queue) # None
      BY <3>1, HeadTailProperties
    <3> QED  BY <2>2, <3>2 DEF ConsumerReceive
  <2>3. CASE ConsumerReceiveNothing(g)
    BY <2>3 DEF ConsumerReceiveNothing
  <2>4. CASE ConsumerRelease(g)
    BY <2>4 DEF ConsumerRelease
  <2> QED  BY <1>4, <2>1, <2>2, <2>3, <2>4 DEF Consume
<1>5. ASSUME NEW t \in Threads, AttachFails(t) PROVE zl'.channel = zl.channel
  BY <1>5 DEF AttachFails, Attached, AttachedOnce, DetachedOnce
<1>6. CASE /\ zl'.channel = zl.channel
           /\ \A u \in Threads : call'[u].channel = call[u].channel
           /\ \A u \in Threads : call'[u].at = "detach_join" <=> call[u].at = "detach_join"
           /\ \A h \in Generations : /\ Unjoined(consumer'[h]) <=> Unjoined(consumer[h])
                                     /\ consumer'[h].frame # None <=> consumer'[h].at = "frame"
  BY <1>6
<1>7. ASSUME NEW t \in Threads, DetachRelease(t)
      PROVE  zl' = zl /\ consumer' = consumer
  BY <1>7 DEF DetachRelease
<1>8. ASSUME NEW t \in Threads, DetachRelease(t) PROVE ConsumerOwned'
  <2>1. call[t].at # "detach_join" /\ call'[t].at # "detach_join"
    <3>1. call[t].at = "detach_release" /\ call[t].resume \in {"cleanup", "stop"}
      BY <1>8 DEF DetachRelease, CallType
    <3> QED  BY <1>8, <3>1, ReleaseMoves
  <2> QED  BY <1>7, <1>8, <2>1, ReleaseMoves
<1>9. CASE consumer' = consumer
  BY <1>2, <1>3, <1>5, <1>6, <1>8, <1>9, <1>1, ZlmediaHandles
<1> QED  BY <1>1, <1>2, <1>3, <1>4, <1>5, <1>6, <1>8, <1>9, ZlmediaHandles, ConsumerMoves

(* What a queue holds after a send or a receive.                           *)
LEMMA QueueHolds ==
    ASSUME NEW q \in Seq(Blocks)
    PROVE  /\ \A b \in Blocks : \A i \in DOMAIN Append(q, b) :
                  Append(q, b)[i] = b \/ \E j \in DOMAIN q : Append(q, b)[i] = q[j]
           /\ q # <<>> => /\ 1 \in DOMAIN q /\ Head(q) = q[1]
                          /\ \A i \in DOMAIN Tail(q) : i + 1 \in DOMAIN q /\ Tail(q)[i] = q[i + 1]
<1>1. ASSUME NEW b \in Blocks, NEW i \in DOMAIN Append(q, b)
      PROVE  Append(q, b)[i] = b \/ \E j \in DOMAIN q : Append(q, b)[i] = q[j]
  BY <1>1, AppendProperties
<1>2. CASE q # <<>>
  <2>1. Len(q) \in Nat \ {0} /\ DOMAIN q = 1..Len(q)
    BY <1>2, EmptySeq
  <2>2. Len(Tail(q)) = Len(q) - 1 /\ \A i \in 1..Len(Tail(q)) : Tail(q)[i] = q[i + 1]
    BY <1>2, HeadTailProperties
  <2>3. Tail(q) \in Seq(Blocks)
    BY <1>2, HeadTailProperties
  <2> QED  BY <2>1, <2>2, <2>3
<1> QED  BY <1>1, <1>2

(* A block comes into use in the stream of the producer that acquires it.  *)
LEMMA InUseGrows ==
    ASSUME Invariant, Next, NEW g \in Generations
    PROVE  InUse(g)' \subseteq InUse(g) \/ ProducerAcquire(g)
<1> USE TypeParts, Numbers
<1> USE DEF Invariant, InUse, LoopType, ChannelType
<1>1. CASE UNCHANGED <<channel, producer, consumer>>
  BY <1>1
<1>2. ASSUME NEW t \in Threads, Start(t) PROVE InUse(g)' \subseteq InUse(g)
  <2>1. /\ channel'[g].queue = channel[g].queue /\ producer'[g].frame = producer[g].frame
        /\ consumer' = consumer
    BY <1>2 DEF Start
  <2> QED  BY <2>1
<1>3. ASSUME NEW t \in Threads, Attach(t) PROVE InUse(g)' \subseteq InUse(g)
  <2>1. /\ channel'[g].queue = channel[g].queue /\ producer' = producer
        /\ consumer'[g].frame = consumer[g].frame
    BY <1>3 DEF Attach
  <2> QED  BY <2>1
<1>4. ASSUME NEW t \in Threads, Halt(t) \/ Join(t) PROVE InUse(g)' \subseteq InUse(g)
  <2>1. /\ channel'[g].queue = channel[g].queue /\ producer'[g].frame = producer[g].frame
        /\ consumer' = consumer
    <3>1. CASE Halt(t)
      BY <3>1 DEF Halt, StopRequested
    <3>2. CASE Join(t)
      BY <3>2 DEF Join
    <3> QED  BY <1>4, <3>1, <3>2
  <2> QED  BY <2>1
<1>5. ASSUME NEW t \in Threads, Detach(t) \/ DetachJoin(t) PROVE InUse(g)' \subseteq InUse(g)
  <2>1. channel' = channel /\ producer' = producer /\ consumer'[g].frame = consumer[g].frame
    <3>1. CASE Detach(t)
      BY <3>1 DEF Detach, StopRequested
    <3>2. CASE DetachJoin(t)
      BY <3>2 DEF DetachJoin
    <3> QED  BY <1>5, <3>1, <3>2
  <2> QED  BY <2>1
<1>6. ASSUME NEW t \in Threads, Cleanup(t) \/ DetachRelease(t) PROVE InUse(g)' \subseteq InUse(g)
  <2>1. channel'[g].queue \in {<<>>, channel[g].queue}
    <3>1. CASE Cleanup(t)
      <4>1. channel' = [channel EXCEPT ![camera.channel] = Released(channel[camera.channel], "camera")]
        BY <3>1 DEF Cleanup
      <4> QED  BY <4>1 DEF Released
    <3>2. CASE DetachRelease(t)
      <4>1. CASE channel' =
                 [channel EXCEPT ![call[t].channel] = Released(channel[call[t].channel], "zlmedia")]
        BY <4>1 DEF Released
      <4> QED  BY <3>2, <4>1 DEF DetachRelease
    <3> QED  BY <1>6, <3>1, <3>2
  <2>2. producer' = producer /\ consumer' = consumer
    BY <1>6 DEF Cleanup, DetachRelease
  <2> QED  BY <2>1, <2>2
<1>7. ASSUME NEW h \in Generations, ProducerSend(h) PROVE InUse(g)' \subseteq InUse(g)
  <2>1. camera.channel = h /\ producer[h].frame \in Blocks
    <3>1. producer[h].at = "frame" /\ ProducerOwned /\ HandlesOK
      BY <1>7 DEF ProducerSend, Owners
    <3>2. camera.thread = h /\ producer[h].frame # None
      BY <3>1 DEF ProducerOwned, Unjoined
    <3> QED  BY <3>1, <3>2 DEF HandlesOK
  <2>2. consumer' = consumer /\ producer'[g].frame = producer[g].frame
    BY <1>7 DEF ProducerSend
  <2>3. channel'[g].queue = channel[g].queue
        \/ (g = h /\ channel'[g].queue = Append(channel[g].queue, producer[g].frame))
    BY <1>7, <2>1 DEF ProducerSend
  <2>4. channel[g].queue \in Seq(Blocks)
    OBVIOUS
  <2>5. \A i \in DOMAIN channel'[g].queue :
            channel'[g].queue[i] = producer[g].frame
            \/ \E j \in DOMAIN channel[g].queue : channel'[g].queue[i] = channel[g].queue[j]
    <3> HIDE DEF ChannelType, LoopType, Invariant, InUse
    <3>1. CASE channel'[g].queue = channel[g].queue
      BY <3>1
    <3>2. CASE g = h /\ channel'[g].queue = Append(channel[g].queue, producer[g].frame)
      BY <2>1, <2>4, <3>2, QueueHolds
    <3> QED  BY <2>3, <3>1, <3>2
  <2> HIDE DEF ChannelType, LoopType
  <2> QED  BY <2>2, <2>5
<1>8. ASSUME NEW h \in Generations, ProducerExit(h) \/ ProducerRelease(h) \/ ProducerGivesUp(h)
      PROVE  InUse(g)' \subseteq InUse(g)
  <2>1. channel' = channel /\ consumer' = consumer /\ producer'[g].frame \in {None, producer[g].frame}
    <3>1. CASE ProducerExit(h)
      BY <3>1 DEF ProducerExit
    <3>2. CASE ProducerRelease(h)
      BY <3>2 DEF ProducerRelease
    <3>3. CASE ProducerGivesUp(h)
      BY <3>3 DEF ProducerGivesUp
    <3> QED  BY <1>8, <3>1, <3>2, <3>3
  <2> QED  BY <2>1
<1>9. ASSUME NEW h \in Generations, ProducerAcquire(h), h # g PROVE InUse(g)' \subseteq InUse(g)
  <2>1. channel' = channel /\ consumer' = consumer /\ producer'[g].frame = producer[g].frame
    BY <1>9 DEF ProducerAcquire
  <2> QED  BY <2>1
<1>10. ASSUME NEW h \in Generations, ConsumerTest(h) \/ ConsumerReceiveNothing(h) \/ ConsumerRelease(h)
       PROVE  InUse(g)' \subseteq InUse(g)
  <2>1. channel' = channel /\ producer' = producer /\ consumer'[g].frame \in {None, consumer[g].frame}
    <3>1. CASE ConsumerTest(h)
      BY <3>1 DEF ConsumerTest
    <3>2. CASE ConsumerReceiveNothing(h)
      BY <3>2 DEF ConsumerReceiveNothing
    <3>3. CASE ConsumerRelease(h)
      BY <3>3 DEF ConsumerRelease
    <3> QED  BY <1>10, <3>1, <3>2, <3>3
  <2> QED  BY <2>1
<1>11. ASSUME NEW h \in Generations, ConsumerReceive(h) PROVE InUse(g)' \subseteq InUse(g)
  <2>1. CASE h # g
    <3>1. channel'[g] = channel[g] /\ consumer'[g] = consumer[g] /\ producer' = producer
      BY <1>11, <2>1 DEF ConsumerReceive
    <3> QED  BY <3>1
  <2>2. CASE h = g
    <3>1. /\ channel'[g].queue = Tail(channel[g].queue) /\ consumer'[g].frame = Head(channel[g].queue)
          /\ producer' = producer /\ channel[g].queue # <<>> /\ channel[g].queue \in Seq(Blocks)
      BY <1>11, <2>2 DEF ConsumerReceive
    <3>2. \E j \in DOMAIN channel[g].queue : consumer'[g].frame = channel[g].queue[j]
      BY <3>1, QueueHolds
    <3>3. \A i \in DOMAIN channel'[g].queue :
              \E j \in DOMAIN channel[g].queue : channel'[g].queue[i] = channel[g].queue[j]
      BY <3>1, QueueHolds
    <3> HIDE DEF ChannelType, LoopType
    <3> QED  BY <3>1, <3>2, <3>3
  <2> QED  BY <2>1, <2>2
<1>12. ASSUME NEW t \in Threads, Start(t) \/ Attach(t) \/ Halt(t) \/ Join(t) \/ Cleanup(t)
              \/ Detach(t) \/ DetachJoin(t) \/ DetachRelease(t)
       PROVE  InUse(g)' \subseteq InUse(g)
  BY <1>2, <1>3, <1>4, <1>5, <1>6, <1>12, Zenon
<1>13. ASSUME NEW h \in Generations, Produce(h) \/ Consume(h), ~ProducerAcquire(g)
       PROVE  InUse(g)' \subseteq InUse(g)
  BY <1>7, <1>8, <1>9, <1>10, <1>11, <1>13, Zenon DEF Produce, Consume
<1> HIDE DEF Invariant, InUse, LoopType, ChannelType
<1>14. \/ UNCHANGED <<channel, producer, consumer>>
       \/ \E t \in Threads : Start(t) \/ Attach(t) \/ Halt(t) \/ Join(t) \/ Cleanup(t)
              \/ Detach(t) \/ DetachJoin(t) \/ DetachRelease(t)
       \/ \E h \in Generations : Produce(h) \/ Consume(h)
  BY ChannelMoves, ProducerMoves, ConsumerMoves, Zenon DEF Produce, Consume
<1> QED  BY <1>1, <1>12, <1>13, <1>14, Zenon

(* Blocks in use are the camera's.                                         *)
LEMMA BlocksOwnedStep == ASSUME Invariant, Next PROVE BlocksOwned'
<1> USE TypeParts, Numbers
<1> SUFFICES ASSUME NEW g \in Generations, ~Idle(g)' PROVE camera'.pool = g
  BY DEF BlocksOwned
<1>1. CASE ProducerAcquire(g)
  <2>1. camera' = camera /\ camera.pool = g
    BY <1>1 DEF ProducerAcquire, Invariant, Owners, ProducerOwned, Unjoined, HandlesOK, None
  <2> QED  BY <2>1
<1>2. CASE InUse(g)' \subseteq InUse(g)
  <2>1. ~Idle(g)
    BY <1>2 DEF Idle
  <2>2. camera.pool = g /\ g # None
    BY <2>1 DEF Invariant, Owners, BlocksOwned
  <2>3. ASSUME NEW t \in Threads PROVE ~Start(t) /\ ~DestroyPool(t)
    BY <2>1, <2>2 DEF Start, MayStart, DestroyPool
  <2> QED  BY <2>2, <2>3, CameraHandles DEF Invariant
<1> QED  BY <1>1, <1>2, InUseGrows

(* Only an attach makes a consumer of a stream that had none, and only a   *)
(* start counts the streams.                                               *)
LEMMA StreamsCounted ==
    ASSUME Invariant, Next
    PROVE  /\ \/ \A g \in Generations : consumer'[g].at = "none" <=> consumer[g].at = "none"
              \/ \E t \in Threads : Attach(t)
           /\ generation' = generation \/ \E t \in Threads : Start(t) \/ StartWithoutProducer(t)
           /\ zl'.generation = zl.generation \/ \E t \in Threads : Attach(t) \/ AttachFails(t)
           /\ zl'.running = zl.running \/ \E t \in Threads : Attach(t) \/ AttachFails(t)
                                                          \/ Detach(t) \/ SubscribeStarted(t)
<1> USE TypeParts
<1> USE DEF Invariant, LoopType
<1>1. ASSUME NEW t \in Threads, Detach(t) \/ DetachJoin(t)
      PROVE  \A g \in Generations : consumer'[g].at = "none" <=> consumer[g].at = "none"
  <2>1. CASE Detach(t)
    BY <2>1 DEF Detach, StopRequested
  <2>2. CASE DetachJoin(t)
    BY <2>2 DEF DetachJoin
  <2> QED  BY <1>1, <2>1, <2>2
<1>2. ASSUME NEW h \in Generations, Consume(h)
      PROVE  \A g \in Generations : consumer'[g].at = "none" <=> consumer[g].at = "none"
  <2>1. CASE ConsumerTest(h)
    BY <2>1 DEF ConsumerTest
  <2>2. CASE ConsumerReceive(h)
    BY <2>2 DEF ConsumerReceive
  <2>3. CASE ConsumerReceiveNothing(h)
    BY <2>3 DEF ConsumerReceiveNothing
  <2>4. CASE ConsumerRelease(h)
    BY <2>4 DEF ConsumerRelease
  <2> QED  BY <1>2, <2>1, <2>2, <2>3, <2>4 DEF Consume
<1>3. ASSUME NEW t \in Threads,
             Started(t) \/ Rollback(t) \/ Stop(t) \/ Halt(t) \/ Join(t) \/ Cleanup(t) \/ DestroyPool(t)
                \/ Finish(t) \/ InitCamera(t)
      PROVE  generation' = generation
  BY <1>3, Zenon DEF Started, Rollback, Stop, Halt, Join, Cleanup, DestroyPool, Finish, InitCamera
<1>4. ASSUME NEW t \in Threads, Detach(t) \/ SubscribeStarted(t)
      PROVE  zl'.generation = zl.generation
  BY <1>4 DEF Detach, SubscribeStarted, ZlmediaType
<1> QED  BY <1>1, <1>2, <1>3, <1>4, ConsumerMoves, CameraMoves, ZlmediaMoves

(* A consumer is attached once, and detached once.                         *)
LEMMA AttachedStep == ASSUME Invariant, Next PROVE Attached'
<1> USE TypeParts, Numbers
<1> USE DEF Invariant, Attached, AttachedOnce, DetachedOnce, BeforeAttach
<1> DEFINE SameHandles == zl'.channel = zl.channel /\ zl'.thread = zl.thread
           SameChannels == \A u \in Threads : /\ call'[u].channel = call[u].channel
                                              /\ call'[u].thread = call[u].thread
           SameJoins == \A u \in Threads : call'[u].at = "detach_join" <=> call[u].at = "detach_join"
           SameWaits == \A u \in Threads :
                            /\ call'[u].at = "detach_release" <=> call[u].at = "detach_release"
                            /\ BeforeAttach(call'[u]) => BeforeAttach(call[u])
           SameNone == \A g \in Generations : consumer'[g].at = "none" <=> consumer[g].at = "none"
<1>1. ASSUME NEW t \in Threads, Attach(t) PROVE Attached'
  <2>1. \A g \in Generations \ {generation} : consumer'[g] = consumer[g]
    BY <1>1, AttachMoves DEF LoopType
  <2>2. consumer'[generation].at = "loop"
    BY <1>1, AttachMoves DEF LoopType
  <2>3. /\ zl'.thread = generation /\ zl'.channel = generation /\ zl'.generation = generation
        /\ generation \in Generations
    BY <1>1, AttachMoves
  <2>4. SameChannels /\ SameJoins
    BY <1>1, AttachMoves
  <2>6. \A u \in Threads : call'[u].at \notin {"publish_started", "attach"}
    BY <1>1, GotoMoves DEF Attach, AfterStarted, Places, Turns, Busy, StartingPlaces
  <2>7. consumer[generation].at = "none"
    BY <1>1, AttachMoves
  <2>8. generation' = generation
    BY <1>1 DEF Attach
  <2>9. AttachedOnce'
    BY <2>1, <2>2, <2>3, <2>8
  <2>10. \A u \in Threads : call[u].channel # None =>
             call[u].channel \in Generations \ {generation} /\ consumer[call[u].channel].at # "none"
    BY <2>7, HandleType
  <2>11. \A u \in Threads : call[u].channel # None =>
             call[u].channel # zl'.channel /\ consumer'[call[u].channel].at # "none"
    BY <2>1, <2>3, <2>10
  <2>12. \A u \in Threads : /\ call'[u].at = "detach_join" <=> call[u].at = "detach_join"
                            /\ call'[u].channel = call[u].channel /\ call'[u].thread = call[u].thread
    BY <2>4
  <2>13. \A u \in Threads : call'[u].at \notin {"detach_join", "detach_release"} =>
             call[u].channel = None
    <3>1. \A u \in Threads : call[u].at = "detach_release" => call'[u].at = "detach_release"
      BY <1>1, GotoMoves DEF Attach, AfterStarted, Places
    <3> QED  BY <2>12, <3>1
  <2>14. DetachedOnce'
    BY <2>6, <2>11, <2>12, <2>13
  <2> QED  BY <2>9, <2>14
<1>2. ASSUME NEW t \in Threads, Detach(t) PROVE Attached'
  <2>1. generation' = generation /\ call[t].channel = None /\ call[t].at = "detach"
    BY <1>2 DEF Detach
  <2>2. SameNone /\ zl'.generation = zl.generation
    BY <1>2, DetachMoves
  <2>3. zl'.channel = None /\ zl'.thread = None /\ ~zl'.running
    BY <1>2, DetachMoves
  <2>4. /\ call'[t].channel = zl.channel /\ call'[t].thread = zl.thread
        /\ call'[t].at = IF zl.thread = None THEN "detach_release" ELSE "detach_join"
        /\ \A u \in Threads \ {t} : call'[u] = call[u]
    BY <1>2, DetachMoves
  <2>5. AttachedOnce'
    BY <2>1, <2>2, <2>3, HandleType
  <2>6. /\ zl.channel # None => zl.channel \in Generations /\ consumer[zl.channel].at # "none"
        /\ \A u \in Threads : call[u].channel # None => call[u].channel \in Generations
    BY HandleType
  <2>7. \A u \in Threads \ {t} : call[u].channel # None => call[u].channel # zl.channel
    OBVIOUS
  <2>8. BeforeAttach(call'[t]) = FALSE
    BY <2>4
  <2>9. generation = None \/ generation \in Generations
    BY HandleType
  <2>10. \A u \in Threads \ {t} : BeforeAttach(call[u]) => generation \in Generations
    BY StreamOfStart DEF StartingPlaces
  <2>11. DetachedOnce'
    BY <2>1, <2>2, <2>3, <2>4, <2>6, <2>7, <2>8, <2>10
  <2> QED  BY <2>5, <2>11
<1>3. ASSUME NEW t \in Threads, DetachRelease(t) PROVE Attached'
  <2>1. generation' = generation /\ consumer' = consumer /\ zl' = zl
    BY <1>3 DEF DetachRelease
  <2>2. call[t].at = "detach_release" /\ call'[t].channel = None
    BY <1>3, ReleaseMoves DEF DetachRelease
  <2>3. call'[t].at \in {"cleanup", "stop"}
    BY <1>3, ReleaseMoves DEF CallType
  <2>4. \A u \in Threads \ {t} : call'[u] = call[u]
    BY <1>3, ReleaseMoves
  <2> QED  BY <2>1, <2>2, <2>3, <2>4
<1>4. ASSUME NEW t \in Threads, DetachJoin(t) PROVE Attached'
  <2>1. generation' = generation /\ zl' = zl
    BY <1>4 DEF DetachJoin
  <2>2. SameNone
    BY <1>4 DEF DetachJoin, LoopType
  <2>3. call[t].at = "detach_join" /\ call'[t].at = "detach_release" /\ SameChannels
    BY <1>4, GotoMoves DEF DetachJoin, Places
  <2>4. \A u \in Threads \ {t} : call'[u].at = call[u].at
    BY <1>4, GotoMoves DEF DetachJoin, Places
  <2>5. AttachedOnce'
    BY <2>1, <2>2, HandleType
  <2>6. \A u \in Threads : call[u].channel # None => call[u].channel \in Generations
    BY HandleType
  <2>7. \A u \in Threads : BeforeAttach(call[u]) => generation \in Generations
    BY StreamOfStart DEF StartingPlaces
  <2>8. DetachedOnce'
    BY <2>1, <2>2, <2>3, <2>4, <2>6, <2>7
  <2> QED  BY <2>5, <2>8
<1>5. ASSUME NEW t \in Threads, Start(t) PROVE Attached'
  <2>1. generation' = generation + 1 /\ zl' = zl /\ consumer' = consumer
    BY <1>5 DEF Start
  <2>2. consumer[generation + 1].at = "none" /\ generation + 1 \in Generations
    BY <1>5, StreamOfStart DEF OthersType
  <2>3. \A g \in Generations : g > generation + 1 => consumer[g].at = "none"
    BY DEF OthersType
  <2>4. SameChannels /\ call[t].at = "start" /\ call'[t].at = "publish_started"
    BY <1>5 DEF Start, CallType
  <2>5. \A u \in Threads \ {t} : call'[u].at = call[u].at
    BY <1>5 DEF Start, CallType
  <2>6. \A u \in Threads : call[u].at \notin {"publish_started", "attach"}
    BY <1>5 DEF Turns, Busy, StartingPlaces, Start, MayStart
  <2> QED  BY <2>1, <2>2, <2>3, <2>4, <2>5, <2>6
<1>6. ASSUME NEW t \in Threads, StartWithoutProducer(t) PROVE Attached'
  <2>1. generation' = generation + 1 /\ zl' = zl /\ consumer' = consumer
    BY <1>6 DEF StartWithoutProducer
  <2>2. consumer[generation + 1].at = "none" /\ generation + 1 \in Generations
    BY <1>6 DEF StartWithoutProducer, OthersType, Generations
  <2>3. \A g \in Generations : g > generation + 1 => consumer[g].at = "none"
    BY DEF OthersType
  <2>4. SameChannels /\ \A u \in Threads \ {t} : call'[u].at = call[u].at
    BY <1>6, ReturnMoves DEF StartWithoutProducer
  <2>5. /\ call[t].at = "start"
        /\ call'[t].at \notin {"publish_started", "attach", "detach_join", "detach_release"}
    BY <1>6, ReturnMoves, WaysDown DEF StartWithoutProducer
  <2>6. \A u \in Threads : call[u].at \notin {"publish_started", "attach"}
    BY <1>6 DEF Turns, Busy, StartingPlaces, StartWithoutProducer, MayStart
  <2> QED  BY <2>1, <2>2, <2>3, <2>4, <2>5, <2>6
<1>7. ASSUME NEW t \in Threads, AttachFails(t) PROVE Attached'
  <2>1. /\ generation' = generation /\ consumer' = consumer
        /\ zl' = [thread |-> None, channel |-> None, generation |-> generation, running |-> FALSE]
    BY <1>7, StreamOfStart DEF AttachFails, StartingPlaces
  <2>2. SameChannels /\ call[t].at = "attach" /\ call'[t].at \in {"started", "rollback"}
    BY <1>7, GotoMoves DEF AttachFails, AfterStarted, Places
  <2>3. \A u \in Threads \ {t} : call'[u].at = call[u].at
    BY <1>7, GotoMoves DEF AttachFails, AfterStarted, Places
  <2>4. zl.channel = None
    BY <1>7 DEF AttachFails
  <2> QED  BY <2>1, <2>2, <2>3, <2>4
<1>8. ASSUME NEW t \in Threads, SubscribeStarted(t) PROVE Attached'
  <2>1. UNCHANGED <<generation, consumer>>
    BY <1>8 DEF SubscribeStarted
  <2>2. SameHandles /\ zl'.generation = zl.generation /\ ~zl'.running
    BY <1>8 DEF SubscribeStarted, ZlmediaType
  <2>3. PICK p \in {"subscribe_stopping", "starting"} : Goto(t, p)
    BY <1>8 DEF SubscribeStarted
  <2>4. /\ SameChannels /\ call[t].at = "init_zlmedia" /\ call'[t].at = p
        /\ \A u \in Threads \ {t} : call'[u].at = call[u].at
    BY <1>8, <2>3, GotoMoves DEF SubscribeStarted, Places
  <2> QED  BY <2>1, <2>2, <2>3, <2>4
<1>9. ASSUME SameHandles, SameChannels, SameJoins, SameWaits, SameNone, generation' = generation,
             zl'.generation = zl.generation, zl'.running = zl.running
      PROVE  Attached'
  <2>1. zl.channel # None => zl.channel \in Generations
    BY HandleType
  <2>2. \A u \in Threads : call[u].channel # None => call[u].channel \in Generations
    BY HandleType
  <2>3. generation # None => generation \in Generations
    BY HandleType
  <2>4. \A u \in Threads : BeforeAttach(call[u]) => generation \in Generations
    BY StreamOfStart DEF StartingPlaces
  <2> QED  BY <1>9, <2>1, <2>2, <2>3, <2>4
<1> QED
  BY <1>1, <1>2, <1>3, <1>4, <1>5, <1>6, <1>7, <1>8, <1>9, ZlmediaHandles, StreamsCounted

(* The invariant holds of a core that was never started.                   *)
LEMMA InvariantInit == ASSUME Init PROVE Invariant
<1> USE Numbers
<1> USE DEF Init, None
<1>1. TypeOK
  <2>1. CameraType /\ ZlmediaType /\ CoreType /\ OthersType
    BY DEF CameraType, ZlmediaType, CoreType, OthersType
  <2>2. ChannelType
    BY DEF ChannelType
  <2>3. LoopType(producer) /\ LoopType(consumer)
    BY DEF LoopType, Loops
  <2>4. CallType
    BY DEF CallType, Places
  <2> QED  BY <2>1, <2>2, <2>3, <2>4, TypeParts
<1>2. CoreOK
  BY DEF CoreOK, Owned, Layered, CorePlaces, InitPlaces, EndPlaces, Detaches, Detaching, StartingPlaces
<1>3. HandlesOK
  BY DEF HandlesOK
<1>4. Turns
  BY DEF Turns, Busy, Detaches, Detaching, StartingPlaces, StoppingPlaces
<1>5. ProducerOwned /\ CameraOwned /\ ConsumerOwned /\ ZlmediaOwned
  BY DEF ProducerOwned, CameraOwned, ConsumerOwned, ZlmediaOwned, Unjoined
<1>6. BlocksOwned
  BY DEF BlocksOwned, Idle, InUse
<1>7. Attached
  BY DEF Attached, AttachedOnce, DetachedOnce
<1> QED  BY <1>1, <1>2, <1>3, <1>4, <1>5, <1>6, <1>7 DEF Invariant, Owners

(* A stuttering step keeps everything.                                     *)
LEMMA InvariantStutters == ASSUME Invariant, UNCHANGED vars PROVE Invariant'
<1> USE DEF vars
<1>1. TypeOK'
  BY Zenon DEF Invariant, TypeOK
<1>2. CoreOK' /\ HandlesOK' /\ Turns'
  BY Zenon DEF Invariant, CoreOK, Owned, Layered, HandlesOK, Turns, Busy, Detaches
<1>3. Owners'
  <2>1. ProducerOwned' /\ CameraOwned'
    BY Zenon DEF Invariant, Owners, ProducerOwned, CameraOwned
  <2>2. ConsumerOwned' /\ ZlmediaOwned'
    BY Zenon DEF Invariant, Owners, ConsumerOwned, ZlmediaOwned
  <2>3. \A g \in Generations : Idle(g)' <=> Idle(g)
    BY Zenon DEF Idle, InUse
  <2>4. BlocksOwned'
    BY <2>3, Zenon DEF Invariant, Owners, BlocksOwned
  <2> QED  BY <2>1, <2>2, <2>4 DEF Owners
<1>4. Attached'
  BY Zenon DEF Invariant, Attached, AttachedOnce, DetachedOnce
<1> QED  BY <1>1, <1>2, <1>3, <1>4 DEF Invariant

(* In every state of the program, the invariant holds.                     *)
THEOREM InvariantHolds == Spec => []Invariant
<1>1. Init => Invariant
  BY InvariantInit
<1>2. Invariant /\ [Next]_vars => Invariant'
  <2>1. ASSUME Invariant, Next PROVE Invariant'
    BY <2>1, TypesStep, OwnedStep, LayeredStep, HandlesStep, TurnsStep, ProducerOwnedStep, CameraOwnedStep,
       ConsumerOwnedStep, ZlmediaOwnedStep, BlocksOwnedStep, AttachedStep
       DEF Invariant, Owners, CoreOK
  <2> QED  BY <2>1, InvariantStutters
<1> QED  BY <1>1, <1>2, PTL DEF Spec

(* Every variable of the program has its type.                             *)
THEOREM TypeCorrect == Spec => []TypeOK
<1>1. Invariant => TypeOK
  BY DEF Invariant
<1> QED  BY <1>1, InvariantHolds, PTL

(* The invariant says of every handle in use who keeps it.                 *)
LEMMA HandlesKept == ASSUME Invariant PROVE NoUseAfterFree
<1> USE TypeParts, Numbers
<1> USE DEF Invariant, None
<1>1. ASSUME NEW g \in Generations, Alive(producer[g])
      PROVE  /\ camera.pool = g /\ camera.channel = g
             /\ g \in pools /\ "camera" \in channel[g].holders
  <2>1. camera.thread = g
    BY <1>1 DEF Alive, Owners, ProducerOwned, Unjoined
  <2> QED  BY <2>1 DEF HandlesOK, Owners, CameraOwned
<1>2. ASSUME NEW g \in Generations, Alive(consumer[g]) PROVE "zlmedia" \in channel[g].holders
  BY <1>2 DEF Alive, Owners, ConsumerOwned, ZlmediaOwned, Unjoined
<1>3. ASSUME NEW g \in Generations, ~Idle(g) PROVE g \in pools /\ g = generation
  BY <1>3 DEF Owners, BlocksOwned, HandlesOK
<1>4. ASSUME NEW g \in Generations, consumer[g].at = "frame" PROVE zl.generation = g
  <2>1. consumer[g].frame # None
    BY <1>4 DEF Owners, ConsumerOwned
  <2>2. ~Idle(g)
    BY <2>1 DEF Idle, InUse
  <2> QED  BY <1>3, <1>4, <2>2 DEF Attached, AttachedOnce
<1>5. ASSUME NEW t \in Threads, call[t].at = "attach"
      PROVE  "camera" \in channel[call[t].gen].holders
  BY <1>5, StreamOfStart DEF Owners, CameraOwned, StartingPlaces
<1>6. ASSUME NEW t \in Threads, call[t].at = "join" PROVE Unjoined(producer[camera.thread])
  BY <1>6, StreamOfStop DEF Owners, ProducerOwned
<1>7. ASSUME NEW t \in Threads, call[t].at = "detach_join"
      PROVE  Unjoined(consumer[call[t].thread])
  BY <1>7, HandleType DEF Owners, ConsumerOwned, Attached, DetachedOnce
<1> QED  BY <1>1, <1>2, <1>3, <1>4, <1>5, <1>6, <1>7 DEF NoUseAfterFree

(* No channel, block or thread handle is used after it was given up, by    *)
(* either loop, a callback, a stop or a shutdown.                          *)
THEOREM StreamsOutliveTheirUsers == Spec => []NoUseAfterFree
BY HandlesKept, InvariantHolds, PTL

(* Under the rule, a thread in a call is alone, or nobody has the core.    *)
LEMMA CallIsAlone ==
    ASSUME Invariant, Alone, NEW t \in Threads, call[t].at # "ready"
    PROVE  /\ core.owner \in {"nobody", t} /\ core.state # "STOPPED"
           /\ \A u \in Threads \ {t} : /\ call[u].at \notin CorePlaces /\ ~Detaches(u, "stop")
                                       /\ core.owner # u
BY TypeParts DEF Invariant, Alone, CoreOK, Owned, CoreType

(* An initialization or a shutdown keeps the service for itself.           *)
LEMMA AloneStep == ASSUME Invariant, Alone, Quiet, Next PROVE Alone'
<1> USE TypeParts
<1> USE DEF Invariant, Alone
<1>1. ASSUME NEW t \in Threads, Step(t) PROVE Alone'
  <2>1. core'.owner \in {core.owner, "nobody"}
    <3>1. CASE ~Lifecycle(t)
      BY <1>1, <3>1, CallMoves
    <3>2. CASE InitDone(t) \/ AwaitCalls(t)
      BY <3>2 DEF InitDone, AwaitCalls, CoreType
    <3>3. CASE \/ InitCamera(t) \/ SubscribeStarted(t) \/ SubscribeStopping(t) \/ Register(t)
               \/ StartNext(t) \/ InitFails(t) \/ Unsubscribe(t) \/ AwaitStopping(t)
               \/ AwaitStarted(t) \/ Close(t)
      BY <3>3 DEF InitCamera, SubscribeStarted, SubscribeStopping, Register, StartNext, InitFails,
         Unsubscribe, AwaitStopping, AwaitStarted, Close, CoreType
    <3> QED  BY <3>1, <3>2, <3>3 DEF Lifecycle
  <2>2. core.owner \in {"nobody", t}
    BY <1>1, StepMoves, CallIsAlone
  <2> QED  BY <1>1, <2>1, <2>2, StepMoves
<1>2. ASSUME NEW t \in Threads, NEW o \in {"start", "stop"}, Call(t, o) PROVE Alone'
  <2>1. core' = core /\ core.state \notin {"STARTING", "STOPPING"}
    BY <1>2 DEF Call, MayCall, Quiet
  <2>2. core.owner = "nobody"
    BY <2>1 DEF CoreOK, Owned, CoreType
  <2> QED  BY <2>1, <2>2
<1>3. ASSUME NEW t \in Threads, Shutdown(t) PROVE Alone'
  <2>1. core'.owner = t /\ \A u \in Threads : call[u].at = "ready"
    BY <1>3 DEF Shutdown, MayShutdown, Quiet, At, CoreType
  <2>2. \A u \in Threads \ {t} : call'[u] = call[u]
    BY <1>3, DownMoves
  <2> QED  BY <2>1, <2>2
<1>4. ASSUME NEW t \in Threads, Boot(t) PROVE Alone'
  <2>1. core'.owner = t /\ \A u \in Threads : call[u].at = "ready"
    BY <1>4 DEF Boot, CoreOK, Owned, CoreType
  <2>2. \A u \in Threads \ {t} : call'[u] = call[u]
    BY <1>4, GotoMoves DEF Boot, Places
  <2> QED  BY <2>1, <2>2
<1>5. ASSUME NEW g \in Generations, Produce(g) \/ Consume(g) PROVE Alone'
  BY <1>5, LoopMoves
<1> QED  BY <1>1, <1>2, <1>3, <1>4, <1>5 DEF Next, Begin

(* Only zlmedia_init and zlmedia_deinit touch the subscriptions.           *)
LEMMA SubscribedStep == ASSUME Invariant, Subscribed, Next PROVE Subscribed'
<1> USE TypeParts
<1> USE DEF Invariant, Subscribed, Subscribing, CoreType
<1>1. ASSUME NEW t \in Threads, core'.subscribed = core.subscribed, core'.built = core.built,
             call[t].at \notin Subscribing, call'[t].at \notin Subscribing \ {"unsubscribe"},
             \A u \in Threads \ {t} : call'[u] = call[u]
      PROVE  Subscribed'
  BY <1>1
<1>2. ASSUME NEW t \in Threads, Step(t), ~Lifecycle(t) PROVE Subscribed'
  BY <1>1, <1>2, CallMoves, WaysDown DEF CorePlaces, InitPlaces, EndPlaces
<1>3. ASSUME NEW t \in Threads, NEW o \in {"start", "stop"}, Call(t, o) PROVE Subscribed'
  BY <1>1, <1>3, GotoMoves DEF Call, Places
<1>4. ASSUME NEW t \in Threads, Boot(t) PROVE Subscribed'
  BY <1>1, <1>4, GotoMoves DEF Boot, Places
<1>5. ASSUME NEW t \in Threads, Shutdown(t) PROVE Subscribed'
  BY <1>1, <1>5, DownMoves, WaysDown DEF Shutdown
<1>6. ASSUME NEW t \in Threads, Lifecycle(t) PROVE Subscribed'
  <2> USE <1>6
  <2>1. \A u \in Threads \ {t} : call'[u] = call[u] /\ call[u].at \notin Subscribing
    BY LifecycleMoves DEF CoreOK, Owned, CorePlaces, InitPlaces, EndPlaces
  <2>2. CASE InitCamera(t)
    <3>1. call[t].at = "init_camera" /\ call'[t].at \in {"init_zlmedia", "await_calls"}
      BY <2>2, GotoMoves DEF InitCamera, Places
    <3>2. /\ core'.subscribed = core.subscribed
          /\ "zlmedia" \notin core.built /\ "zlmedia" \notin core'.built
      <4>1. core.built = {}
        BY <3>1 DEF CoreOK, Layered
      <4>2. PICK S \in {{}, {"camera"}} : core' = core \/ core' = [core EXCEPT !.open = TRUE, !.built = S]
        BY <2>2 DEF InitCamera
      <4>3. "zlmedia" \notin S
        BY <4>2
      <4> QED  BY <4>1, <4>2, <4>3
    <3> QED  BY <2>1, <3>1, <3>2
  <2>3. CASE InitFails(t)
    BY <1>1, <2>3, DownMoves, WaysDown DEF InitFails
  <2>4. CASE SubscribeStarted(t)
    <3>1. call[t].at = "init_zlmedia" /\ core'.built = core.built
      BY <2>4 DEF SubscribeStarted
    <3>2. \/ call'[t].at = "subscribe_stopping"
          \/ core' = core /\ call'[t].at = "starting"
      BY <2>4, GotoMoves DEF SubscribeStarted, Places
    <3>3. CASE call'[t].at = "subscribe_stopping"
      BY <2>1, <3>3
    <3>4. CASE core' = core /\ call'[t].at = "starting"
      <4>1. \A u \in Threads : call[u].at \notin Subscribing
        BY <2>1, <3>1
      <4> QED  BY <2>1, <3>4, <4>1
    <3> QED  BY <3>2, <3>3, <3>4
  <2>5. CASE SubscribeStopping(t)
    BY <2>1, <2>5, GotoMoves DEF SubscribeStopping, Places
  <2>6. CASE Register(t)
    <3>1. call[t].at = "register" /\ core'.subscribed = core.subscribed
      BY <2>6 DEF Register
    <3>2. \/ call'[t].at = "unsubscribe"
          \/ call'[t].at = "starting" /\ core'.built = core.built \union {"zlmedia"}
      BY <2>6, GotoMoves DEF Register, Places
    <3> QED  BY <2>1, <3>1, <3>2
  <2>7. CASE StartNext(t)
    BY <2>1, <2>7 DEF StartNext
  <2>8. CASE InitDone(t) \/ Close(t)
    BY <1>1, <2>1, <2>8, GotoMoves DEF InitDone, Close, Places
  <2>9. CASE Unsubscribe(t) \/ AwaitStopping(t)
    BY <2>1, <2>9, GotoMoves DEF Unsubscribe, AwaitStopping, Places
  <2>10. CASE AwaitStarted(t)
    <3>1. call[t].at = "await_started" /\ call'[t].at \in {"close", "starting"}
      BY <2>10, GotoMoves DEF AwaitStarted, Places
    <3>2. core'.subscribed = {} /\ "zlmedia" \notin core'.built
      BY <2>10, <3>1 DEF AwaitStarted
    <3> QED  BY <2>1, <3>1, <3>2
  <2>11. CASE AwaitCalls(t)
    <3>1. call[t].at = "await_calls" /\ call'[t].at = "ready"
      BY <2>11, GotoMoves DEF AwaitCalls, Places
    <3>2. core'.subscribed = core.subscribed /\ core'.built = {} /\ "zlmedia" \notin core.built
      BY <2>11, <3>1 DEF AwaitCalls, CoreOK, Layered
    <3> QED  BY <2>1, <3>1, <3>2
  <2> QED
    BY <2>2, <2>3, <2>4, <2>5, <2>6, <2>7, <2>8, <2>9, <2>10, <2>11 DEF Lifecycle
<1>7. ASSUME NEW g \in Generations, Produce(g) \/ Consume(g) PROVE Subscribed'
  BY <1>7, LoopMoves
<1> QED  BY <1>2, <1>3, <1>4, <1>5, <1>6, <1>7 DEF Next, Begin

(* While a call runs, no subscription is being made or taken back.         *)
LEMMA SubscribedInCall ==
    ASSUME Invariant, Alone, Subscribed, NEW t \in Threads, call[t].at \notin CorePlaces \union {"ready"}
    PROVE  core.subscribed = IF "zlmedia" \in core.built THEN {"started", "stopping"} ELSE {}
<1>1. \A u \in Threads : call[u].at \notin Subscribing
  BY CallIsAlone DEF Subscribing, CorePlaces, InitPlaces, EndPlaces
<1> QED  BY <1>1 DEF Subscribed

(* A shutdown whose stop is refused finds the camera stopped.              *)
LEMMA RefusedIsStopped ==
    ASSUME Invariant, Alone, StoppedInTime, NEW t \in Threads, core.owner = t, StopRefused(t)
    PROVE  camera.state = "STOPPED"
<1> USE TypeParts
<1> USE DEF Invariant
<1>1. camera.state # "RUNNING"
  BY DEF StopRefused, MayStop, HandlesOK
<1>2. camera.state \notin {"STARTING", "STOPPING"}
  <2>1. \A u \in Threads \ {t} : call[u].at = "ready"
    BY DEF Alone
  <2>2. \A u \in Threads : ~Busy(u)
    BY <2>1 DEF StopRefused, Busy, StartingPlaces, StoppingPlaces, Detaches, Detaching
  <2> QED  BY <2>2 DEF Turns
<1>3. camera.state # "ERROR"
  BY DEF StoppedInTime
<1> QED  BY <1>1, <1>2, <1>3 DEF CameraType

(* A stop ends well.                                                       *)
LEMMA StoppedInTimeStep ==
    ASSUME Invariant, Alone, StoppedInTime, NothingLeft, Next
    PROVE  StoppedInTime'
<1> USE TypeParts
<1> USE DEF Invariant, StoppedInTime, CameraType
<1> DEFINE Ends == core.state = "STOPPED" \/ \E t \in Threads : call[t].at \in CorePlaces
<1>1. ASSUME NEW t \in Threads, Finish(t)
      PROVE  camera'.state = "STOPPED" /\ camera'.pool = None
  <2>1. camera.pool = None /\ camera.thread = None
    BY <1>1 DEF Finish, NothingLeft, Turns, HandlesOK
  <2> QED  BY <1>1, <2>1 DEF Finish, FinalState
<1>2. ASSUME NEW t \in Threads, InitCamera(t)
      PROVE  camera'.state = "STOPPED" /\ camera'.pool = None
  <2>1. camera.state = "STOPPED"
    BY <1>2 DEF InitCamera, CorePlaces, InitPlaces
  <2> QED  BY <1>2, <2>1 DEF InitCamera
<1>3. ASSUME NEW t \in Threads, Finish(t) \/ InitCamera(t) PROVE StoppedInTime'
  BY <1>1, <1>2, <1>3
<1>4. ASSUME NEW t \in Threads,
             \/ StartWithoutProducer(t) \/ Start(t) \/ Started(t) \/ Rollback(t) \/ Stop(t) \/ Halt(t)
             \/ Join(t) \/ Cleanup(t) \/ DestroyPool(t)
      PROVE  ~Ends'
  <2>1. call[t].at \in {"start", "halt", "join", "cleanup", "wait_idle"} \union StartingPlaces
        \/ (call[t].at = "stop" /\ MayStop)
    BY <1>4, Zenon
       DEF StartWithoutProducer, Start, Started, Rollback, Stop, Halt, Join, Cleanup, DestroyPool,
           StartingPlaces
  <2>2. call[t].at \notin CorePlaces \union {"ready"}
    BY <2>1 DEF StartingPlaces, CorePlaces, InitPlaces, EndPlaces
  <2>3. ~StopRefused(t) /\ ~Finish(t)
    BY <2>1 DEF StopRefused, Finish, StartingPlaces
  <2>4. core.owner = t => call[t].at \notin {"start", "started"}
    BY DEF CoreOK, Owned, StartingPlaces
  <2>5. ~(core.owner = t /\ (StartRefused(t) \/ StartWithoutProducer(t) \/ Started(t)))
    BY <2>4 DEF StartRefused, StartWithoutProducer, Started
  <2>6. Step(t)
    BY <1>4, Zenon DEF Step
  <2>7. ~Lifecycle(t)
    BY <2>2, LifecycleMoves
  <2>8. call'[t].at \notin CorePlaces /\ core' = core /\ \A u \in Threads \ {t} : call'[u] = call[u]
    BY <2>3, <2>5, <2>6, <2>7, CallMoves DEF CorePlaces
  <2> QED  BY <2>2, <2>8, CallIsAlone
<1>5. ASSUME NEW t \in Threads,
             \/ StartWithoutProducer(t) \/ Start(t) \/ Started(t) \/ Rollback(t) \/ Stop(t) \/ Halt(t)
             \/ Join(t) \/ Cleanup(t) \/ DestroyPool(t)
      PROVE  camera'.state # "ERROR" /\ (camera'.state = "STOPPED" => camera'.pool = None)
  <2>1. CASE StartWithoutProducer(t) \/ Start(t) \/ Started(t) \/ Rollback(t) \/ Stop(t)
    BY <2>1 DEF StartWithoutProducer, Start, MayStart, Started, Rollback, Stop
  <2>2. CASE Halt(t) \/ Join(t)
    BY <2>2 DEF Halt, Join
  <2>3. CASE Cleanup(t) \/ DestroyPool(t)
    BY <2>3 DEF Cleanup, DestroyPool
  <2> QED  BY <1>5, <2>1, <2>2, <2>3
<1>6. ASSUME NEW t \in Threads,
             \/ StartWithoutProducer(t) \/ Start(t) \/ Started(t) \/ Rollback(t) \/ Stop(t) \/ Halt(t)
             \/ Join(t) \/ Cleanup(t) \/ DestroyPool(t)
      PROVE  StoppedInTime'
  BY <1>4, <1>5, <1>6
<1>7. CASE camera' = camera
  <2>1. ASSUME NEW t \in Threads, Lifecycle(t) PROVE Ends
    BY <2>1, LifecycleMoves
  <2>2. ASSUME NEW t \in Threads, Step(t), ~Lifecycle(t), Ends' PROVE camera.state = "STOPPED"
    <3>1. CASE call'[t].at \in CorePlaces
      <4>1. call'[t].at \in EndPlaces /\ core.owner = t
        BY <2>2, <3>1, CallMoves DEF CorePlaces
      <4>2. call[t].at \notin {"start", "started"}
        BY <4>1 DEF CoreOK, Owned, StartingPlaces
      <4>3. StopRefused(t) \/ Finish(t)
        BY <2>2, <4>1, <4>2, CallMoves DEF StartRefused, StartWithoutProducer, Started
      <4> QED  BY <1>1, <1>7, <4>1, <4>3, RefusedIsStopped
    <3>2. CASE call'[t].at \notin CorePlaces
      BY <2>2, <3>2, CallMoves
    <3> QED  BY <3>1, <3>2
  <2>3. ASSUME NEW t \in Threads, NEW o \in {"start", "stop"}, Call(t, o), Ends' PROVE Ends
    <3>1. call'[t].at = o /\ core' = core /\ \A u \in Threads \ {t} : call'[u] = call[u]
      BY <2>3, GotoMoves DEF Call, Places
    <3>2. o \notin CorePlaces
      BY DEF CorePlaces, InitPlaces, EndPlaces
    <3> QED  BY <2>3, <3>1, <3>2
  <2>4. ASSUME NEW t \in Threads, Boot(t) PROVE Ends
    BY <2>4 DEF Boot
  <2>5. ASSUME NEW t \in Threads, Shutdown(t), Ends' PROVE Ends
    <3>1. core.state = "RUNNING" /\ core'.state = "STOPPING"
      BY <2>5 DEF Shutdown, CoreType
    <3>2. FirstDown \in {"detach", "stop"}
      BY <3>1 DEF FirstDown, CoreOK, Layered, CoreType
    <3>3. call'[t].at \notin CorePlaces /\ \A u \in Threads \ {t} : call'[u] = call[u]
      BY <2>5, <3>2, DownMoves DEF CorePlaces, InitPlaces, EndPlaces
    <3> QED  BY <2>5, <3>1, <3>3
  <2>6. ASSUME NEW g \in Generations, Produce(g) \/ Consume(g), Ends' PROVE Ends
    BY <2>6, LoopMoves
  <2>7. ASSUME Ends' PROVE camera.state = "STOPPED"
    <3> HIDE DEF Ends
    <3>1. Ends => camera.state = "STOPPED"
      BY DEF Ends
    <3> QED  BY <2>1, <2>2, <2>3, <2>4, <2>5, <2>6, <2>7, <3>1 DEF Next, Begin
  <2> QED  BY <1>7, <2>7
<1> QED  BY <1>3, <1>6, <1>7, CameraMoves

(* While a thread gives a stream up, nobody starts or attaches one, and    *)
(* nobody else detaches.                                                   *)
LEMMA GivingUpIsAlone ==
    ASSUME Invariant, Alone, NEW t \in Threads,
           Detaches(t, "stop") \/ (Busy(t) /\ call[t].at \notin StartingPlaces)
    PROVE  /\ \A u \in Threads : ~Start(u) /\ ~Attach(u)
           /\ \A u \in Threads \ {t} : call[u].at \notin Detaching /\ ~Busy(u)
<1> USE TypeParts
<1> USE DEF Invariant
<1>1. call[t].at # "ready"
  BY DEF Busy, Detaches, StartingPlaces, StoppingPlaces, Detaching
<1>2. \A u \in Threads \ {t} : ~Detaches(u, "stop")
  BY <1>1, CallIsAlone
<1>3. CASE Detaches(t, "stop")
  <2>1. core.owner = t
    BY <1>3 DEF CoreOK, Owned
  <2>2. \A u \in Threads \ {t} : call[u].at = "ready"
    BY <2>1 DEF Alone
  <2>3. call[t].at \in Detaching
    BY <1>3 DEF Detaches
  <2> QED
    BY <2>2, <2>3 DEF Start, Attach, Busy, Detaches, Detaching, StartingPlaces, StoppingPlaces
<1>4. CASE Busy(t) /\ call[t].at \notin StartingPlaces
  <2>1. \A u \in Threads \ {t} : ~Busy(u)
    BY <1>4 DEF Turns
  <2>2. \A u \in Threads \ {t} : call[u].at \notin Detaching
    BY <1>2, <2>1 DEF Busy, Detaches, CallType
  <2>3. camera.state = "STOPPING"
    BY <1>4 DEF Turns
  <2>4. \A u \in Threads : ~Start(u)
    BY <2>3 DEF Start, MayStart
  <2>5. \A u \in Threads : ~Attach(u)
    BY <1>4, <2>1 DEF Attach, Busy, StartingPlaces
  <2> QED  BY <2>1, <2>2, <2>4, <2>5
<1> QED  BY <1>3, <1>4

(* References to a channel come from a start or an attach.                 *)
LEMMA HoldersGrow ==
    ASSUME Invariant, Next, NEW g \in Generations
    PROVE  channel'[g].holders \subseteq channel[g].holders \/ \E t \in Threads : Start(t) \/ Attach(t)
<1> USE TypeParts
<1>1. channel'[g].holders \subseteq {"camera", "zlmedia"}
  BY TypesStep DEF TypeOK
<1>2. CASE \E t \in Threads : Cleanup(t)
  <2>1. PICK t \in Threads : Cleanup(t)
    BY <1>2
  <2>2. channel' = [channel EXCEPT ![camera.channel] = Released(channel[camera.channel], "camera")]
    BY <2>1 DEF Cleanup
  <2> QED  BY <2>2 DEF Released, Invariant, ChannelType
<1>3. CASE \E t \in Threads : DetachRelease(t)
  <2>1. PICK t \in Threads : DetachRelease(t)
    BY <1>3
  <2>2. CASE channel' = channel
    BY <2>2
  <2>3. CASE channel' = [channel EXCEPT ![call[t].channel] = Released(channel[call[t].channel], "zlmedia")]
    BY <2>3 DEF Released, Invariant, ChannelType
  <2> QED  BY <2>1, <2>2, <2>3 DEF DetachRelease
<1> QED  BY <1>1, <1>2, <1>3, HoldersKept

(* In a stream with neither producer nor consumer, no thread has a block.  *)
LEMMA NoFrames ==
    ASSUME Invariant, NEW g \in Generations, camera.thread # g, "zlmedia" \notin channel[g].holders
    PROVE  producer[g].frame = None /\ consumer[g].frame = None
<1> USE DEF Invariant, Owners
<1>1. producer[g].frame = None
  BY DEF ProducerOwned, Unjoined
<1>2. consumer[g].frame = None
  BY DEF ConsumerOwned, ZlmediaOwned, Unjoined
<1> QED  BY <1>1, <1>2

(* Threads arrive at these places from the place before.                   *)
LEMMA Arrives ==
    ASSUME Invariant, Alone, Subscribed, NEW t \in Threads, Step(t)
    PROVE  /\ call'[t].at = "attach" => PublishStarted(t) /\ "zlmedia" \in core.built
           /\ call'[t].at \in {"detach_join", "detach_release"} =>
                  Detach(t) \/ DetachJoin(t)
           /\ call'[t].at = "cleanup" =>
                  DetachRelease(t) \/ (PublishStopping(t) /\ "zlmedia" \notin core.built)
           /\ call'[t].at = "wait_idle" => Cleanup(t)
           /\ call'[t].at = "finish" => DestroyPool(t) \/ WaitTimeout(t)
<1> USE TypeParts
<1> USE DEF Invariant
<1>1. CASE StartRefused(t) \/ StartWithoutProducer(t) \/ Started(t) \/ StopRefused(t) \/ Finish(t)
  <2>1. Return(t)
    BY <1>1, Zenon DEF StartRefused, StartWithoutProducer, Started, StopRefused, Finish
  <2> QED  BY <2>1, ReturnMoves, WaysDown
<1>2. CASE Attach(t) \/ AttachRefused(t) \/ AttachFails(t) \/ Rollback(t) \/ Halt(t) \/ Join(t)
  <2>1. \E p \in {"started", "rollback", "halt", "join", "publish_stopping"} : Goto(t, p)
    BY <1>2 DEF Attach, AttachRefused, AttachFails, Rollback, Halt, Join, AfterStarted, AfterJoin
  <2> QED  BY <2>1, GotoMoves DEF Places
<1>3. CASE Cleanup(t) \/ DestroyPool(t) \/ WaitTimeout(t) \/ DetachJoin(t)
  <2>1. CASE Cleanup(t)
    BY <2>1, GotoMoves DEF Cleanup, Places
  <2>2. CASE DestroyPool(t) \/ WaitTimeout(t)
    BY <2>2, GotoMoves DEF DestroyPool, WaitTimeout, Places
  <2>3. CASE DetachJoin(t)
    BY <2>3, GotoMoves DEF DetachJoin, Places
  <2> QED  BY <1>3, <2>1, <2>2, <2>3
<1>4. CASE Start(t) \/ Stop(t)
  <2>1. call'[t].at \in {"publish_started", "halt"}
    BY <1>4 DEF Start, Stop, CallType
  <2> QED  BY <2>1
<1>5. CASE PublishStarted(t)
  <2>1. call[t].at \notin CorePlaces \union {"ready"}
    BY <1>5 DEF PublishStarted, CorePlaces, InitPlaces, EndPlaces
  <2>2. "started" \in core.subscribed => "zlmedia" \in core.built
    BY <2>1, SubscribedInCall
  <2>3. call'[t].at \in {"attach", "started", "rollback"}
        /\ (call'[t].at = "attach" => "started" \in core.subscribed)
    BY <1>5, GotoMoves DEF PublishStarted, AfterStarted, Places
  <2> QED  BY <1>5, <2>2, <2>3
<1>6. CASE PublishStopping(t)
  <2>1. call[t].at \notin CorePlaces \union {"ready"}
    BY <1>6 DEF PublishStopping, CorePlaces, InitPlaces, EndPlaces
  <2>2. "stopping" \notin core.subscribed => "zlmedia" \notin core.built
    BY <2>1, SubscribedInCall
  <2>3. call'[t].at = IF "stopping" \in core.subscribed THEN "detach" ELSE "cleanup"
    BY <1>6 DEF PublishStopping, CallType
  <2> QED  BY <1>6, <2>2, <2>3
<1>7. CASE Detach(t) \/ DetachRelease(t)
  <2>1. CASE Detach(t)
    BY <2>1, DetachMoves
  <2>2. CASE DetachRelease(t)
    BY <2>2, ReleaseMoves DEF CallType
  <2> QED  BY <1>7, <2>1, <2>2
<1>8. CASE Lifecycle(t)
  BY <1>8, LifecycleMoves DEF CorePlaces, InitPlaces, EndPlaces
<1> QED  BY <1>1, <1>2, <1>3, <1>4, <1>5, <1>6, <1>7, <1>8 DEF Step, Lifecycle

(* A thread whose place changes has taken the step, ...                    *)
LEMMA WhoMoves ==
    ASSUME Invariant, Next, NEW u \in Threads, call'[u].at # call[u].at,
           call'[u].at \in {"attach", "detach_join", "detach_release", "cleanup", "wait_idle", "finish"}
    PROVE  Step(u)
<1> USE TypeParts
<1> USE DEF Invariant
<1>1. ASSUME NEW t \in Threads, Step(t) PROVE Step(u)
  BY <1>1, StepMoves
<1>2. ASSUME NEW t \in Threads, Begin(t) PROVE FALSE
  <2>1. ASSUME NEW o \in {"start", "stop"}, Call(t, o) PROVE FALSE
    BY <2>1, GotoMoves DEF Call, Places
  <2>2. CASE Shutdown(t)
    BY <2>2, DownMoves, WaysDown
  <2>3. CASE Boot(t)
    BY <2>3, GotoMoves DEF Boot, Places
  <2> QED  BY <1>2, <2>1, <2>2, <2>3 DEF Begin
<1>3. ASSUME NEW g \in Generations, Produce(g) \/ Consume(g) PROVE FALSE
  BY <1>3, LoopMoves
<1> QED  BY <1>1, <1>2, <1>3 DEF Next

(* ... and the camera's references go in two steps.                        *)
LEMMA StopMovesOn ==
    ASSUME TypeOK, NEW u \in Threads
    PROVE  /\ Cleanup(u) => call[u].at = "cleanup" /\ call'[u].at = "wait_idle"
           /\ DestroyPool(u) => call[u].at = "wait_idle" /\ call'[u].at = "finish"
BY TypeParts, GotoMoves DEF Cleanup, DestroyPool, Places

(* A consumer is there only as long as zlmedia is initialized.             *)
LEMMA ConsumedStep ==
    ASSUME Invariant, Alone, Subscribed, Consumed, StoppedInTime, NothingLeft, Next
    PROVE  Consumed'
<1> USE TypeParts
<1> USE DEF Invariant
<1>1. ASSUME NEW t \in Threads, Lifecycle(t) PROVE Consumed'
  <2>1. camera.state = "STOPPED"
    BY <1>1, LifecycleMoves DEF StoppedInTime
  <2>2. camera.channel = None
    BY <2>1 DEF StoppedInTime, HandlesOK
  <2>3. \A g \in Generations : channel[g].holders = {}
    BY <2>2, Numbers DEF NothingLeft
  <2>4. \A u \in Threads : call[u].at # "attach"
    BY <2>1 DEF Turns, StartingPlaces
  <2>5. channel' = channel /\ \A u \in Threads : call'[u].at # "attach"
    BY <1>1, <2>4, LifecycleMoves DEF CorePlaces, InitPlaces, EndPlaces
  <2> QED  BY <2>3, <2>5 DEF Consumed
<1>2. CASE core'.built = core.built
  <2>1. ASSUME NEW u \in Threads, call'[u].at = "attach" PROVE "zlmedia" \in core.built
    <3>1. CASE call[u].at = "attach"
      BY <3>1 DEF Consumed
    <3>2. CASE call[u].at # "attach"
      BY <2>1, <3>2, WhoMoves, Arrives
    <3> QED  BY <3>1, <3>2
  <2>2. ASSUME "zlmedia" \notin core.built, NEW g \in Generations
        PROVE  "zlmedia" \notin channel'[g].holders
    <3>1. "zlmedia" \notin channel[g].holders
      BY <2>2 DEF Consumed
    <3>2. ASSUME NEW t \in Threads, Start(t) PROVE "zlmedia" \notin channel'[g].holders
      BY <3>1, <3>2 DEF Start, ChannelType
    <3>3. ASSUME NEW t \in Threads PROVE ~Attach(t)
      BY <2>2 DEF Consumed, Attach
    <3> QED  BY <3>1, <3>2, <3>3, HoldersGrow
  <2> QED  BY <1>2, <2>1, <2>2 DEF Consumed
<1>3. ASSUME NEW t \in Threads, Boot(t) \/ Shutdown(t) PROVE core'.built = core.built
  BY <1>3 DEF Boot, Shutdown, CoreType
<1> QED  BY <1>1, <1>2, <1>3, CoreMoves

(* What a stop gives up, nobody else keeps.                                *)
LEMMA NothingLeftStep ==
    ASSUME Invariant, Invariant', Alone, Subscribed, Consumed, NothingLeft, Next
    PROVE  NothingLeft'
<1> USE TypeParts
<1> USE DEF NothingLeft
<1> USE DEF Invariant
<1>1. ASSUME NEW g \in Generations, channel'[g].holders # {} PROVE camera'.channel = g
  <2>1. ASSUME NEW t \in Threads, Start(t) PROVE camera'.channel = g
    <3>1. camera'.channel = generation + 1 /\ camera.channel = None
      BY <2>1, StreamOfStart DEF Start
    <3>2. g # generation + 1 => channel'[g].holders = channel[g].holders
      BY <2>1 DEF Start, ChannelType
    <3> QED  BY <1>1, <3>1, <3>2, Numbers
  <2>2. ASSUME NEW t \in Threads, Attach(t) PROVE camera'.channel = g
    <3>1. camera' = camera /\ camera.channel = generation
      BY <2>2, StreamOfStart DEF Attach, StartingPlaces
    <3>2. g # generation => channel'[g].holders = channel[g].holders
      BY <2>2, AttachMoves DEF ChannelType
    <3> QED  BY <1>1, <3>1, <3>2
  <2>3. ASSUME NEW t \in Threads, Cleanup(t) PROVE FALSE
    <3>1. "zlmedia" \notin channel[camera.channel].holders /\ camera.channel \in Generations
      BY <2>3, StreamOfStop DEF Cleanup
    <3>2. channel' = [channel EXCEPT ![camera.channel] = Released(channel[camera.channel], "camera")]
      BY <2>3 DEF Cleanup
    <3>3. channel'[camera.channel].holders = {}
      BY <3>1, <3>2 DEF Released, ChannelType
    <3>4. g # camera.channel => channel'[g].holders = channel[g].holders
      BY <3>2 DEF ChannelType
    <3> QED  BY <1>1, <3>3, <3>4
  <2>4. CASE channel'[g].holders \subseteq channel[g].holders /\ camera'.channel = camera.channel
    BY <1>1, <2>4
  <2> QED  BY <2>1, <2>2, <2>3, <2>4, HoldersGrow, CameraHandles
<1> SUFFICES ASSUME NEW u \in Threads
             PROVE  /\ call'[u].at \in {"detach_join", "detach_release"} => zl'.channel = None
                    /\ call'[u].at = "cleanup" => "zlmedia" \notin channel'[camera'.channel].holders
                    /\ call'[u].at = "wait_idle" => Idle(camera.pool)'
                    /\ call'[u].at = "finish" => camera'.pool = None
  BY <1>1
<1>2. ASSUME call'[u].at \in {"detach_join", "detach_release"} PROVE zl'.channel = None
  <2>1. CASE call[u].at \in {"detach_join", "detach_release"}
    <3>1. Detaches(u, "stop") \/ (Busy(u) /\ call[u].at \notin StartingPlaces)
      BY <2>1 DEF Detaches, Busy, Detaching, StartingPlaces, CallType
    <3>2. \A t \in Threads : ~Attach(t)
      BY <3>1, GivingUpIsAlone
    <3>3. ASSUME NEW t \in Threads, Detach(t) PROVE zl'.channel = None
      BY <3>3, DetachMoves
    <3>4. ASSUME NEW t \in Threads, AttachFails(t) PROVE zl'.channel = None
      BY <3>4 DEF AttachFails
    <3> QED  BY <2>1, <3>2, <3>3, <3>4, ZlmediaHandles
  <2>2. CASE call[u].at \notin {"detach_join", "detach_release"}
    <3>1. Detach(u) \/ DetachJoin(u)
      BY <1>2, <2>2, WhoMoves, Arrives
    <3>2. ~DetachJoin(u)
      BY <2>2 DEF DetachJoin
    <3> QED  BY <3>1, <3>2, DetachMoves
  <2> QED  BY <2>1, <2>2
<1>3. ASSUME call'[u].at = "cleanup" PROVE "zlmedia" \notin channel'[camera'.channel].holders
  <2>1. CASE call[u].at = "cleanup"
    <3>1. Busy(u) /\ call[u].at \notin StartingPlaces
      BY <2>1 DEF Busy, StartingPlaces, StoppingPlaces
    <3>2. \A t \in Threads : ~Start(t) /\ ~Attach(t) /\ ~Cleanup(t)
      BY <1>3, <3>1, GivingUpIsAlone, StopMovesOn DEF Busy, StoppingPlaces
    <3>3. camera'.channel = camera.channel /\ camera.channel \in Generations
      BY <2>1, <3>2, CameraHandles, StreamOfStop
    <3>4. channel'[camera.channel].holders \subseteq channel[camera.channel].holders
      BY <3>2, <3>3, HoldersGrow
    <3> QED  BY <2>1, <3>3, <3>4
  <2>2. CASE PublishStopping(u) /\ "zlmedia" \notin core.built
    <3>1. /\ camera' = camera /\ channel' = channel
          /\ call[u].at = "publish_stopping"
      BY <2>2 DEF PublishStopping
    <3>2. camera.channel \in Generations
      BY <3>1, StreamOfStop
    <3> QED  BY <2>2, <3>1, <3>2 DEF Consumed
  <2>3. CASE DetachRelease(u)
    <3>1. DetachRelease(u)
      BY <2>3
    <3>2. call[u].at = "detach_release" /\ camera' = camera /\ zl' = zl
      BY <3>1 DEF DetachRelease
    <3>3. call[u].resume = "cleanup" /\ call'[u].channel = None
      BY <1>3, <3>1, ReleaseMoves
    <3>4. Busy(u) /\ call[u].at \notin StartingPlaces /\ camera.channel # None
      BY <3>2, <3>3 DEF Busy, Detaches, Detaching, StartingPlaces, Turns
    <3>5. \A v \in Threads \ {u} : call[v].at \notin Detaching
      BY <3>4, GivingUpIsAlone
    <3>6. \A v \in Threads \ {u} : call[v].channel = None
      BY <3>5 DEF Attached, DetachedOnce, Detaching
    <3>7. \A v \in Threads : call'[v].channel = None
      BY <3>1, <3>3, <3>6, ReleaseMoves
    <3>8. zl'.channel = None /\ camera.channel \in Generations
      BY <3>2, <3>4, HandleType
    <3> QED  BY <3>2, <3>4, <3>7, <3>8 DEF Owners, ZlmediaOwned
  <2> QED  BY <1>3, <2>1, <2>2, <2>3, WhoMoves, Arrives
<1>4. ASSUME call'[u].at = "wait_idle" PROVE Idle(camera.pool)'
  <2>1. CASE call[u].at = "wait_idle"
    <3>1. Busy(u) /\ call[u].at \notin StartingPlaces
      BY <2>1 DEF Busy, StartingPlaces, StoppingPlaces
    <3>2. \A t \in Threads : ~Start(t) /\ ~DestroyPool(t)
      BY <1>4, <3>1, GivingUpIsAlone, StopMovesOn DEF Busy, StoppingPlaces
    <3>3. camera'.pool = camera.pool /\ camera.pool \in Generations
      BY <2>1, <3>2, CameraHandles, StreamOfStop
    <3>4. camera.thread = None
      BY <2>1 DEF Turns, HandlesOK
    <3>5. ~ProducerAcquire(camera.pool)
      BY <3>3, <3>4, Numbers DEF ProducerAcquire, Owners, ProducerOwned, Unjoined
    <3>6. InUse(camera.pool) = {}
      BY <2>1 DEF Idle
    <3>7. \A g \in Generations : g = camera.pool => InUse(g)' = {}
      BY <3>3, <3>5, <3>6, InUseGrows
    <3>8. \A g \in Generations : g = camera'.pool => Idle(g)'
      BY <3>3, <3>7 DEF Idle
    <3> QED  BY <3>3, <3>8 DEF Idle, InUse
  <2>2. CASE call[u].at # "wait_idle"
    <3>1. Cleanup(u)
      BY <1>4, <2>2, WhoMoves, Arrives
    <3>2. PICK g \in Generations : g = camera.channel /\ g = camera.pool
      BY <3>1, StreamOfStop DEF Cleanup
    <3>3. camera'.pool = g /\ camera.thread = None
      BY <3>1, <3>2 DEF Cleanup, Turns, CameraType
    <3>4. "zlmedia" \notin channel[g].holders
      BY <3>1, <3>2 DEF Cleanup
    <3>5. channel' = [channel EXCEPT ![g] = Released(channel[g], "camera")]
          /\ producer' = producer /\ consumer' = consumer
      BY <3>1, <3>2 DEF Cleanup
    <3>6. channel'[g].queue = <<>>
      BY <3>4, <3>5 DEF Released, ChannelType
    <3>7. producer'[g].frame = None /\ consumer'[g].frame = None
      BY <3>3, <3>4, <3>5, NoFrames, Numbers
    <3> QED  BY <3>3, <3>6, <3>7 DEF Idle, InUse
  <2> QED  BY <2>1, <2>2
<1>5. ASSUME call'[u].at = "finish" PROVE camera'.pool = None
  <2>1. ASSUME NEW t \in Threads, DestroyPool(t) PROVE camera'.pool = None
    BY <2>1 DEF DestroyPool, CameraType
  <2>2. CASE call[u].at = "finish"
    <3>1. \A t \in Threads : ~Start(t)
      BY <2>2, GivingUpIsAlone DEF Busy, StartingPlaces, StoppingPlaces
    <3> QED  BY <2>1, <2>2, <3>1, CameraHandles
  <2>3. CASE call[u].at # "finish"
    <3>1. DestroyPool(u) \/ WaitTimeout(u)
      BY <1>5, <2>3, WhoMoves, Arrives
    <3>2. ~WaitTimeout(u)
      BY DEF WaitTimeout
    <3> QED  BY <2>1, <3>1, <3>2
  <2> QED  BY <2>2, <2>3
<1> QED  BY <1>2, <1>3, <1>4, <1>5

(* The rule's part of the invariant holds at first, ...                    *)
LEMMA UndisturbedInit == ASSUME Init PROVE Undisturbed
BY Numbers DEF Init, None, Undisturbed, Alone, Subscribed, Consumed, StoppedInTime, NothingLeft,
   CorePlaces, InitPlaces, EndPlaces

(* ... is kept by every step, ...                                          *)
LEMMA UndisturbedStep == ASSUME Invariant, Invariant', Undisturbed, Next PROVE Undisturbed'
<1> SUFFICES ASSUME Quiet' PROVE Alone' /\ Subscribed' /\ Consumed' /\ StoppedInTime' /\ NothingLeft'
  BY DEF Undisturbed
<1>1. Quiet
  BY QuietStays DEF Quiet
<1>2. Alone /\ Subscribed /\ Consumed /\ StoppedInTime /\ NothingLeft
  BY <1>1 DEF Undisturbed
<1> QED
  BY <1>1, <1>2, AloneStep, SubscribedStep, ConsumedStep, StoppedInTimeStep, NothingLeftStep

(* ... and by stuttering.                                                  *)
LEMMA UndisturbedStutters == ASSUME Undisturbed, UNCHANGED vars PROVE Undisturbed'
<1> USE DEF vars
<1>1. Alone' <=> Alone
  BY Zenon DEF Alone
<1>2. Subscribed' <=> Subscribed
  BY Zenon DEF Subscribed
<1>3. (Consumed' <=> Consumed) /\ (StoppedInTime' <=> StoppedInTime) /\ (Quiet' <=> Quiet)
  BY Zenon DEF Consumed, StoppedInTime, Quiet
<1>4. Idle(camera.pool)' <=> Idle(camera.pool)
  BY Zenon DEF Idle, InUse
<1>5. NothingLeft' <=> NothingLeft
  BY <1>4, Zenon DEF NothingLeft
<1> QED  BY <1>1, <1>2, <1>3, <1>5 DEF Undisturbed

(* An initialization or a shutdown has the service for itself, and a stop  *)
(* leaves nothing, when the client keeps the rule.                         *)
THEOREM UndisturbedHolds == Spec => []Undisturbed
<1>1. Init => Undisturbed
  BY UndisturbedInit
<1>2. Invariant /\ Invariant' /\ Undisturbed /\ [Next]_vars => Undisturbed'
  BY UndisturbedStep, UndisturbedStutters
<1> QED  BY <1>1, <1>2, InvariantHolds, PTL DEF Spec

(* A thread that detaches, or that starts or stops, is not idle; so a      *)
(* camera that is stopped has given everything back.                       *)
LEMMA CleanWhenStopped == ASSUME Invariant, Undisturbed PROVE StoppedIsClean
<1> USE TypeParts, Numbers
<1> USE DEF Invariant
<1> SUFFICES ASSUME Quiet
             PROVE  /\ \A t \in At({"wait_idle"}) : Idle(camera.pool)
                    /\ camera.state # "ERROR"
                    /\ camera.state = "STOPPED" =>
                         /\ camera.pool = None /\ camera.channel = None /\ camera.thread = None
                         /\ zl.thread = None /\ zl.channel = None
                         /\ ~camera.streaming /\ ~zl.running
                         /\ pools = {}
                         /\ \A g \in Generations : channel[g].holders = {} /\ ~Unjoined(producer[g])
                                                                /\ ~Unjoined(consumer[g])
  BY DEF StoppedIsClean, HandshakeReturnsFrames, NothingKept
<1>1. StoppedInTime /\ NothingLeft
  BY DEF Undisturbed
<1>2. \A t \in At({"wait_idle"}) : Idle(camera.pool)
  BY <1>1 DEF At, NothingLeft
<1>3. camera.state # "ERROR"
  BY <1>1 DEF StoppedInTime
<1>4. ASSUME camera.state = "STOPPED"
      PROVE  /\ camera.pool = None /\ camera.channel = None /\ camera.thread = None
             /\ zl.thread = None /\ zl.channel = None
             /\ ~camera.streaming /\ ~zl.running
             /\ pools = {}
             /\ \A g \in Generations : channel[g].holders = {} /\ ~Unjoined(producer[g])
                                                    /\ ~Unjoined(consumer[g])
  <2>1. /\ camera.pool = None /\ camera.channel = None /\ camera.thread = None /\ pools = {}
        /\ ~camera.streaming
    BY <1>1, <1>4 DEF StoppedInTime, HandlesOK
  <2>2. \A g \in Generations : channel[g].holders = {}
    BY <1>1, <2>1 DEF NothingLeft
  <2>3. zl.channel = None /\ zl.thread = None /\ ~zl.running
    BY <2>2, HandleType DEF Owners, ZlmediaOwned, Attached, AttachedOnce
  <2>4. \A g \in Generations : ~Unjoined(producer[g])
    BY <2>1 DEF Owners, ProducerOwned
  <2>5. \A g \in Generations : ~Unjoined(consumer[g])
    BY <2>2, <2>3 DEF Owners, ConsumerOwned, ZlmediaOwned
  <2> QED  BY <2>1, <2>2, <2>3, <2>4, <2>5
<1> QED  BY <1>2, <1>3, <1>4

(* The handshake of STREAM_STOPPING gives all frames back, and a stopped   *)
(* camera keeps nothing and has joined its threads and the consumer's, if  *)
(* the service is not called while the core is initialized or shut down.   *)
THEOREM StopsLeaveNothing == Spec => []StoppedIsClean
BY CleanWhenStopped, InvariantHolds, UndisturbedHolds, PTL

(* Under the same rule, no thread of a stream is left when the core is     *)
(* stopped, by a shutdown or by an initialization that has failed.         *)
THEOREM ShutdownJoinsThreads == Spec => [](Quiet => ThreadsJoined)
<1>1. ASSUME Invariant, Undisturbed PROVE Quiet => ThreadsJoined
  <2> SUFFICES ASSUME Quiet, core.state = "STOPPED"
               PROVE  \A g \in Generations : ~Unjoined(producer[g]) /\ ~Unjoined(consumer[g])
    BY DEF ThreadsJoined
  <2>1. camera.state = "STOPPED"
    BY <1>1 DEF Undisturbed, StoppedInTime
  <2> QED  BY <1>1, <2>1, CleanWhenStopped DEF StoppedIsClean, NothingKept
<1> QED  BY <1>1, InvariantHolds, UndisturbedHolds, PTL

=============================================================================
