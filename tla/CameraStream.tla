----------------------------- MODULE CameraStream -----------------------------
(***************************************************************************)
(* The video stream of app/features: camera_mod.c starts and stops it,     *)
(* zlmedia_mod.c consumes it, and sys_core_init and sys_core_shutdown take *)
(* both components up and down.  Each stream (generation) has a pool, a    *)
(* channel, a producer thread and, if zlmedia attaches, a consumer thread. *)
(*                                                                         *)
(* The framework is taken as its own modules describe it: a call of the    *)
(* channel or the pool is one step (SysChannel, SysBufferPool), a service  *)
(* is unregistered when no call is in flight (SysService), and an          *)
(* unsubscribe returns when no callback is in flight (SysEvent).  A        *)
(* synchronous publish runs the callbacks in the publishing thread.        *)
(*                                                                         *)
(* A thread t that calls start_stream, stop_stream, sys_core_init or       *)
(* sys_core_shutdown is at                                                 *)
(*                                                                         *)
(*    start, stop          it has acquired the service; in camera_real_... *)
(*    publish_started, attach, started                                     *)
(*                         rest of camera_real_start; attach is the        *)
(*                         callback on_stream_started                      *)
(*    rollback             rollback_stream_start                           *)
(*    halt, join, publish_stopping, cleanup, wait_idle, finish             *)
(*                         what the rollback and camera_real_stop share    *)
(*    detach, detach_join, detach_release                                  *)
(*                         detach_stream, in the callback                  *)
(*                         on_stream_stopping or in zlmedia_stop           *)
(*    init_camera, init_zlmedia, subscribe_stopping, register, starting    *)
(*                         sys_core_init: camera_init, zlmedia_init, and   *)
(*                         the starts, for which neither has a callback    *)
(*    unsubscribe, await_stopping, await_started                           *)
(*                         zlmedia_deinit, or zlmedia_init that has failed *)
(*    close, await_calls   camera_deinit, and the end of a shutdown or of  *)
(*                         an initialization that has failed               *)
(*                                                                         *)
(* zlmedia is configured.  Left out: what a frame holds (its generation is *)
(* that of the channel it is in), frame and drop counts, the port and the  *)
(* service of zlmedia, validation of the configuration, and errors of      *)
(* sys_thread_join (a thread never joins itself here).                     *)
(***************************************************************************)
EXTENDS Naturals, FiniteSets, Sequences, FiniteSetsExt

CONSTANTS
    Threads,        \* threads that call the service or the core
    BufferCount,    \* blocks of a pool and capacity of a channel
    MaxStreams,     \* bound: the streams created in a behaviour
    MaxBoots        \* bound: the calls of sys_core_init

ASSUME CameraAssumption ==
    /\ IsFiniteSet(Threads) /\ "nobody" \notin Threads
    /\ BufferCount \in Nat \ {0}
    /\ MaxStreams \in Nat
    /\ MaxBoots \in Nat

None == 0
Generations == 1..MaxStreams
Blocks == 1..BufferCount

VARIABLES
    camera,     \* g_camera_state, _pool, _channel, _thread, _streaming
    generation, \* g_stream_generation of camera_mod.c
    zl,         \* g_zlmedia_thread, _channel, _running, g_stream_generation
    pools,      \* the generations whose pool exists
    channel,    \* channel[g]: who has a reference to it, closed, its queue
    producer,   \* producer[g]: where it is, stop token, the block it holds
    consumer,   \* consumer[g]: likewise
    core,       \* g_core_state, the thread in sys_core_init or _shutdown,
                \* the components initialized and started, the camera
                \* service, zlmedia's subscriptions, calls of init
    call,       \* call[t]: where t is, event.generation, and the locals of
                \* detach_stream with the place it returns to
    quiet       \* client rule: the core states without calls, see MayCall

vars == <<camera, generation, zl, pools, channel, producer, consumer, core, call, quiet>>

Places == {"ready", "start", "publish_started", "attach", "started", "rollback", "stop", "halt",
           "join", "publish_stopping", "cleanup", "wait_idle", "finish", "detach", "detach_join",
           "detach_release", "init_camera", "init_zlmedia", "subscribe_stopping", "register",
           "starting", "unsubscribe", "await_stopping", "await_started", "close", "await_calls"}

At(places) == {t \in Threads : call[t].at \in places}
Detaching == {"detach", "detach_join", "detach_release"}
Goto(t, place) == call' = [call EXCEPT ![t].at = place]

(* rollback_components and sys_component_stop_all: where the stop          *)
(* callbacks begin, and what follows the last one.  A component that was   *)
(* not started is not stopped, one not initialized is not deinitialized.   *)
AfterStop ==
    CASE "zlmedia" \in core.built -> "unsubscribe"
      [] core.built = {"camera"} -> "close"
      [] OTHER -> "await_calls"
FirstDown ==
    CASE "zlmedia" \in core.started -> "detach"
      [] core.started = {"camera"} -> "stop"
      [] OTHER -> AfterStop

(* A thread returns from camera_real_start or camera_real_stop: out of the *)
(* service call, or on to the deinit callbacks.                            *)
Return(t) ==
    call' = [call EXCEPT ![t].at = IF core.owner = t THEN AfterStop ELSE "ready",
                         ![t].gen = None, ![t].resume = "cleanup"]

(* The blocks of pool g that have a reference, and the ones that have not. *)
InUse(g) ==
    ({channel[g].queue[i] : i \in DOMAIN channel[g].queue}
        \union {producer[g].frame, consumer[g].frame}) \ {None}
FreeBlocks(g) == Blocks \ InUse(g)
Idle(g) == InUse(g) = {}

(* Definitions named X_Y are X with the plausible bug Y; no action uses     *)
(* them.                                                                   *)
MayStart_StateOnly == camera.state = "STOPPED"
StopRequested_Never(thread) == thread
Released_Undrained(c, owner) == [c EXCEPT !.holders = @ \ {owner}]
Acquired_Untested(g) == {IF FreeBlocks(g) = {} THEN None ELSE Min(FreeBlocks(g))}

(* The tests of camera_real_start and camera_real_stop.                    *)
MayStart == camera.state = "STOPPED" /\ camera.pool = None
MayStop == camera.state = "RUNNING" /\ camera.pool # None /\ camera.channel # None

(* What sys_buffer_acquire finds; the free blocks are alike.               *)
Acquired(g) == IF FreeBlocks(g) = {} THEN {} ELSE {Min(FreeBlocks(g))}

(* A thread, producer or consumer, after sys_thread_request_stop.          *)
StopRequested(thread) == [thread EXCEPT !.stop = TRUE]

(* A channel after its owner has released it: the last release drains it.  *)
Released(c, owner) ==
    LET left == c.holders \ {owner}
    IN  [c EXCEPT !.holders = left, !.queue = IF left = {} THEN <<>> ELSE @]

(* What on_stream_started leaves in zlmedia's g_stream_generation.         *)
AttachedGeneration(g) == g

(* A joined producer is followed by the handshake with the consumers.      *)
AfterJoin == "publish_stopping"

(* Where a start goes on when its event has, or has not, been accepted.    *)
AfterStarted(accepted) == IF accepted THEN "started" ELSE "rollback"

FinalState == IF camera.pool = None /\ camera.thread = None THEN "STOPPED" ELSE "ERROR"

(* Who runs a callback of on_stream_started or on_stream_stopping.         *)
CallbackInFlight(events) == \E t \in Threads :
    \/ "started" \in events /\ call[t].at = "attach"
    \/ "stopping" \in events /\ call[t].at \in Detaching /\ call[t].resume = "cleanup"

(* The client rule `quiet`: no call of the service runs while the core is  *)
(* in one of these states (main.c has one thread, so it keeps the rule for *)
(* both).                                                                  *)
MayCall == core.state \notin quiet
MayShutdown == "STOPPING" \in quiet => At({"ready"}) = Threads
Quiet == quiet = {"STARTING", "STOPPING"}

-----------------------------------------------------------------------------
(* camera_start_stream and camera_stop_stream acquire the service.         *)
Call(t, operation) ==
    /\ call[t].at = "ready" /\ MayCall
    /\ core.open
    /\ Goto(t, operation)
    /\ UNCHANGED <<camera, generation, zl, pools, channel, producer, consumer, core, quiet>>

(* camera_real_start under g_camera_mutex fails: its state forbids it, or  *)
(* the pool or the channel cannot be created.                              *)
StartRefused(t) ==
    /\ call[t].at = "start"
    /\ Return(t)
    /\ UNCHANGED <<camera, generation, zl, pools, channel, producer, consumer, core, quiet>>

(* The producer cannot be created: pool and channel are released again.    *)
StartWithoutProducer(t) ==
    /\ call[t].at = "start" /\ MayStart /\ generation < MaxStreams
    /\ generation' = generation + 1
    /\ camera' = [camera EXCEPT !.streaming = FALSE]
    /\ Return(t)
    /\ UNCHANGED <<zl, pools, channel, producer, consumer, core, quiet>>

Start(t) ==
    LET g == generation + 1
    IN  /\ call[t].at = "start" /\ MayStart /\ generation < MaxStreams
        /\ generation' = g
        /\ camera' = [state |-> "STARTING", pool |-> g, channel |-> g, thread |-> g,
                      streaming |-> TRUE]
        /\ pools' = pools \union {g}
        /\ channel' = [channel EXCEPT ![g].holders = {"camera"}]
        /\ producer' = [producer EXCEPT ![g].at = "loop"]
        /\ call' = [call EXCEPT ![t].at = "publish_started", ![t].gen = g]
        /\ UNCHANGED <<zl, consumer, core, quiet>>

(* sys_event_publish_sync of CAMERA_EVENT_STREAM_STARTED.  Subscribers     *)
(* other than zlmedia may reject it (tests/test_camera_rollback.c).        *)
PublishStarted(t) ==
    /\ call[t].at = "publish_started"
    /\ IF "started" \in core.subscribed
         THEN Goto(t, "attach")
         ELSE \E accepted \in BOOLEAN : Goto(t, AfterStarted(accepted))
    /\ UNCHANGED <<camera, generation, zl, pools, channel, producer, consumer, core, quiet>>

(* on_stream_started, under g_zlmedia_mutex, and finish_callback.          *)
Attach(t) ==
    LET g == call[t].gen
    IN  /\ call[t].at = "attach"
        /\ zl.thread = None
        /\ zl' = [thread |-> g, channel |-> g, generation |-> AttachedGeneration(g),
                  running |-> TRUE]
        /\ channel' = [channel EXCEPT ![g].holders = @ \union {"zlmedia"}]
        /\ consumer' = [consumer EXCEPT ![g].at = "loop"]
        /\ \E accepted \in BOOLEAN : Goto(t, AfterStarted(accepted))
        /\ UNCHANGED <<camera, generation, pools, producer, core, quiet>>

(* A consumer is attached already.                                         *)
AttachRefused(t) ==
    /\ call[t].at = "attach"
    /\ zl.thread # None
    /\ Goto(t, AfterStarted(FALSE))
    /\ UNCHANGED <<camera, generation, zl, pools, channel, producer, consumer, core, quiet>>

(* The consumer cannot be created.                                         *)
AttachFails(t) ==
    /\ call[t].at = "attach"
    /\ zl.thread = None
    /\ zl' = [thread |-> None, channel |-> None, generation |-> call[t].gen, running |-> FALSE]
    /\ Goto(t, AfterStarted(FALSE))
    /\ UNCHANGED <<camera, generation, pools, channel, producer, consumer, core, quiet>>

Started(t) ==
    /\ call[t].at = "started"
    /\ camera' = [camera EXCEPT !.state = "RUNNING"]
    /\ Return(t)
    /\ UNCHANGED <<generation, zl, pools, channel, producer, consumer, core, quiet>>

-----------------------------------------------------------------------------
Rollback(t) ==
    /\ call[t].at = "rollback"
    /\ camera' = [camera EXCEPT !.state = "STOPPING"]
    /\ Goto(t, "halt")
    /\ UNCHANGED <<generation, zl, pools, channel, producer, consumer, core, quiet>>

(* camera_real_stop: SYS_OK when stopped, SYS_ERR_BUSY when not running.   *)
StopRefused(t) ==
    /\ call[t].at = "stop"
    /\ ~MayStop
    /\ Return(t)
    /\ UNCHANGED <<camera, generation, zl, pools, channel, producer, consumer, core, quiet>>

Stop(t) ==
    /\ call[t].at = "stop"
    /\ MayStop
    /\ camera' = [camera EXCEPT !.state = "STOPPING"]
    /\ call' = [call EXCEPT ![t].at = "halt", ![t].gen = generation]
    /\ UNCHANGED <<generation, zl, pools, channel, producer, consumer, core, quiet>>

(* The stop token of the producer is set and its channel closed.           *)
Halt(t) ==
    /\ call[t].at = "halt"
    /\ camera' = [camera EXCEPT !.streaming = FALSE]
    /\ producer' = [producer EXCEPT ![camera.thread] = StopRequested(@)]
    /\ channel' = [channel EXCEPT ![camera.channel].closed = TRUE]
    /\ Goto(t, "join")
    /\ UNCHANGED <<generation, zl, pools, consumer, core, quiet>>

Join(t) ==
    /\ call[t].at = "join"
    /\ producer[camera.thread].at = "done"
    /\ producer' = [producer EXCEPT ![camera.thread].at = "joined"]
    /\ camera' = [camera EXCEPT !.thread = None]
    /\ Goto(t, AfterJoin)
    /\ UNCHANGED <<generation, zl, pools, channel, consumer, core, quiet>>

(* sys_event_publish_sync of CAMERA_EVENT_STREAM_STOPPING, up to the       *)
(* callback on_stream_stopping.                                            *)
PublishStopping(t) ==
    /\ call[t].at = "publish_stopping"
    /\ call' = [call EXCEPT ![t].resume = "cleanup",
                    ![t].at = IF "stopping" \in core.subscribed THEN "detach" ELSE "cleanup"]
    /\ UNCHANGED <<camera, generation, zl, pools, channel, producer, consumer, core, quiet>>

(* The camera's reference to the channel goes.                             *)
Cleanup(t) ==
    /\ call[t].at = "cleanup"
    /\ channel' = [channel EXCEPT ![camera.channel] = Released(@, "camera")]
    /\ camera' = [camera EXCEPT !.channel = None]
    /\ Goto(t, "wait_idle")
    /\ UNCHANGED <<generation, zl, pools, producer, consumer, core, quiet>>

(* sys_buffer_pool_wait_idle for two seconds, then sys_buffer_pool_destroy. *)
DestroyPool(t) ==
    /\ call[t].at = "wait_idle"
    /\ Idle(camera.pool)
    /\ pools' = pools \ {camera.pool}
    /\ camera' = [camera EXCEPT !.pool = None]
    /\ Goto(t, "finish")
    /\ UNCHANGED <<generation, zl, channel, producer, consumer, core, quiet>>

WaitTimeout(t) ==
    /\ call[t].at = "wait_idle"
    /\ ~Idle(camera.pool)
    /\ Goto(t, "finish")
    /\ UNCHANGED <<camera, generation, zl, pools, channel, producer, consumer, core, quiet>>

Finish(t) ==
    /\ call[t].at = "finish"
    /\ camera' = [camera EXCEPT !.state = FinalState]
    /\ Return(t)
    /\ UNCHANGED <<generation, zl, pools, channel, producer, consumer, core, quiet>>

-----------------------------------------------------------------------------
(* detach_stream takes the handles under g_zlmedia_mutex ...               *)
Detach(t) ==
    /\ call[t].at = "detach"
    /\ zl' = [zl EXCEPT !.thread = None, !.channel = None, !.running = FALSE]
    /\ call' = [call EXCEPT ![t].thread = zl.thread, ![t].channel = zl.channel,
                    ![t].at = IF zl.thread = None THEN "detach_release" ELSE "detach_join"]
    /\ consumer' = IF zl.thread = None THEN consumer
                                       ELSE [consumer EXCEPT ![zl.thread] = StopRequested(@)]
    /\ UNCHANGED <<camera, generation, pools, channel, producer, core, quiet>>

(* ... joins the consumer ...                                              *)
DetachJoin(t) ==
    /\ call[t].at = "detach_join"
    /\ consumer[call[t].thread].at = "done"
    /\ consumer' = [consumer EXCEPT ![call[t].thread].at = "joined"]
    /\ Goto(t, "detach_release")
    /\ UNCHANGED <<camera, generation, zl, pools, channel, producer, core, quiet>>

(* ... and gives its reference to the channel back.                        *)
DetachRelease(t) ==
    LET g == call[t].channel
    IN  /\ call[t].at = "detach_release"
        /\ channel' = IF g = None THEN channel
                                  ELSE [channel EXCEPT ![g] = Released(@, "zlmedia")]
        /\ call' = [call EXCEPT ![t].at = call[t].resume, ![t].thread = None,
                                ![t].channel = None]
        /\ UNCHANGED <<camera, generation, zl, pools, producer, consumer, core, quiet>>

-----------------------------------------------------------------------------
(* camera_producer *)

ProducerExit(g) ==
    /\ producer[g].at = "loop" /\ producer[g].stop
    /\ producer' = [producer EXCEPT ![g].at = "done"]
    /\ UNCHANGED <<camera, generation, zl, pools, channel, consumer, core, call, quiet>>

(* sys_buffer_acquire from g_camera_pool; without a free block the loop    *)
(* begins again.                                                           *)
ProducerAcquire(g) ==
    /\ producer[g].at = "loop" /\ ~producer[g].stop
    /\ \E b \in Acquired(camera.pool) :
          producer' = [producer EXCEPT ![g].at = "frame", ![g].frame = b]
    /\ UNCHANGED <<camera, generation, zl, pools, channel, consumer, core, call, quiet>>

(* sys_channel_send to g_camera_channel with timeout 0.                    *)
ProducerSend(g) ==
    LET c == camera.channel
    IN  /\ producer[g].at = "frame"
        /\ producer' = [producer EXCEPT ![g].at = IF channel[c].closed THEN "rejected" ELSE "sent"]
        /\ channel' = IF channel[c].closed \/ Len(channel[c].queue) = BufferCount
                        THEN channel
                        ELSE [channel EXCEPT ![c].queue = Append(@, producer[g].frame)]
        /\ UNCHANGED <<camera, generation, zl, pools, consumer, core, call, quiet>>

(* The frame does not fit into its block: it is released without a send,   *)
(* and the thread ends.                                                    *)
ProducerGivesUp(g) ==
    /\ producer[g].at = "frame"
    /\ producer' = [producer EXCEPT ![g].at = "rejected"]
    /\ UNCHANGED <<camera, generation, zl, pools, channel, consumer, core, call, quiet>>

(* sys_buffer_release; after SYS_ERR_CLOSED, too, the thread ends.         *)
ProducerRelease(g) ==
    /\ producer[g].at \in {"sent", "rejected"}
    /\ producer' = [producer EXCEPT ![g].frame = None,
                                    ![g].at = IF @ = "sent" THEN "loop" ELSE "done"]
    /\ UNCHANGED <<camera, generation, zl, pools, channel, consumer, core, call, quiet>>

(* zlmedia_consumer; its argument is channel g *)

(* The stop token is tested between two frames.                            *)
ConsumerTest(g) ==
    /\ consumer[g].at = "loop"
    /\ consumer' = [consumer EXCEPT ![g].at = IF consumer[g].stop THEN "done" ELSE "receive"]
    /\ UNCHANGED <<camera, generation, zl, pools, channel, producer, core, call, quiet>>

(* sys_channel_receive: a message, ...                                     *)
ConsumerReceive(g) ==
    /\ consumer[g].at = "receive"
    /\ channel[g].queue # <<>>
    /\ consumer' = [consumer EXCEPT ![g].at = "frame", ![g].frame = Head(channel[g].queue)]
    /\ channel' = [channel EXCEPT ![g].queue = Tail(@)]
    /\ UNCHANGED <<camera, generation, zl, pools, producer, core, call, quiet>>

(* ... SYS_ERR_CLOSED, or SYS_ERR_TIMEOUT after 200 ms.                    *)
ConsumerReceiveNothing(g) ==
    /\ consumer[g].at = "receive"
    /\ channel[g].queue = <<>>
    /\ consumer' = [consumer EXCEPT ![g].at = IF channel[g].closed THEN "done" ELSE "loop"]
    /\ UNCHANGED <<camera, generation, zl, pools, channel, producer, core, call, quiet>>

(* The frame is checked against g_stream_generation, used and released.    *)
ConsumerRelease(g) ==
    /\ consumer[g].at = "frame"
    /\ consumer' = [consumer EXCEPT ![g].at = "loop", ![g].frame = None]
    /\ UNCHANGED <<camera, generation, zl, pools, channel, producer, core, call, quiet>>

-----------------------------------------------------------------------------
(* sys_core_init.  camera_init resets the state, whatever the camera did   *)
(* before, and opens the service; camera is REQUIRED.                      *)
Boot(t) ==
    /\ call[t].at = "ready"
    /\ core.state = "STOPPED" /\ core.boots < MaxBoots
    /\ core' = [core EXCEPT !.state = "STARTING", !.owner = t, !.boots = @ + 1]
    /\ Goto(t, "init_camera")
    /\ UNCHANGED <<camera, generation, zl, pools, channel, producer, consumer, quiet>>

InitCamera(t) ==
    /\ call[t].at = "init_camera"
    /\ camera' = [camera EXCEPT !.state = "STOPPED", !.streaming = FALSE]
    /\ \/ core' = [core EXCEPT !.open = TRUE, !.built = {"camera"}] /\ Goto(t, "init_zlmedia")
       \/ UNCHANGED core /\ Goto(t, "await_calls")
    /\ UNCHANGED <<generation, zl, pools, channel, producer, consumer, quiet>>

(* zlmedia_init subscribes to both events, one after the other, and        *)
(* registers its service.  What fails is taken back; zlmedia is OPTIONAL.  *)
SubscribeStarted(t) ==
    /\ call[t].at = "init_zlmedia"
    /\ zl' = [zl EXCEPT !.running = FALSE]
    /\ \/ core' = [core EXCEPT !.subscribed = {"started"}] /\ Goto(t, "subscribe_stopping")
       \/ UNCHANGED core /\ Goto(t, "starting")
    /\ UNCHANGED <<camera, generation, pools, channel, producer, consumer, quiet>>

SubscribeStopping(t) ==
    /\ call[t].at = "subscribe_stopping"
    /\ \/ core' = [core EXCEPT !.subscribed = {"started", "stopping"}] /\ Goto(t, "register")
       \/ core' = [core EXCEPT !.subscribed = {}] /\ Goto(t, "await_started")
    /\ UNCHANGED <<camera, generation, zl, pools, channel, producer, consumer, quiet>>

Register(t) ==
    /\ call[t].at = "register"
    /\ \/ core' = [core EXCEPT !.built = @ \union {"zlmedia"}] /\ Goto(t, "starting")
       \/ UNCHANGED core /\ Goto(t, "unsubscribe")
    /\ UNCHANGED <<camera, generation, zl, pools, channel, producer, consumer, quiet>>

(* camera is started first, because zlmedia depends on it.                 *)
StartNext(t) ==
    /\ call[t].at = "starting"
    /\ core.started # core.built
    /\ core' = [core EXCEPT !.started = IF @ = {} THEN {"camera"} ELSE core.built]
    /\ UNCHANGED <<camera, generation, zl, pools, channel, producer, consumer, call, quiet>>

InitDone(t) ==
    /\ call[t].at = "starting"
    /\ core.started = core.built
    /\ core' = [core EXCEPT !.state = "RUNNING", !.owner = "nobody"]
    /\ Goto(t, "ready")
    /\ UNCHANGED <<camera, generation, zl, pools, channel, producer, consumer, quiet>>

(* The event bus, or another component that is REQUIRED, fails.            *)
InitFails(t) ==
    /\ call[t].at \in {"init_camera", "init_zlmedia", "starting"}
    /\ call' = [call EXCEPT ![t].at = FirstDown, ![t].resume = "stop"]
    /\ UNCHANGED <<camera, generation, zl, pools, channel, producer, consumer, core, quiet>>

(* sys_core_shutdown: zlmedia_stop is detach_stream, ...                   *)
Shutdown(t) ==
    /\ call[t].at = "ready" /\ MayShutdown
    /\ core.state = "RUNNING"
    /\ core' = [core EXCEPT !.state = "STOPPING", !.owner = t]
    /\ call' = [call EXCEPT ![t].at = FirstDown, ![t].resume = "stop"]
    /\ UNCHANGED <<camera, generation, zl, pools, channel, producer, consumer, quiet>>

(* ... camera_component_stop is camera_real_stop, and zlmedia_deinit takes *)
(* back its subscriptions, one after the other.                            *)
Unsubscribe(t) ==
    /\ call[t].at = "unsubscribe"
    /\ core' = [core EXCEPT !.subscribed = {"started"}]
    /\ Goto(t, "await_stopping")
    /\ UNCHANGED <<camera, generation, zl, pools, channel, producer, consumer, quiet>>

AwaitStopping(t) ==
    /\ call[t].at = "await_stopping"
    /\ ~CallbackInFlight({"stopping"})
    /\ core' = [core EXCEPT !.subscribed = {}]
    /\ Goto(t, "await_started")
    /\ UNCHANGED <<camera, generation, zl, pools, channel, producer, consumer, quiet>>

AwaitStarted(t) ==
    /\ call[t].at = "await_started"
    /\ ~CallbackInFlight({"started"})
    /\ core' = [core EXCEPT !.built = @ \ {"zlmedia"}]
    /\ Goto(t, IF "zlmedia" \in core.built THEN "close" ELSE "starting")
    /\ UNCHANGED <<camera, generation, zl, pools, channel, producer, consumer, quiet>>

(* camera_deinit closes the service ...                                    *)
Close(t) ==
    /\ call[t].at = "close"
    /\ core' = [core EXCEPT !.open = FALSE]
    /\ Goto(t, "await_calls")
    /\ UNCHANGED <<camera, generation, zl, pools, channel, producer, consumer, quiet>>

(* ... and waits for the calls in flight.  Then the bus stops, the         *)
(* registry is reset, and the core is stopped.                             *)
AwaitCalls(t) ==
    /\ call[t].at = "await_calls"
    /\ At({"ready"}) = Threads \ {t}
    /\ core' = [core EXCEPT !.state = "STOPPED", !.owner = "nobody", !.built = {}, !.started = {}]
    /\ Goto(t, "ready")
    /\ UNCHANGED <<camera, generation, zl, pools, channel, producer, consumer, quiet>>

-----------------------------------------------------------------------------
Init ==
    /\ camera = [state |-> "STOPPED", pool |-> None, channel |-> None, thread |-> None,
                 streaming |-> FALSE]
    /\ generation = 0
    /\ zl = [thread |-> None, channel |-> None, generation |-> None, running |-> FALSE]
    /\ pools = {}
    /\ channel = [g \in Generations |-> [holders |-> {}, closed |-> FALSE, queue |-> <<>>]]
    /\ producer = [g \in Generations |-> [at |-> "none", stop |-> FALSE, frame |-> None]]
    /\ consumer = producer
    /\ core = [state |-> "STOPPED", owner |-> "nobody", built |-> {}, started |-> {},
               open |-> FALSE, subscribed |-> {}, boots |-> 0]
    /\ call = [t \in Threads |-> [at |-> "ready", gen |-> None, thread |-> None,
                                  channel |-> None, resume |-> "cleanup"]]
    /\ quiet \in SUBSET {"STARTING", "STOPPING"}

(* A thread begins.                                                        *)
Begin(t) == Call(t, "start") \/ Call(t, "stop") \/ Boot(t) \/ Shutdown(t)

(* A thread goes on with what it has begun.                                *)
Step(t) ==
    \/ StartRefused(t) \/ StartWithoutProducer(t) \/ Start(t) \/ PublishStarted(t)
    \/ Attach(t) \/ AttachRefused(t) \/ AttachFails(t) \/ Started(t)
    \/ Rollback(t) \/ StopRefused(t) \/ Stop(t)
    \/ Halt(t) \/ Join(t) \/ PublishStopping(t) \/ Cleanup(t)
    \/ DestroyPool(t) \/ WaitTimeout(t) \/ Finish(t)
    \/ Detach(t) \/ DetachJoin(t) \/ DetachRelease(t)
    \/ InitCamera(t) \/ SubscribeStarted(t) \/ SubscribeStopping(t) \/ Register(t)
    \/ StartNext(t) \/ InitDone(t) \/ InitFails(t)
    \/ Unsubscribe(t) \/ AwaitStopping(t) \/ AwaitStarted(t) \/ Close(t) \/ AwaitCalls(t)

Produce(g) ==
    \/ ProducerExit(g) \/ ProducerAcquire(g) \/ ProducerSend(g)
    \/ ProducerGivesUp(g) \/ ProducerRelease(g)

Consume(g) ==
    ConsumerTest(g) \/ ConsumerReceive(g) \/ ConsumerReceiveNothing(g) \/ ConsumerRelease(g)

Next ==
    \/ \E t \in Threads : Begin(t) \/ Step(t)
    \/ \E g \in Generations : Produce(g) \/ Consume(g)

Spec == Init /\ [][Next]_vars

(* Threads run on, in calls and in their loops.  Nothing is assumed of a   *)
(* thread outside a call.                                                  *)
Fairness ==
    /\ \A t \in Threads : WF_vars(Step(t))
    /\ \A g \in Generations : WF_vars(Produce(g)) /\ WF_vars(Consume(g))

LiveSpec == Spec /\ Fairness

-----------------------------------------------------------------------------
Loops == {"none", "loop", "receive", "frame", "sent", "rejected", "done", "joined"}

TypeOK ==
    /\ camera \in [state : {"STOPPED", "STARTING", "RUNNING", "STOPPING", "ERROR"},
                   pool : 0..MaxStreams, channel : 0..MaxStreams, thread : 0..MaxStreams,
                   streaming : BOOLEAN]
    /\ generation \in 0..MaxStreams
    /\ zl \in [thread : 0..MaxStreams, channel : 0..MaxStreams, generation : 0..MaxStreams,
               running : BOOLEAN]
    /\ pools \subseteq Generations
    /\ channel \in [Generations -> [holders : SUBSET {"camera", "zlmedia"}, closed : BOOLEAN,
                                    queue : Seq(Blocks)]]
    /\ {producer, consumer} \subseteq
         [Generations -> [at : Loops, stop : BOOLEAN, frame : Blocks \union {None}]]
    /\ core \in [state : {"STOPPED", "STARTING", "RUNNING", "STOPPING"},
                 owner : Threads \union {"nobody"},
                 built : SUBSET {"camera", "zlmedia"}, started : SUBSET {"camera", "zlmedia"},
                 open : BOOLEAN, subscribed : SUBSET {"started", "stopping"}, boots : 0..MaxBoots]
    /\ call \in [Threads -> [at : Places, gen : 0..MaxStreams, thread : 0..MaxStreams,
                             channel : 0..MaxStreams, resume : {"cleanup", "stop"}]]
    /\ quiet \subseteq {"STARTING", "STOPPING"}

Alive(thread) == thread.at \in {"loop", "frame", "sent", "rejected", "receive"}
Unjoined(thread) == thread.at \notin {"none", "joined"}

(* No channel, block or thread handle is used after it was given up: what  *)
(* the producer finds in g_camera_pool and g_camera_channel, afresh for    *)
(* every frame, is its own stream's and exists, the consumer's channel has *)
(* zlmedia's reference as long as the consumer lives, a pool exists as     *)
(* long as a block of it is in a channel or in a thread's hands, the       *)
(* channel in an event exists as long as its callback runs, and a handle   *)
(* is joined once.  g_stream_generation has no lock where the consumer     *)
(* reads it, but by the time a new stream writes it, no older consumer     *)
(* holds a frame to compare it with.                                       *)
NoUseAfterFree ==
    /\ \A g \in Generations :
         /\ Alive(producer[g]) => /\ camera.pool = g /\ camera.channel = g
                                 /\ g \in pools /\ "camera" \in channel[g].holders
         /\ Alive(consumer[g]) => "zlmedia" \in channel[g].holders
         /\ consumer[g].at = "frame" => zl.generation = g
         /\ ~Idle(g) => g \in pools
    /\ \A t \in Threads :
         /\ call[t].at = "attach" => "camera" \in channel[call[t].gen].holders
         /\ call[t].at = "join" => Unjoined(producer[camera.thread])
         /\ call[t].at = "detach_join" => Unjoined(consumer[call[t].thread])

(* The handshake of STREAM_STOPPING gives all frames back before the       *)
(* camera waits for its pool: the wait never takes long, and no stream     *)
(* ends in the state ERROR, from which there is no way out.                *)
HandshakeReturnsFrames ==
    Quiet => /\ \A t \in At({"wait_idle"}) : Idle(camera.pool)
             /\ camera.state # "ERROR"

(* tests/test_camera_rollback.c, and docs/build.md, section 6: a stopped   *)
(* camera, after a start that was rejected too, streams nothing, keeps     *)
(* nothing, and its threads and the consumer's are joined.                 *)
NothingKept ==
    Quiet /\ camera.state = "STOPPED" =>
        /\ camera.pool = None /\ camera.channel = None /\ camera.thread = None
        /\ zl.thread = None /\ zl.channel = None
        /\ ~camera.streaming /\ ~zl.running
        /\ pools = {}
        /\ \A g \in Generations : channel[g].holders = {} /\ ~Unjoined(producer[g])
                                               /\ ~Unjoined(consumer[g])

(* A stop that nothing disturbs gives everything back.                     *)
StoppedIsClean == HandshakeReturnsFrames /\ NothingKept

(* docs/build.md, section 6: every managed thread has its join, and a      *)
(* shutdown stops the entries before it joins.  When the core is stopped,  *)
(* no thread is left.                                                      *)
ThreadsJoined ==
    core.state = "STOPPED" =>
        \A g \in Generations : ~Unjoined(producer[g]) /\ ~Unjoined(consumer[g])

(* Starts, stops and shutdowns return, whatever they run into.             *)
CallsReturn == \A t \in Threads : call[t].at # "ready" ~> call[t].at = "ready"
=============================================================================
