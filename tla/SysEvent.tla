------------------------------- MODULE SysEvent -------------------------------
(***************************************************************************)
(* The event bus of core/sys_event.c: the array of subscriptions, the      *)
(* bounded queue of asynchronous events with its worker thread, and the    *)
(* count in_flight that keeps a subscription alive while a callback of it  *)
(* is running or queued.                                                   *)
(*                                                                         *)
(* An action is one critical section of g_event_mutex; a callback runs     *)
(* between two of them.  A process stands at                               *)
(*                                                                         *)
(*    ready                     (client) outside every call                *)
(*    callback                  running the callbacks of calls[p]          *)
(*    start                     (client) between the flags and the thread  *)
(*                              creation of sys_event_bus_start            *)
(*    unsubscribe_sleep/_woken  (client) waiting for in_flight = 0         *)
(*    stop_join                 (client) joining the worker                *)
(*    stop_sleep/_woken         (client) waiting for callbacks in flight   *)
(*    loop, sleep, woken, none  (worker) about to take the mutex, blocked  *)
(*                              on g_event_cond, woken, not running        *)
(*                                                                         *)
(* The array of subscriptions is a set: the order in which the callbacks   *)
(* of one event run is left open.  The `active` flag is true of exactly    *)
(* the subscriptions in the array.  Payloads, statistics and the calls     *)
(* that fail without effect (CLOSED, BUSY inside a callback, NOT_FOUND,    *)
(* NO_MEMORY, ALREADY_EXISTS, QUEUE_FULL) are left out.                    *)
(*                                                                         *)
(* A callback may subscribe and publish, synchronously too: then one call  *)
(* is nested in the other.                                                 *)
(*                                                                         *)
(* Clients: sys_event_bus_start and sys_event_bus_stop are called one at a *)
(* time and not from a callback (sys_core_init and sys_core_shutdown), and *)
(* a handle is not used after the stop that freed it.                      *)
(***************************************************************************)
EXTENDS Naturals, FiniteSets, Sequences, SequencesExt

CONSTANTS
    Threads,        \* client threads
    Worker,         \* the thread sys-event
    Subscriptions,  \* memory for subscriptions
    Events,         \* event ids
    NULL,
    MaxSubscribers, \* SYS_EVENT_MAX_SUBSCRIBERS
    QueueCapacity,  \* SYS_EVENT_QUEUE_CAPACITY
    MaxPublishes,   \* bound: the publications in a behaviour
    ExclusiveStart  \* clients use the bus only when a start has returned

Processes == Threads \union {Worker}

ASSUME EventAssumption ==
    /\ IsFiniteSet(Threads)
    /\ Worker \notin Threads
    /\ NULL \notin Subscriptions
    /\ MaxSubscribers \in Nat \ {0}
    /\ QueueCapacity \in Nat \ {0}
    /\ MaxPublishes \in Nat
    /\ ExclusiveStart \in BOOLEAN

VARIABLES
    allocated,      \* the subscriptions that are not free memory
    event_id,       \* event_id[s]
    in_flight,      \* in_flight[s]
    subscribers,    \* g_subscribers[0 .. g_subscriber_count - 1]
    queue,          \* g_event_queue: for each event, the subscriptions to call
    running,        \* g_event_running
    accepting,      \* g_event_accepting
    handles,        \* the subscriptions a client can still unsubscribe
    pc,
    calls,          \* the deliveries of a process, the innermost last: the
                    \* subscription it calls, and those it has yet to call
    target,         \* the subscription a thread is unsubscribing
    publishes       \* publications so far (for MaxPublishes)

subscriptionVars == <<allocated, event_id, subscribers, handles>>
busVars == <<queue, running, accepting, publishes>>
vars == <<subscriptionVars, in_flight, busVars, pc, calls, target>>

At(points) == {p \in Processes : pc[p] \in points}

UnsubscribePCs == {"unsubscribe_sleep", "unsubscribe_woken"}
StopPCs == {"stop_join", "stop_sleep", "stop_woken"}
ClientPCs == {"ready", "callback", "start"} \union UnsubscribePCs \union StopPCs
WorkerPCs == {"none", "loop", "sleep", "woken", "callback"}

(* Definitions named X_Y are X with the plausible bug Y; no action uses     *)
(* them.                                                                   *)
WakeWaiters_UnsubscribesOnly(f, p) ==
    [q \in Processes |-> IF p[q] = "unsubscribe_sleep" THEN "unsubscribe_woken" ELSE p[q]]
WakeWorker_Never(p) == p
HasInFlight_Ignored == FALSE
Retain_Once(S) == in_flight' = [s \in Subscriptions |-> IF s \in S THEN 1 ELSE in_flight[s]]
QueueHasRoom_OffByOne == Len(queue) <= QueueCapacity
MustWaitFor_Running(s) == \E p \in Processes : \E i \in DOMAIN calls[p] : calls[p][i].running = s

(* The subscriptions of the array that an event goes to. *)
Matching(e) == {s \in subscribers : event_id[s] = e}

(* retain_matching_subscribers *)
Retain(S) == in_flight' = [s \in Subscriptions |-> IF s \in S THEN in_flight[s] + 1 ELSE in_flight[s]]

QueueHasRoom == Len(queue) < QueueCapacity

(* The test of the wait loop of sys_event_unsubscribe. *)
MustWaitFor(s) == in_flight[s] > 0

(* has_in_flight_callbacks *)
HasInFlight == \E s \in subscribers : in_flight[s] # 0

(* The worker ends when the queue is drained and the bus is stopping. *)
WorkerMayExit == queue = <<>> /\ ~running

(* pthread_cond_signal(&g_event_cond): the worker is its only waiter. *)
WakeWorker(p) == IF p[Worker] = "sleep" THEN [p EXCEPT ![Worker] = "woken"] ELSE p

(* The broadcast of g_subscription_cond when f[s], in_flight of some       *)
(* subscription, has become 0.                                             *)
WakeWaiters(f, p) ==
    [q \in Processes |-> IF f # 0 THEN p[q]
                         ELSE IF p[q] = "unsubscribe_sleep" THEN "unsubscribe_woken"
                         ELSE IF p[q] = "stop_sleep" THEN "stop_woken"
                         ELSE p[q]]

(* p begins to call the subscriptions S, one of them first, inside the     *)
(* deliveries outer.                                                       *)
Deliver(p, S, outer) == \E s \in S :
    calls' = [calls EXCEPT ![p] = Append(outer, [running |-> s, left |-> S \ {s}])]

(* The client rule of ExclusiveStart. *)
MayUse == ExclusiveStart => At({"start"}) = {}

-----------------------------------------------------------------------------
(* sys_event_subscribe *)
Subscribe(p, s, e) ==
    /\ pc[p] \in {"ready", "callback"} /\ MayUse
    /\ s \notin allocated
    /\ accepting /\ Cardinality(subscribers) < MaxSubscribers
    /\ allocated' = allocated \union {s}
    /\ event_id' = [event_id EXCEPT ![s] = e]
    /\ in_flight' = [in_flight EXCEPT ![s] = 0]
    /\ subscribers' = subscribers \union {s}
    /\ handles' = handles \union {s}
    /\ UNCHANGED <<busVars, pc, calls, target>>

(* The wait loop of sys_event_unsubscribe, and what follows it. *)
AwaitCallbacks(t, s) ==
    /\ IF MustWaitFor(s)
         THEN /\ pc' = [pc EXCEPT ![t] = "unsubscribe_sleep"]
              /\ target' = [target EXCEPT ![t] = s]
              /\ UNCHANGED allocated
         ELSE /\ pc' = [pc EXCEPT ![t] = "ready"]
              /\ target' = [target EXCEPT ![t] = NULL]
              /\ allocated' = allocated \ {s}
    /\ UNCHANGED <<event_id, in_flight, busVars, calls>>

Unsubscribe(t, s) ==
    /\ pc[t] = "ready" /\ MayUse
    /\ s \in handles
    /\ s \in subscribers
    /\ subscribers' = subscribers \ {s}
    /\ handles' = handles \ {s}
    /\ AwaitCallbacks(t, s)

UnsubscribeResume(t) ==
    /\ pc[t] = "unsubscribe_woken"
    /\ AwaitCallbacks(t, target[t])
    /\ UNCHANGED <<subscribers, handles>>

PublishSync(p, e) ==
    /\ pc[p] \in {"ready", "callback"} /\ MayUse /\ publishes < MaxPublishes
    /\ accepting
    /\ Matching(e) # {}
    /\ Retain(Matching(e))
    /\ Deliver(p, Matching(e), calls[p])
    /\ pc' = [pc EXCEPT ![p] = "callback"]
    /\ publishes' = publishes + 1
    /\ UNCHANGED <<subscriptionVars, queue, running, accepting, target>>

PublishAsync(p, e) ==
    /\ pc[p] \in {"ready", "callback"} /\ MayUse /\ publishes < MaxPublishes
    /\ accepting
    /\ QueueHasRoom
    /\ Matching(e) # {}
    /\ Retain(Matching(e))
    /\ queue' = Append(queue, Matching(e))
    /\ pc' = WakeWorker(pc)
    /\ publishes' = publishes + 1
    /\ UNCHANGED <<subscriptionVars, running, accepting, calls, target>>

(* A callback returns, finish_callback, and the next callback of the same  *)
(* delivery is called, if there is one.                                    *)
FinishCallback(p) ==
    LET s == Last(calls[p]).running
        left == Last(calls[p]).left
        outer == Front(calls[p])
        after == IF left # {} \/ outer # <<>> THEN "callback"
                 ELSE IF p = Worker THEN "loop" ELSE "ready"
    IN  /\ pc[p] = "callback"
        /\ in_flight' = [in_flight EXCEPT ![s] = IF @ > 0 THEN @ - 1 ELSE @]
        /\ pc' = WakeWaiters(in_flight'[s], [pc EXCEPT ![p] = after])
        /\ IF left # {} THEN Deliver(p, left, outer) ELSE calls' = [calls EXCEPT ![p] = outer]
        /\ UNCHANGED <<subscriptionVars, busVars, target>>

(* event_worker between two events. *)
WorkerTake ==
    /\ pc[Worker] \in {"loop", "woken"}
    /\ queue # <<>> /\ ~WorkerMayExit
    /\ queue' = Tail(queue)
    /\ Deliver(Worker, Head(queue), <<>>)
    /\ pc' = [pc EXCEPT ![Worker] = "callback"]
    /\ UNCHANGED <<subscriptionVars, in_flight, running, accepting, publishes, target>>

WorkerBlock ==
    /\ pc[Worker] \in {"loop", "woken"}
    /\ queue = <<>> /\ running
    /\ pc' = [pc EXCEPT ![Worker] = "sleep"]
    /\ UNCHANGED <<subscriptionVars, in_flight, busVars, calls, target>>

WorkerExit ==
    /\ pc[Worker] \in {"loop", "woken"}
    /\ WorkerMayExit
    /\ pc' = [pc EXCEPT ![Worker] = "none"]
    /\ UNCHANGED <<subscriptionVars, in_flight, busVars, calls, target>>

-----------------------------------------------------------------------------
(* sys_event_bus_start up to the creation of the worker.                   *)
Start(t) ==
    /\ pc[t] = "ready" /\ At(StopPCs \union {"start"}) = {}
    /\ ~running
    /\ queue' = <<>>
    /\ running' = TRUE /\ accepting' = TRUE
    /\ pc' = [pc EXCEPT ![t] = "start"]
    /\ UNCHANGED <<subscriptionVars, in_flight, publishes, calls, target>>

(* sys_thread_create succeeds.                                             *)
StartWorker(t) ==
    /\ pc[t] = "start"
    /\ pc' = [pc EXCEPT ![t] = "ready", ![Worker] = "loop"]
    /\ UNCHANGED <<subscriptionVars, in_flight, busVars, calls, target>>

(* sys_thread_create fails.                                                *)
StartFails(t) ==
    /\ pc[t] = "start"
    /\ running' = FALSE /\ accepting' = FALSE
    /\ pc' = [pc EXCEPT ![t] = "ready"]
    /\ UNCHANGED <<subscriptionVars, in_flight, queue, publishes, calls, target>>

Stop(t) ==
    /\ pc[t] = "ready" /\ At(StopPCs \union {"start"}) = {}
    /\ running
    /\ running' = FALSE /\ accepting' = FALSE
    /\ pc' = WakeWorker([pc EXCEPT ![t] = "stop_join"])
    /\ UNCHANGED <<subscriptionVars, in_flight, queue, publishes, calls, target>>

(* After the join: wait for callbacks in flight, then free the array.  The *)
(* clients forget the handles of what it held.                             *)
FinishStop(t) ==
    /\ \/ pc[t] = "stop_join" /\ pc[Worker] = "none"
       \/ pc[t] = "stop_woken"
    /\ IF HasInFlight
         THEN /\ pc' = [pc EXCEPT ![t] = "stop_sleep"]
              /\ UNCHANGED <<allocated, subscribers, handles>>
         ELSE /\ pc' = [pc EXCEPT ![t] = "ready"]
              /\ allocated' = allocated \ subscribers
              /\ handles' = handles \ subscribers
              /\ subscribers' = {}
    /\ UNCHANGED <<event_id, in_flight, busVars, calls, target>>

WakeSpuriously(p) ==
    /\ pc[p] \in {"sleep", "unsubscribe_sleep", "stop_sleep"}
    /\ pc' = [pc EXCEPT ![p] = CASE @ = "sleep" -> "woken"
                                 [] @ = "unsubscribe_sleep" -> "unsubscribe_woken"
                                 [] @ = "stop_sleep" -> "stop_woken"]
    /\ UNCHANGED <<subscriptionVars, in_flight, busVars, calls, target>>

-----------------------------------------------------------------------------
Init ==
    /\ allocated = {} /\ subscribers = {} /\ handles = {}
    /\ event_id \in [Subscriptions -> Events]
    /\ in_flight = [s \in Subscriptions |-> 0]
    /\ queue = <<>> /\ running = FALSE /\ accepting = FALSE
    /\ publishes = 0
    /\ pc = [p \in Processes |-> IF p = Worker THEN "none" ELSE "ready"]
    /\ calls = [p \in Processes |-> <<>>]
    /\ target = [t \in Threads |-> NULL]

ClientCall(t) ==
    \/ \E s \in Subscriptions : Unsubscribe(t, s)
    \/ Start(t)
    \/ Stop(t)

Use(p) == \E e \in Events :
    \/ \E s \in Subscriptions : Subscribe(p, s, e)
    \/ PublishSync(p, e)
    \/ PublishAsync(p, e)

ClientStep(t) ==
    \/ UnsubscribeResume(t)
    \/ FinishCallback(t)
    \/ StartWorker(t)
    \/ StartFails(t)
    \/ FinishStop(t)

WorkerStep == WorkerTake \/ WorkerBlock \/ WorkerExit \/ FinishCallback(Worker)

Next ==
    \/ \E t \in Threads : ClientCall(t) \/ ClientStep(t)
    \/ WorkerStep
    \/ \E p \in Processes : Use(p) \/ WakeSpuriously(p)

Spec == Init /\ [][Next]_vars

(* Threads inside a call and the worker run on; callbacks return.          *)
LiveSpec ==
    /\ Spec
    /\ WF_vars(WorkerStep)
    /\ \A t \in Threads : WF_vars(ClientStep(t))

-----------------------------------------------------------------------------
TypeOK ==
    /\ allocated \subseteq Subscriptions
    /\ event_id \in [Subscriptions -> Events]
    /\ in_flight \in [Subscriptions -> Nat]
    /\ subscribers \subseteq Subscriptions
    /\ Cardinality(subscribers) <= MaxSubscribers
    /\ queue \in Seq(SUBSET Subscriptions) /\ Len(queue) <= QueueCapacity
    /\ running \in BOOLEAN /\ accepting \in BOOLEAN
    /\ handles \subseteq Subscriptions
    /\ pc \in [Processes -> ClientPCs \union WorkerPCs]
    /\ \A t \in Threads : pc[t] \in ClientPCs
    /\ pc[Worker] \in WorkerPCs
    /\ calls \in [Processes -> Seq([running : Subscriptions, left : SUBSET Subscriptions])]
    /\ target \in [Threads -> Subscriptions \union {NULL}]
    /\ publishes \in 0..MaxPublishes

(* The subscriptions of the callbacks that p runs or is about to run, and  *)
(* the deliveries of p that hold s.                                        *)
Callees(call) == {call.running} \union call.left
DeliveriesOf(s, p) == {i \in DOMAIN calls[p] : s \in Callees(calls[p][i])}

(* Where s is to be called: the places of the queue, and the deliveries.   *)
Queued(s) == {i \in DOMAIN queue : s \in queue[i]}
InDelivery(s) == UNION {{p} \X DeliveriesOf(s, p) : p \in Processes}

(* in_flight counts the callbacks of a subscription that are running, about *)
(* to run in some delivery, or queued: none is counted twice or forgotten. *)
InFlightExact == \A s \in allocated :
    in_flight[s] = Cardinality(Queued(s)) + Cardinality(InDelivery(s))

(* Whatever is queued, called, in the array or waited for is not free      *)
(* memory: in particular no callback runs after its unsubscribe returned,  *)
(* and an unsubscribe that races bus_stop frees its subscription once.     *)
NoUseAfterFree ==
    /\ \A i \in DOMAIN queue : queue[i] \subseteq allocated
    /\ \A p \in Processes : \A i \in DOMAIN calls[p] : Callees(calls[p][i]) \subseteq allocated
    /\ subscribers \subseteq allocated
    /\ \A t \in Threads : target[t] # NULL => target[t] \in allocated

(* The broadcasts of finish_callback reach the unsubscribe and the stop    *)
(* that have nothing left to wait for (a stop may wait a little longer,    *)
(* for a subscription that an unsubscribe has taken out of the array), and *)
(* the worker never sleeps on a queued event or through a stop.            *)
NoLostWakeup ==
    /\ \A t \in At({"unsubscribe_sleep"}) : in_flight[target[t]] > 0
    /\ At({"stop_sleep"}) # {} => \E s \in allocated : in_flight[s] > 0
    /\ pc[Worker] = "sleep" => queue = <<>> /\ running

(* The bus is stopped: the last sys_event_bus_stop has returned, or the    *)
(* last sys_event_bus_start has failed.                                    *)
Stopped == ~running /\ At(StopPCs) = {}

(* docs/architecture.md, section 5: stopping the bus waits for synchronous *)
(* and asynchronous callbacks in flight.  A stopped bus runs no callback.  *)
StopAwaitsCallbacks == Stopped => \A p \in Processes : calls[p] = <<>>

(* The part of it that holds: what still runs when the bus is stopped are  *)
(* callbacks of a subscription that an unsubscribe has taken out of the    *)
(* array, where sys_event_bus_stop does not see it, and still waits for.   *)
StopAwaitsOthers ==
    Stopped => \A p \in Processes : \A i \in DOMAIN calls[p] :
                   Callees(calls[p][i]) \subseteq {target[t] : t \in At(UnsubscribePCs)}

(* What was accepted is delivered before the bus stands still: the queue   *)
(* that the next sys_event_bus_start resets is empty, so that no event is  *)
(* dropped and no in_flight stays behind (docs/build.md, section 7: a      *)
(* queue may not drop uncounted), and no worker is left from the run       *)
(* before.                                                                 *)
StoppedIsDrained == Stopped => queue = <<>> /\ pc[Worker] = "none"

(* A stopped bus holds no event and no worker, and runs no callback but    *)
(* those that an unsubscribe still waits for.                              *)
StoppedIsQuiet == StopAwaitsOthers /\ StoppedIsDrained

(* Unsubscribing and stopping return, however many events are queued for   *)
(* the subscription, as long as each callback returns; and an accepted     *)
(* asynchronous event is taken by the worker, also when the bus stops in   *)
(* the meantime.                                                           *)
WaitsReturn ==
    /\ \A t \in Threads :
         /\ pc[t] \in UnsubscribePCs ~> pc[t] = "ready"
         /\ pc[t] \in StopPCs ~> pc[t] = "ready"
    /\ queue # <<>> ~> queue = <<>>
=============================================================================
