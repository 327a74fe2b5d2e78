------------------------------ MODULE SysChannel ------------------------------
(***************************************************************************)
(* The bounded multi-producer multi-consumer channel of core/sys_channel.c *)
(* on top of the buffer pool (SysBufferPool): a ring of buffer references, *)
(* the condition variables not_empty and not_full, close, the two full     *)
(* policies, the statistics, and the channel's own atomic reference count. *)
(*                                                                         *)
(* An action is one critical section of channel->mutex or of pool->mutex,  *)
(* or one atomic operation on the channel's reference count.  A call of    *)
(* sys_channel_send takes several of them; between them the thread stands  *)
(* at one of these points:                                                 *)
(*                                                                         *)
(*    send            buffer retained, channel->mutex not yet taken        *)
(*    send_sleep      blocked on not_full                                  *)
(*    send_woken      woken, mutex not yet held                            *)
(*    send_timedout   deadline passed while blocked, mutex not yet held    *)
(*    undo            failed: about to release the buffer it retained      *)
(*    drop            about to release the message it displaced            *)
(*                                                                         *)
(* sys_channel_receive has recv_sleep, recv_woken and recv_timedout, and   *)
(* the last sys_channel_release stands at "drain" while it empties the     *)
(* queue.                                                                  *)
(*                                                                         *)
(* The counters full_count, timeout_count and high_watermark are left out. *)
(*                                                                         *)
(* Clients: a thread uses the channel only while it holds a reference to   *)
(* it (channel_users), sends a buffer it holds, and receives only when it  *)
(* has released the buffer it received before (received[t]).               *)
(***************************************************************************)
EXTENDS SysBufferPool

CONSTANTS
    Configs,    \* the configurations considered: capacity and full_policy
    UINT_MAX,   \* the largest value of the channel's own reference count
    MaxCalls    \* bound: the calls of send and receive in a behaviour

ASSUME ChannelAssumption ==
    /\ Configs \subseteq [capacity : Nat \ {0}, full_policy : {"fail", "drop_oldest"}]
    /\ UINT_MAX \in Nat \ {0}
    /\ MaxCalls \in Nat

VARIABLES
    config,                         \* set by sys_channel_create_with_config
    queue, head, count, closed,     \* the ring, under channel->mutex
    stats,                          \* channel->stats: sent, received, dropped
    channel_users,                  \* threads that hold a channel reference
    channel_reference_count,        \* the atomic reference_count
    channel_freed,
    drained,        \* the index i of the loop that drains the queue
    sending,        \* the reference a thread's send has taken, or NULL
    dropped,        \* the local variable `dropped` of a thread's send
    received,       \* the buffer a thread received and still holds, or NULL
    calls           \* how many sends and receives have begun (for MaxCalls)

ringVars == <<config, queue, head, count, closed, stats>>
lifeVars == <<channel_users, channel_reference_count, channel_freed, drained>>
localVars == <<sending, dropped, received, calls>>
channelVars == <<ringVars, lifeVars, localVars>>
vars == <<poolVars, channelVars>>

Capacity == config.capacity
Policy == config.full_policy
Slots == 0..(Capacity - 1)

SendPCs == {"send", "send_sleep", "send_woken", "send_timedout", "undo", "drop"}
ReceivePCs == {"recv_sleep", "recv_woken", "recv_timedout"}
ChannelPCs == SendPCs \union ReceivePCs \union {"drain"}

(* pthread_cond_signal: a thread of p blocked at `from`, if there is one,  *)
(* moves to `to`.                                                          *)
Signal(p, from, to) ==
    LET blocked == {t \in Threads : p[t] = from}
    IN  IF blocked = {} THEN {p} ELSE {[p EXCEPT ![t] = to] : t \in blocked}

(* Definitions named X_Y are X with the plausible bug Y; no action uses     *)
(* them.                                                                   *)
SignalNotEmpty_FirstOnly(p) == IF count = 0 THEN Signal(p, "recv_sleep", "recv_woken") ELSE {p}
SentStats_DropUncounted(s, displace) == [s EXCEPT !.sent = @ + 1]

(* The condition variables of the channel. *)
SignalNotEmpty(p) == Signal(p, "recv_sleep", "recv_woken")
SignalNotFull(p) == Signal(p, "send_sleep", "send_woken")
WakeCallers(p) == Broadcast(Broadcast(p, "recv_sleep", "recv_woken"), "send_sleep", "send_woken")

(* The ring: the slot after i, the slot behind a window of `depth` slots   *)
(* from `first`, the ring without its head, and whether a send that finds  *)
(* the ring as it is displaces the oldest message.                         *)
NextSlot(i) == (i + 1) % Capacity
TailSlot(first, depth) == (first + depth) % Capacity
HeadCleared == [queue EXCEPT ![head] = NULL]
Displaces == count = Capacity /\ Policy = "drop_oldest"

(* The statistics of a send. *)
SentStats(s, displace) ==
    [s EXCEPT !.sent = @ + 1, !.dropped = IF displace THEN @ + 1 ELSE @]

IsLastChannelReference == channel_reference_count = 1

(* The program counters and timeouts when t returns to its caller. *)
Returned(t) == [pc EXCEPT ![t] = "ready"]
NoTimeout(t) == [timeout EXCEPT ![t] = "zero"]

-----------------------------------------------------------------------------
(* sys_channel_send *)

(* The checks before channel->mutex: the buffer is retained for the queue. *)
Send(t, b, timeout_ms) ==
    /\ pc[t] = "ready" /\ t \in channel_users /\ calls < MaxCalls
    /\ b \in {acquired[t], received[t]} \ {NULL}
    /\ BufferRetain(b)
    /\ sending' = [sending EXCEPT ![t] = b]
    /\ pc' = [pc EXCEPT ![t] = "send"]
    /\ timeout' = [timeout EXCEPT ![t] = timeout_ms]
    /\ calls' = calls + 1
    /\ UNCHANGED <<pool_freed, acquired, dropped, received, ringVars, lifeVars>>

(* The tail of the critical section: sending[t] enters the ring, in the    *)
(* place of the oldest message if that one is displaced.  The reference    *)
(* passes from the thread to the ring.                                     *)
Enqueue(t, displace) ==
    LET first == IF displace THEN NextSlot(head) ELSE head
        depth == IF displace THEN count - 1 ELSE count
        ring == IF displace THEN HeadCleared ELSE queue
    IN  /\ queue' = [ring EXCEPT ![TailSlot(first, depth)] = sending[t]]
        /\ head' = first
        /\ count' = depth + 1
        /\ stats' = SentStats(stats, displace)
        /\ sending' = [sending EXCEPT ![t] = NULL]
        /\ dropped' = [dropped EXCEPT ![t] = IF displace THEN queue[head] ELSE NULL]
        /\ pc' \in SignalNotEmpty([pc EXCEPT ![t] = IF displace THEN "drop" ELSE "ready"])
        /\ timeout' = NoTimeout(t)
        /\ UNCHANGED <<config, closed, received, calls>>

(* The critical section ends without a message in the ring. *)
SendAside(t, point) ==
    /\ pc' = [pc EXCEPT ![t] = point]
    /\ UNCHANGED <<ringVars, sending, dropped, received, calls, timeout>>

(* channel->mutex is taken: the displaced message, and the first test of   *)
(* the wait loop.                                                          *)
SendLock(t) ==
    LET full == count = Capacity
    IN  /\ pc[t] = "send"
        /\ \/ closed /\ SendAside(t, "undo")
           \/ ~closed /\ (full => Displaces) /\ Enqueue(t, Displaces)
           \/ /\ ~closed /\ full /\ ~Displaces
              /\ IF timeout[t] = "zero"
                   THEN SendAside(t, "undo")
                   ELSE SendAside(t, Blocked(t, "send_sleep", "send_timedout"))
        /\ UNCHANGED <<reference_count, buffers_in_use, pool_freed, acquired, lifeVars>>

SendResume_WhenClosed(t) ==
    /\ pc[t] = "send_woken"
    /\ \/ count < Capacity /\ Enqueue(t, FALSE)
       \/ count = Capacity /\ closed /\ SendAside(t, "undo")
       \/ count = Capacity /\ ~closed /\ SendAside(t, "send_sleep")
    /\ UNCHANGED <<reference_count, buffers_in_use, pool_freed, acquired, lifeVars>>

(* The test of the wait loop after a wakeup. *)
SendResume(t) ==
    /\ pc[t] = "send_woken"
    /\ \/ closed /\ SendAside(t, "undo")
       \/ ~closed /\ count < Capacity /\ Enqueue(t, FALSE)
       \/ /\ ~closed /\ count = Capacity
          /\ SendAside(t, Blocked(t, "send_sleep", "send_timedout"))
    /\ UNCHANGED <<reference_count, buffers_in_use, pool_freed, acquired, lifeVars>>

SendTimeout_Leaks(t) ==
    /\ pc[t] = "send_timedout"
    /\ pc' = Returned(t)
    /\ sending' = [sending EXCEPT ![t] = NULL]
    /\ UNCHANGED <<reference_count, buffers_in_use, pool_freed, acquired, timeout, ringVars,
                   lifeVars, dropped, received, calls>>

(* ETIMEDOUT: the send fails even if there is room, or a close, by now. *)
SendTimeout(t) ==
    /\ pc[t] = "send_timedout"
    /\ SendAside(t, "undo")
    /\ UNCHANGED <<reference_count, buffers_in_use, pool_freed, acquired, lifeVars>>

(* The failed send gives its reference back, then a displaced one. *)
SendUndo(t) ==
    /\ pc[t] = "undo"
    /\ BufferRelease(sending[t],
                     [pc EXCEPT ![t] = IF dropped[t] = NULL THEN "ready" ELSE "drop"])
    /\ sending' = [sending EXCEPT ![t] = NULL]
    /\ timeout' = NoTimeout(t)
    /\ UNCHANGED <<pool_freed, acquired, dropped, received, calls, ringVars, lifeVars>>

(* The reference of the displaced message is given back. *)
SendReleaseDropped(t) ==
    /\ pc[t] = "drop"
    /\ BufferRelease(dropped[t], Returned(t))
    /\ dropped' = [dropped EXCEPT ![t] = NULL]
    /\ UNCHANGED <<pool_freed, acquired, timeout, sending, received, calls, ringVars, lifeVars>>

-----------------------------------------------------------------------------
(* sys_channel_receive *)

(* The head of the ring and its reference pass to t. *)
Dequeue(t) ==
    /\ received' = [received EXCEPT ![t] = queue[head]]
    /\ queue' = HeadCleared
    /\ head' = NextSlot(head)
    /\ count' = count - 1
    /\ stats' = [stats EXCEPT !.received = @ + 1]
    /\ pc' \in SignalNotFull(Returned(t))
    /\ timeout' = NoTimeout(t)

(* No message: t returns or blocks. *)
ReceiveNothing(t, point) ==
    /\ pc' = [pc EXCEPT ![t] = point]
    /\ UNCHANGED <<queue, head, count, stats, received>>

Receive(t, timeout_ms) ==
    /\ pc[t] = "ready" /\ t \in channel_users /\ calls < MaxCalls
    /\ received[t] = NULL
    /\ calls' = calls + 1
    /\ \/ count # 0 /\ Dequeue(t)
       \/ /\ count = 0 /\ (closed \/ timeout_ms = "zero")
          /\ ReceiveNothing(t, "ready") /\ UNCHANGED timeout
       \/ /\ count = 0 /\ ~closed /\ timeout_ms # "zero"
          /\ ReceiveNothing(t, "recv_sleep")
          /\ timeout' = [timeout EXCEPT ![t] = timeout_ms]
    /\ UNCHANGED <<reference_count, buffers_in_use, pool_freed, acquired,
                   config, closed, sending, dropped, lifeVars>>

ReceiveResume_NewDeadline(t) ==
    /\ pc[t] = "recv_woken"
    /\ \/ count # 0 /\ Dequeue(t)
       \/ count = 0 /\ closed /\ ReceiveNothing(t, "ready") /\ timeout' = NoTimeout(t)
       \/ /\ count = 0 /\ ~closed
          /\ ReceiveNothing(t, "recv_sleep")
          /\ timeout' = [timeout EXCEPT ![t] = IF @ = "expired" THEN "timed" ELSE @]
    /\ UNCHANGED <<reference_count, buffers_in_use, pool_freed, acquired,
                   config, closed, sending, dropped, calls, lifeVars>>

(* The test of the wait loop after a wakeup. *)
ReceiveResume(t) ==
    /\ pc[t] = "recv_woken"
    /\ \/ count # 0 /\ Dequeue(t)
       \/ count = 0 /\ closed /\ ReceiveNothing(t, "ready") /\ timeout' = NoTimeout(t)
       \/ /\ count = 0 /\ ~closed
          /\ ReceiveNothing(t, Blocked(t, "recv_sleep", "recv_timedout"))
          /\ UNCHANGED timeout
    /\ UNCHANGED <<reference_count, buffers_in_use, pool_freed, acquired,
                   config, closed, sending, dropped, calls, lifeVars>>

(* ETIMEDOUT: the receive fails even if there is a message by now. *)
ReceiveTimeout(t) ==
    /\ pc[t] = "recv_timedout"
    /\ ReceiveNothing(t, "ready")
    /\ timeout' = NoTimeout(t)
    /\ UNCHANGED <<reference_count, buffers_in_use, pool_freed, acquired,
                   config, closed, sending, dropped, calls, lifeVars>>

ReleaseReceived(t) ==
    /\ pc[t] = "ready"
    /\ received[t] # NULL
    /\ BufferRelease(received[t], pc)
    /\ received' = [received EXCEPT ![t] = NULL]
    /\ UNCHANGED <<pool_freed, acquired, timeout, sending, dropped, calls, ringVars, lifeVars>>

-----------------------------------------------------------------------------
(* sys_channel_close, sys_channel_retain, sys_channel_release *)

Close(t) ==
    /\ pc[t] = "ready" /\ t \in channel_users
    /\ closed' = TRUE
    /\ pc' = WakeCallers(pc)
    /\ UNCHANGED <<reference_count, buffers_in_use, pool_freed, acquired, timeout,
                   config, queue, head, count, stats, lifeVars, localVars>>

(* t retains the channel and hands the reference to u.                     *)
RetainChannel(t, u) ==
    /\ pc[t] = "ready" /\ t \in channel_users /\ u \notin channel_users
    /\ channel_reference_count # 0 /\ channel_reference_count # UINT_MAX
    /\ channel_reference_count' = channel_reference_count + 1
    /\ channel_users' = channel_users \union {u}
    /\ UNCHANGED <<poolVars, ringVars, channel_freed, drained, localVars>>

(* The atomic decrement; whoever takes the last reference drains the queue *)
(* without channel->mutex.                                                 *)
ReleaseChannel(t) ==
    /\ pc[t] = "ready" /\ t \in channel_users
    /\ channel_users' = channel_users \ {t}
    /\ channel_reference_count' = channel_reference_count - 1
    /\ pc' = [pc EXCEPT ![t] = IF IsLastChannelReference THEN "drain" ELSE @]
    /\ UNCHANGED <<reference_count, buffers_in_use, pool_freed, acquired, timeout,
                   ringVars, channel_freed, drained, localVars>>

(* The slot the loop of the last release is at. *)
DrainIndex == (head + drained) % Capacity

Drain(t) ==
    /\ pc[t] = "drain" /\ drained < count
    /\ BufferRelease(queue[DrainIndex], pc)
    /\ drained' = drained + 1
    /\ UNCHANGED <<pool_freed, acquired, timeout, ringVars,
                   channel_users, channel_reference_count, channel_freed, localVars>>

FreeChannel(t) ==
    /\ pc[t] = "drain" /\ drained = count
    /\ count' = 0
    /\ drained' = 0
    /\ channel_freed' = TRUE
    /\ pc' = Returned(t)
    /\ UNCHANGED <<reference_count, buffers_in_use, pool_freed, acquired, timeout,
                   config, queue, head, closed, stats, channel_users, channel_reference_count,
                   localVars>>

-----------------------------------------------------------------------------
(* One thread, inside sys_channel_create_with_config, holds the channel.   *)
Init ==
    /\ PoolInit
    /\ config \in Configs
    /\ queue = [i \in Slots |-> NULL]
    /\ head = 0 /\ count = 0 /\ closed = FALSE
    /\ stats = [sent |-> 0, received |-> 0, dropped |-> 0]
    /\ \E t \in Threads : channel_users = {t}
    /\ channel_reference_count = 1
    /\ channel_freed = FALSE
    /\ drained = 0
    /\ sending = [t \in Threads |-> NULL]
    /\ dropped = [t \in Threads |-> NULL]
    /\ received = [t \in Threads |-> NULL]
    /\ calls = 0

(* A client thread begins a call, or makes one that never waits. *)
PoolCall(t) ==
    /\ \/ \E b \in Buffers : AcquireBuffer(t, b)
       \/ \E u \in Threads : ShareBuffer(t, u)
       \/ ReleaseAcquired(t)
       \/ \E timeout_ms \in Timeouts : WaitIdle(t, timeout_ms)
       \/ DestroyPool(t)
    /\ UNCHANGED channelVars

ChannelCall(t) ==
    \/ \E b \in Buffers, timeout_ms \in Timeouts : Send(t, b, timeout_ms)
    \/ \E timeout_ms \in Timeouts : Receive(t, timeout_ms)
    \/ ReleaseReceived(t)
    \/ Close(t)
    \/ \E u \in Threads : RetainChannel(t, u)
    \/ ReleaseChannel(t)

(* What happens to a thread inside a call without anybody's help. *)
ChannelStep(t) ==
    \/ SendLock(t)
    \/ SendResume(t)
    \/ SendTimeout(t)
    \/ SendUndo(t)
    \/ SendReleaseDropped(t)
    \/ ReceiveResume(t)
    \/ ReceiveTimeout(t)
    \/ Drain(t)
    \/ FreeChannel(t)

WaitStep(t) ==
    /\ \/ PoolStep(t)
       \/ TimeOut(t, "send_sleep", "send_timedout")
       \/ TimeOut(t, "recv_sleep", "recv_timedout")
    /\ UNCHANGED channelVars

Environment(t) ==
    /\ \/ Expire(t)
       \/ WakeSpuriously(t, "wait_sleep", "wait_woken")
       \/ WakeSpuriously(t, "send_sleep", "send_woken")
       \/ WakeSpuriously(t, "recv_sleep", "recv_woken")
    /\ UNCHANGED channelVars

Next == \E t \in Threads :
    \/ PoolCall(t)
    \/ ChannelCall(t)
    \/ ChannelStep(t)
    \/ WaitStep(t)
    \/ Environment(t)

Spec == Init /\ [][Next]_vars

(* A thread inside a call runs on, and time passes.  Nothing is assumed of *)
(* a thread between two calls.                                             *)
Fairness == \A t \in Threads :
    /\ WF_vars(ChannelStep(t))
    /\ WF_vars(WaitStep(t))
    /\ WF_vars(Expire(t) /\ UNCHANGED channelVars)

LiveSpec == Spec /\ Fairness

-----------------------------------------------------------------------------
TypeOK ==
    /\ config \in Configs
    /\ reference_count \in [Buffers -> 0..SIZE_MAX]
    /\ buffers_in_use \in 0..Cardinality(Buffers)
    /\ pool_freed \in BOOLEAN
    /\ acquired \in [Threads -> Buffers \union {NULL}]
    /\ pc \in [Threads -> PoolPCs \union ChannelPCs]
    /\ timeout \in [Threads -> TimeoutKinds \union {"expired"}]
    /\ queue \in [Slots -> Buffers \union {NULL}]
    /\ head \in Slots
    /\ count \in 0..Capacity
    /\ closed \in BOOLEAN
    /\ stats \in [sent : Nat, received : Nat, dropped : Nat]
    /\ channel_users \subseteq Threads
    /\ channel_reference_count \in 0..UINT_MAX
    /\ channel_freed \in BOOLEAN
    /\ drained \in 0..Capacity
    /\ sending \in [Threads -> Buffers \union {NULL}]
    /\ dropped \in [Threads -> Buffers \union {NULL}]
    /\ received \in [Threads -> Buffers \union {NULL}]
    /\ calls \in 0..MaxCalls

(* The slots of the ring that hold a message, and a message's place in it. *)
Window == {(head + i) % Capacity : i \in drained..(count - 1)}

(* No message vanishes uncounted: what was sent was received, displaced    *)
(* with a count in dropped_count, or is still queued: in exactly the slots *)
(* of the window (sys_channel_release leaves the slots it has drained).    *)
MessagesConserved ==
    ~channel_freed =>
        /\ stats.sent = stats.received + stats.dropped + count
        /\ drained = 0 => \A i \in Slots : (queue[i] # NULL) <=> (i \in Window)

(* How many threads have b in `place`, and how many slots of the ring do.  *)
Holders(place, b) == Cardinality({t \in Threads : place[t] = b})
Queued(b) == Cardinality({i \in Window : queue[i] = b})

(* Across the send's retain, the ring, the displaced message, its receiver *)
(* and the drain of the last release, a buffer has as many references as   *)
(* there are places that hold one: none is lost and none given back twice. *)
(* And the blocks with a reference are the pool's blocks in use.           *)
ReferenceCountsExact ==
    /\ \A b \in Buffers :
         reference_count[b] = Holders(acquired, b) + Holders(received, b)
                            + Holders(sending, b) + Holders(dropped, b) + Queued(b)
    /\ BuffersInUseExact

(* A pool that sys_buffer_pool_destroy agreed to free is referenced from   *)
(* nowhere: no thread, no send in progress and no slot of the ring.        *)
PoolOutlivesReferences ==
    pool_freed => /\ \A t \in Threads : acquired[t] = NULL /\ received[t] = NULL
                                       /\ sending[t] = NULL /\ dropped[t] = NULL
                  /\ \A i \in Window : queue[i] = NULL

(* A receiver is left blocked on not_empty only while every queued message *)
(* has a woken receiver on its way to it, and a sender on not_full only    *)
(* while every free slot has one: no signal is lost to a thread that times *)
(* out, wakes spuriously or comes second.                                  *)
NoLostMessageWakeup ==
    At("recv_sleep") # {} => ~closed /\ count <= Cardinality(At("recv_woken"))

NoLostRoomWakeup ==
    At("send_sleep") # {} => ~closed /\ Capacity - count <= Cardinality(At("send_woken"))

(* No wakeup of the channel or of the pool under it is lost: no thread is  *)
(* left asleep on a condition that holds.                                  *)
NoLostWakeup == NoLostMessageWakeup /\ NoLostRoomWakeup /\ NoLostIdleWakeup

(* The last release of the channel happens when nobody is inside a call or *)
(* will make one.                                                          *)
ChannelOutlivesCalls ==
    channel_freed \/ At("drain") # {} =>
        /\ channel_users = {}
        /\ Cardinality(At("drain")) <= 1
        /\ \A t \in Threads : pc[t] \notin {"send", "send_sleep", "send_woken", "send_timedout"}
                                        \union ReceivePCs

(* Freed memory, of the channel or of the pool, is never touched.          *)
NoUseAfterFree == ChannelOutlivesCalls /\ PoolOutlivesReferences

(* The messages in the ring, oldest first. *)
Messages == [i \in 1..count |-> queue[(head + i - 1) % Capacity]]

(* The abstract queue that the ring, its indexes and the interleaving of   *)
(* senders, receivers and closers implement.                               *)
Fifo == INSTANCE BoundedFifo WITH
    Clients <- Threads, Messages <- Buffers, fifo <- Messages, taken <- received

ImplementsFifo == Fifo!Spec

(* sys_channel_close makes every send and receive return, even one that    *)
(* waits for ever.                                                         *)
CloseReleasesCallers == \A t \in Threads :
    closed /\ pc[t] \in SendPCs \union ReceivePCs ~> pc[t] = "ready"

(* A call with a finite timeout returns, with or without company.          *)
TimedCallsReturn == \A t \in Threads : timeout[t] = "timed" ~> pc[t] = "ready"

(* The last release of the channel gives back what was still queued and    *)
(* frees it.                                                               *)
LastReleaseFrees == channel_users = {} ~> channel_freed

(* Every call that something is to end ends.                               *)
CallsReturn == CloseReleasesCallers /\ TimedCallsReturn /\ LastReleaseFrees
=============================================================================
