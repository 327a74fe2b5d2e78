--------------------------- MODULE SysChannelProofs ---------------------------
(***************************************************************************)
(* Proofs about SysChannel, for any number of threads, buffers and slots:  *)
(* its shape (Shape: types, what a thread's place says of its locals, the  *)
(* life of the channel, the ring as a window of count slots), on top of it *)
(* the references (Counts), and last what it promises its callers: that no *)
(* wakeup is lost, and that the ring is a first-in first-out queue         *)
(* (BoundedFifo).                                                          *)
(***************************************************************************)
EXTENDS SysChannel, FiniteSetTheorems, SequenceTheorems, TLAPS

USE PoolAssumption, ChannelAssumption

-----------------------------------------------------------------------------
(* The types, but for the bound of buffers_in_use, which needs the count   *)
(* of the blocks.                                                          *)
Types ==
    /\ config \in Configs
    /\ reference_count \in [Buffers -> 0..SIZE_MAX]
    /\ buffers_in_use \in Int
    /\ pool_freed \in BOOLEAN
    /\ acquired \in [Threads -> Buffers \union {NULL}]
    /\ pc \in [Threads -> PoolPCs \union ChannelPCs]
    /\ timeout \in [Threads -> TimeoutKinds \union {"expired"}]
    /\ queue \in [Slots -> Buffers \union {NULL}]
    /\ head \in Slots
    /\ count \in 0..Capacity
    /\ closed \in BOOLEAN
    /\ stats \in [sent : Nat, received : Nat, dropped : Nat]
    /\ channel_users \subseteq Threads
    /\ channel_reference_count \in 0..UINT_MAX
    /\ channel_freed \in BOOLEAN
    /\ drained \in 0..Capacity
    /\ sending \in [Threads -> Buffers \union {NULL}]
    /\ dropped \in [Threads -> Buffers \union {NULL}]
    /\ received \in [Threads -> Buffers \union {NULL}]
    /\ calls \in 0..MaxCalls

(* The places at which a send holds the reference it has taken.            *)
SendingPCs == {"send", "send_sleep", "send_woken", "send_timedout", "undo"}

(* What a thread's place in sys_channel_send and sys_channel_receive says  *)
(* of its local variables.                                                 *)
LocalsOK == \A t \in Threads :
    /\ sending[t] # NULL <=> pc[t] \in SendingPCs
    /\ dropped[t] # NULL <=> pc[t] = "drop"
    /\ pc[t] \in ReceivePCs => received[t] = NULL

(* Who is inside a call has a reference to the channel; the thread that    *)
(* took the last one drains the queue alone, and then the channel is gone. *)
LifeOK ==
    /\ channel_reference_count = Cardinality(channel_users)
    /\ \A t \in Threads : pc[t] \in SendPCs \union ReceivePCs => t \in channel_users
    /\ \A t \in Threads : pc[t] = "drain" => channel_users = {} /\ ~channel_freed
    /\ \A t, u \in Threads : pc[t] = "drain" /\ pc[u] = "drain" => t = u
    /\ channel_freed => channel_users = {}
    /\ drained # 0 => \E t \in Threads : pc[t] = "drain"

(* The window of the ring holds the messages.                              *)
RingOK ==
    /\ drained <= count
    /\ \A i \in Window : queue[i] # NULL
    /\ MessagesConserved

Shape == Types /\ LocalsOK /\ LifeOK /\ RingOK
-----------------------------------------------------------------------------
(* pthread_cond_signal moves at most one thread, from `from` to `to`.      *)
LEMMA SignalEffect ==
    ASSUME NEW p, NEW from, NEW to, NEW q \in Signal(p, from, to)
    PROVE  \/ q = p /\ \A t \in Threads : p[t] # from
           \/ \E t \in Threads : p[t] = from /\ q = [p EXCEPT ![t] = to]
  BY DEF Signal

(* Signals and broadcasts keep the types of the program counters.          *)
LEMMA WakeupTypes ==
    ASSUME NEW p \in [Threads -> PoolPCs \union ChannelPCs]
    PROVE  /\ SignalNotEmpty(p) \subseteq [Threads -> PoolPCs \union ChannelPCs]
           /\ SignalNotFull(p) \subseteq [Threads -> PoolPCs \union ChannelPCs]
           /\ WakeCallers(p) \in [Threads -> PoolPCs \union ChannelPCs]
           /\ WakeIdleWaiters(p) \in [Threads -> PoolPCs \union ChannelPCs]
<1> USE DEF PoolPCs, ChannelPCs, SendPCs, ReceivePCs
<1>1. \A q \in SignalNotEmpty(p) : q \in [Threads -> PoolPCs \union ChannelPCs]
  BY SignalEffect DEF SignalNotEmpty
<1>2. \A q \in SignalNotFull(p) : q \in [Threads -> PoolPCs \union ChannelPCs]
  BY SignalEffect DEF SignalNotFull
<1>3. WakeCallers(p) \in [Threads -> PoolPCs \union ChannelPCs]
  BY DEF WakeCallers, Broadcast
<1>4. WakeIdleWaiters(p) \in [Threads -> PoolPCs \union ChannelPCs]
  BY DEF WakeIdleWaiters, Broadcast
<1> QED
  BY <1>1, <1>2, <1>3, <1>4

(* Slot arithmetic without `%`: an index and a distance of at most one     *)
(* turn.                                                                   *)
LEMMA OneTurn ==
    ASSUME NEW c \in Nat \ {0}, NEW i \in 0..(c - 1), NEW k \in 0..c
    PROVE  (i + k) % c = IF i + k < c THEN i + k ELSE i + k - c
  OBVIOUS

(* How far a slot is from the head of the ring.                            *)
Distance(i) == IF i >= head THEN i - head ELSE i - head + Capacity

(* The configuration of an open channel is a valid one.                    *)
LEMMA CapacityType == Types => Capacity \in Nat \ {0} /\ Policy \in {"fail", "drop_oldest"}
  BY DEF Types, Capacity, Policy

(* The ring's indexes are slots, and what it holds fits.                   *)
LEMMA RingTypes ==
    ASSUME Types
    PROVE  /\ Capacity \in Nat \ {0} /\ head \in 0..(Capacity - 1)
           /\ count \in 0..Capacity /\ drained \in 0..Capacity
<1>1. Capacity \in Nat \ {0}  BY CapacityType
<1>2. head \in 0..(Capacity - 1)  BY DEF Types, Slots
<1>3. count \in 0..Capacity /\ drained \in 0..Capacity  BY DEF Types
<1> QED  BY <1>1, <1>2, <1>3

(* The slots of the window are those at a distance from drained to count.  *)
LEMMA WindowSlots ==
    Types => \A i : i \in Window <=> i \in Slots /\ drained <= Distance(i) /\ Distance(i) < count
<1> SUFFICES ASSUME Types, NEW i
             PROVE  i \in Window <=> i \in Slots /\ drained <= Distance(i) /\ Distance(i) < count
  OBVIOUS
<1> DEFINE slot(k) == IF head + k < Capacity THEN head + k ELSE head + k - Capacity
<1>1. ASSUME NEW k \in drained..(count - 1) PROVE (head + k) % Capacity = slot(k)
  <2>1. head \in 0..(Capacity - 1) /\ k \in 0..Capacity /\ Capacity \in Nat \ {0}
    BY RingTypes
  <2> QED
    BY <2>1, OneTurn
<1>2. i \in Window <=> \E k \in drained..(count - 1) : i = slot(k)
  BY <1>1 DEF Window
<1>3. ASSUME NEW k \in drained..(count - 1), i = slot(k)
      PROVE  i \in Slots /\ Distance(i) = k
  BY <1>3, RingTypes DEF Slots, Distance
<1>4. ASSUME i \in Slots, drained <= Distance(i), Distance(i) < count
      PROVE  Distance(i) \in drained..(count - 1) /\ i = slot(Distance(i))
  BY <1>4, RingTypes DEF Slots, Distance
<1> QED
  BY <1>2, <1>3, <1>4, RingTypes

(* The slots that the send, the receive and the drain of a ring address.   *)
LEMMA RingIndexes ==
    ASSUME Types
    PROVE  /\ \A i \in Slots : NextSlot(i) = IF i + 1 = Capacity THEN 0 ELSE i + 1
           /\ \A i \in Slots : \A k \in 0..Capacity :
                  TailSlot(i, k) = IF i + k < Capacity THEN i + k ELSE i + k - Capacity
           /\ \A i \in Slots : NextSlot(i) \in Slots
           /\ \A i \in Slots : \A k \in 0..Capacity : TailSlot(i, k) \in Slots
<1>1. ASSUME NEW i \in Slots, NEW k \in 0..Capacity
      PROVE  (i + k) % Capacity = IF i + k < Capacity THEN i + k ELSE i + k - Capacity
  <2>1. i \in 0..(Capacity - 1) /\ Capacity \in Nat \ {0}
    BY CapacityType DEF Slots
  <2> QED
    BY <2>1, OneTurn
<1>2. ASSUME NEW i \in Slots
      PROVE  NextSlot(i) = (IF i + 1 = Capacity THEN 0 ELSE i + 1) /\ NextSlot(i) \in Slots
  <2>1. 1 \in 0..Capacity
    BY CapacityType
  <2>2. (i + 1) % Capacity = IF i + 1 < Capacity THEN i + 1 ELSE i + 1 - Capacity
    BY <1>1, <2>1
  <2> QED
    BY <2>2, CapacityType DEF Slots, NextSlot
<1>3. ASSUME NEW i \in Slots, NEW k \in 0..Capacity
      PROVE  /\ TailSlot(i, k) = IF i + k < Capacity THEN i + k ELSE i + k - Capacity
             /\ TailSlot(i, k) \in Slots
  <2>1. TailSlot(i, k) = IF i + k < Capacity THEN i + k ELSE i + k - Capacity
    BY <1>1 DEF TailSlot
  <2> QED
    BY <2>1, CapacityType DEF Slots
<1> QED
  BY <1>2, <1>3

-----------------------------------------------------------------------------
(* The effects that several actions share keep the types.                  *)
LEMMA BufferReleaseTypes ==
    ASSUME Types, NEW b, NEW p \in [Threads -> PoolPCs \union ChannelPCs], BufferRelease(b, p)
    PROVE  /\ reference_count' \in [Buffers -> 0..SIZE_MAX]
           /\ buffers_in_use' \in Int
           /\ pc' \in [Threads -> PoolPCs \union ChannelPCs]
<1>1. reference_count' \in [Buffers -> 0..SIZE_MAX]
  <2>1. \A c \in Buffers : (IF reference_count[c] > 0 THEN reference_count[c] - 1
                                                   ELSE reference_count[c]) \in 0..SIZE_MAX
    BY DEF Types
  <2> QED
    BY <2>1 DEF Types, BufferRelease
<1>2. buffers_in_use' \in Int
  BY DEF Types, BufferRelease
<1>3. pc' \in [Threads -> PoolPCs \union ChannelPCs]
  BY WakeupTypes DEF BufferRelease
<1> QED
  BY <1>1, <1>2, <1>3

(* Enqueueing keeps the types of the ring.                                 *)
LEMMA EnqueueTypes ==
    ASSUME Types, NEW t \in Threads, NEW displace \in BOOLEAN, Enqueue(t, displace),
           displace => count = Capacity, ~displace => count < Capacity,
           UNCHANGED <<reference_count, buffers_in_use, pool_freed, acquired, lifeVars>>
    PROVE  Types'
<1> USE DEF Types, lifeVars, Enqueue
<1>1. Slots' = Slots /\ Capacity' = Capacity /\ Capacity \in Nat \ {0}
  BY CapacityType DEF Slots, Capacity
<1>2. pc' \in [Threads -> PoolPCs \union ChannelPCs]
  <2>1. [pc EXCEPT ![t] = IF displace THEN "drop" ELSE "ready"] \in [Threads -> PoolPCs \union ChannelPCs]
    BY DEF PoolPCs, ChannelPCs, SendPCs
  <2> QED
    BY <2>1, WakeupTypes
<1>3. queue' \in [Slots -> Buffers \union {NULL}] /\ head' \in Slots
  BY RingIndexes DEF HeadCleared
<1>4. count' \in 0..Capacity
  BY <1>1
<1>5. stats' \in [sent : Nat, received : Nat, dropped : Nat]
  <2>1. stats.sent + 1 \in Nat /\ stats.dropped + 1 \in Nat
    OBVIOUS
  <2> QED
    BY <2>1 DEF SentStats
<1>6. /\ sending' \in [Threads -> Buffers \union {NULL}]
      /\ dropped' \in [Threads -> Buffers \union {NULL}]
      /\ timeout' \in [Threads -> TimeoutKinds \union {"expired"}]
  BY DEF NoTimeout, TimeoutKinds
<1> QED
  BY <1>1, <1>2, <1>3, <1>4, <1>5, <1>6

(* A send that leaves the ring alone keeps the types.                           *)
LEMMA SendAsideTypes ==
    ASSUME Types, NEW t \in Threads, NEW point \in ChannelPCs, SendAside(t, point),
           UNCHANGED <<reference_count, buffers_in_use, pool_freed, acquired, lifeVars>>
    PROVE  Types'
<1>1. Slots' = Slots /\ Capacity' = Capacity
  BY DEF SendAside, ringVars, Slots, Capacity
<1> QED
  BY <1>1 DEF Types, SendAside, ringVars, lifeVars

(* Dequeueing keeps the types of the ring.                                 *)
LEMMA DequeueTypes ==
    ASSUME Types, NEW t \in Threads, Dequeue(t), count # 0,
           UNCHANGED <<reference_count, buffers_in_use, pool_freed, acquired, config, closed,
                       sending, dropped, lifeVars>>,
           calls' \in 0..MaxCalls
    PROVE  Types'
<1> USE DEF Types, lifeVars, Dequeue
<1>1. Slots' = Slots /\ Capacity' = Capacity /\ Capacity \in Nat \ {0}
  BY CapacityType DEF Slots, Capacity
<1>2. pc' \in [Threads -> PoolPCs \union ChannelPCs]
  <2>1. Returned(t) \in [Threads -> PoolPCs \union ChannelPCs]
    BY DEF Returned, PoolPCs
  <2> QED
    BY <2>1, WakeupTypes
<1>3. queue' \in [Slots -> Buffers \union {NULL}] /\ head' \in Slots
  BY RingIndexes DEF HeadCleared
<1>4. count' \in 0..Capacity /\ stats' \in [sent : Nat, received : Nat, dropped : Nat]
  BY <1>1
<1>5. /\ received' \in [Threads -> Buffers \union {NULL}]
      /\ timeout' \in [Threads -> TimeoutKinds \union {"expired"}]
  BY DEF NoTimeout, TimeoutKinds
<1> QED
  BY <1>1, <1>2, <1>3, <1>4, <1>5

(* Every step keeps the types.                                             *)
LEMMA NextTypes ==
    ASSUME Types, LocalsOK, LifeOK, RingOK, [Next]_vars
    PROVE  Types'
<1> USE DEF Types, PoolPCs, ChannelPCs, SendPCs, ReceivePCs, Returned, NoTimeout, Blocked,
            BufferRetain, CanRetain
<1>0. /\ Capacity \in Nat \ {0}
      /\ \A i \in Slots : NextSlot(i) \in Slots
      /\ \A i \in Slots : \A k \in 0..Capacity : TailSlot(i, k) \in Slots
  BY CapacityType, RingIndexes
<1>1. config' = config => Slots' = Slots /\ Capacity' = Capacity
  BY DEF Slots, Capacity
<1>2. CASE UNCHANGED vars
  BY <1>1, <1>2 DEF vars, poolVars, channelVars, ringVars, lifeVars, localVars
<1>3. ASSUME NEW t \in Threads, PoolCall(t) PROVE Types'
  <2> USE DEF channelVars, ringVars, lifeVars, localVars
  <2>1. ASSUME NEW b \in Buffers, AcquireBuffer(t, b), UNCHANGED channelVars PROVE Types'
    BY <1>1, <2>1 DEF AcquireBuffer
  <2>2. ASSUME NEW u \in Threads, ShareBuffer(t, u), UNCHANGED channelVars PROVE Types'
    BY <1>1, <2>2 DEF ShareBuffer
  <2>3. ASSUME ReleaseAcquired(t), UNCHANGED channelVars PROVE Types'
    BY <1>1, <2>3, WakeupTypes DEF ReleaseAcquired, BufferRelease
  <2>4. ASSUME NEW timeout_ms \in Timeouts, WaitIdle(t, timeout_ms), UNCHANGED channelVars
        PROVE  Types'
    BY <1>1, <2>4 DEF WaitIdle
  <2>5. ASSUME DestroyPool(t), UNCHANGED channelVars PROVE Types'
    BY <1>1, <2>5 DEF DestroyPool
  <2> QED
    BY <1>3, <2>1, <2>2, <2>3, <2>4, <2>5 DEF PoolCall
<1>4. ASSUME NEW t \in Threads, ChannelCall(t) PROVE Types'
  <2> USE DEF ringVars, lifeVars, localVars
  <2>1. ASSUME NEW b \in Buffers, NEW timeout_ms \in Timeouts, Send(t, b, timeout_ms) PROVE Types'
    BY <1>1, <2>1 DEF Send
  <2>2. ASSUME NEW timeout_ms \in Timeouts, Receive(t, timeout_ms) PROVE Types'
    <3>1. CASE Dequeue(t) /\ count # 0
      BY <1>1, <2>2, <3>1, DequeueTypes DEF Receive
    <3>2. CASE ReceiveNothing(t, "ready") /\ UNCHANGED timeout
      BY <1>1, <2>2, <3>2 DEF Receive, ReceiveNothing
    <3>3. CASE ReceiveNothing(t, "recv_sleep") /\ timeout' = [timeout EXCEPT ![t] = timeout_ms]
      BY <1>1, <2>2, <3>3 DEF Receive, ReceiveNothing
    <3> QED
      BY <2>2, <3>1, <3>2, <3>3 DEF Receive
  <2>3. ASSUME ReleaseReceived(t) PROVE Types'
    BY <1>1, <2>3, WakeupTypes DEF ReleaseReceived, BufferRelease
  <2>4. ASSUME Close(t) PROVE Types'
    BY <1>1, <2>4, WakeupTypes DEF Close
  <2>5. ASSUME NEW u \in Threads, RetainChannel(t, u) PROVE Types'
    BY <1>1, <2>5 DEF RetainChannel, poolVars
  <2>6. ASSUME ReleaseChannel(t) PROVE Types'
    <3>1. channel_reference_count > 0
      BY <2>6, FS_Subset, FS_EmptySet, FS_CardinalityType DEF ReleaseChannel, LifeOK
    <3> QED
      BY <1>1, <2>6, <3>1 DEF ReleaseChannel
  <2> QED
    BY <1>4, <2>1, <2>2, <2>3, <2>4, <2>5, <2>6 DEF ChannelCall
<1>5. ASSUME NEW t \in Threads, ChannelStep(t) PROVE Types'
  <2> USE DEF ringVars, lifeVars, localVars
  <2>1. ASSUME SendLock(t) PROVE Types'
    <3>1. CASE SendAside(t, "undo") \/ SendAside(t, Blocked(t, "send_sleep", "send_timedout"))
      BY <2>1, <3>1, SendAsideTypes DEF SendLock
    <3>2. CASE Enqueue(t, Displaces) /\ (count = Capacity => Displaces)
      <4>1. Displaces \in BOOLEAN /\ (Displaces => count = Capacity) /\ (~Displaces => count < Capacity)
        BY <1>0, <3>2 DEF Displaces
      <4> QED
        BY <2>1, <3>2, <4>1, EnqueueTypes DEF SendLock
    <3> QED
      BY <2>1, <3>1, <3>2 DEF SendLock
  <2>2. ASSUME SendResume(t) PROVE Types'
    BY <1>1, <2>2, EnqueueTypes, SendAsideTypes DEF SendResume
  <2>3. ASSUME SendTimeout(t) PROVE Types'
    BY <1>1, <2>3, SendAsideTypes DEF SendTimeout
  <2>4. ASSUME SendUndo(t) PROVE Types'
    <3>1. [pc EXCEPT ![t] = IF dropped[t] = NULL THEN "ready" ELSE "drop"]
            \in [Threads -> PoolPCs \union ChannelPCs]
      OBVIOUS
    <3> QED
      BY <1>1, <2>4, <3>1, BufferReleaseTypes DEF SendUndo, TimeoutKinds
  <2>5. ASSUME SendReleaseDropped(t) PROVE Types'
    BY <1>1, <2>5, BufferReleaseTypes DEF SendReleaseDropped
  <2>6. ASSUME ReceiveResume(t) PROVE Types'
    <3>1. CASE Dequeue(t) /\ count # 0
      BY <1>1, <2>6, <3>1, DequeueTypes DEF ReceiveResume
    <3>2. CASE ReceiveNothing(t, "ready") /\ timeout' = NoTimeout(t)
      BY <1>1, <2>6, <3>2 DEF ReceiveResume, ReceiveNothing, TimeoutKinds
    <3>3. CASE ReceiveNothing(t, Blocked(t, "recv_sleep", "recv_timedout")) /\ UNCHANGED timeout
      BY <1>1, <2>6, <3>3 DEF ReceiveResume, ReceiveNothing
    <3> QED
      BY <2>6, <3>1, <3>2, <3>3 DEF ReceiveResume
  <2>7. ASSUME ReceiveTimeout(t) PROVE Types'
    BY <1>1, <2>7 DEF ReceiveTimeout, ReceiveNothing, TimeoutKinds
  <2>8. ASSUME Drain(t) PROVE Types'
    BY <1>0, <1>1, <2>8, BufferReleaseTypes DEF Drain
  <2>9. ASSUME FreeChannel(t) PROVE Types'
    BY <1>0, <1>1, <2>9 DEF FreeChannel
  <2> QED
    BY <1>5, <2>1, <2>2, <2>3, <2>4, <2>5, <2>6, <2>7, <2>8, <2>9 DEF ChannelStep
<1>6. ASSUME NEW t \in Threads, WaitStep(t) PROVE Types'
  <2> USE DEF channelVars, ringVars, lifeVars, localVars, TimeoutKinds
  <2>1. ASSUME PoolStep(t), UNCHANGED channelVars PROVE Types'
    BY <1>1, <2>1 DEF PoolStep, WaitIdleResume, WaitIdleTimeout, TimeOut
  <2>2. ASSUME NEW sleep, NEW timedout \in ChannelPCs, TimeOut(t, sleep, timedout),
               UNCHANGED channelVars
        PROVE  Types'
    BY <1>1, <2>2 DEF TimeOut
  <2> QED
    BY <1>6, <2>1, <2>2 DEF WaitStep
<1>7. ASSUME NEW t \in Threads, Environment(t) PROVE Types'
  BY <1>1, <1>7 DEF Environment, Expire, WakeSpuriously, channelVars, ringVars, lifeVars, localVars, TimeoutKinds
<1> QED
  BY <1>2, <1>3, <1>4, <1>5, <1>6, <1>7 DEF Next

-----------------------------------------------------------------------------
(* A wakeup moves a thread from a place where it sleeps to one where it is *)
(* woken, and nothing else.                                                *)
OnlyWakes(p, q) == \A t \in Threads :
    \/ q[t] = p[t]
    \/ p[t] = "recv_sleep" /\ q[t] = "recv_woken"
    \/ p[t] = "send_sleep" /\ q[t] = "send_woken"
    \/ p[t] = "wait_sleep" /\ q[t] = "wait_woken"

(* A wakeup moves a sleeper to the woken point of its call, and nobody     *)
(* else.                                                                   *)
LEMMA WakeupsOnlyWake ==
    ASSUME NEW S, NEW p \in [Threads -> S]
    PROVE  /\ \A q \in SignalNotEmpty(p) : OnlyWakes(p, q)
           /\ \A q \in SignalNotFull(p) : OnlyWakes(p, q)
           /\ OnlyWakes(p, WakeCallers(p))
           /\ OnlyWakes(p, WakeIdleWaiters(p))
<1>1. ASSUME NEW q \in SignalNotEmpty(p) PROVE OnlyWakes(p, q)
  BY SignalEffect DEF SignalNotEmpty, OnlyWakes
<1>2. ASSUME NEW q \in SignalNotFull(p) PROVE OnlyWakes(p, q)
  BY SignalEffect DEF SignalNotFull, OnlyWakes
<1>3. OnlyWakes(p, WakeCallers(p))
  BY DEF WakeCallers, Broadcast, OnlyWakes
<1>4. OnlyWakes(p, WakeIdleWaiters(p))
  BY DEF WakeIdleWaiters, Broadcast, OnlyWakes
<1> QED
  BY <1>1, <1>2, <1>3, <1>4

(* Wakeups do not show in which kind of call a thread is.                  *)
SamePlaces(p, q) == \A t \in Threads :
    /\ p[t] \in SendingPCs <=> q[t] \in SendingPCs
    /\ p[t] \in SendPCs <=> q[t] \in SendPCs
    /\ p[t] \in ReceivePCs <=> q[t] \in ReceivePCs
    /\ p[t] = "drop" <=> q[t] = "drop"
    /\ p[t] = "drain" <=> q[t] = "drain"

(* A wakeup leaves every other property of a thread's point alone.         *)
LEMMA WakeupsKeepPlaces ==
    ASSUME NEW S, NEW p \in [Threads -> S]
    PROVE  /\ SamePlaces(p, p)
           /\ \A q \in SignalNotEmpty(p) \union SignalNotFull(p) : SamePlaces(p, q)
           /\ SamePlaces(p, WakeCallers(p))
           /\ SamePlaces(p, WakeIdleWaiters(p))
<1>1. ASSUME NEW q, OnlyWakes(p, q) PROVE SamePlaces(p, q)
  BY <1>1 DEF OnlyWakes, SamePlaces, SendingPCs, SendPCs, ReceivePCs
<1> QED
  BY <1>1, WakeupsOnlyWake DEF SamePlaces

(* Where the calling thread goes in the actions that release a buffer, put *)
(* a message into the ring, or take one; the others stay in their calls.   *)
LEMMA PlacesAfter ==
    ASSUME Types, NEW t \in Threads
    PROVE  /\ \A b : BufferRelease(b, pc) => SamePlaces(pc, pc')
           /\ \A b, x : BufferRelease(b, [pc EXCEPT ![t] = x]) => SamePlaces([pc EXCEPT ![t] = x], pc')
           /\ \A displace : Enqueue(t, displace) =>
                  SamePlaces([pc EXCEPT ![t] = IF displace THEN "drop" ELSE "ready"], pc')
           /\ Dequeue(t) => SamePlaces([pc EXCEPT ![t] = "ready"], pc')
           /\ Close(t) => SamePlaces(pc, pc')
<1>1. \A x : [pc EXCEPT ![t] = x] \in [Threads -> PoolPCs \union ChannelPCs \union {x}]
  BY DEF Types
<1>2. ASSUME NEW b, BufferRelease(b, pc) PROVE SamePlaces(pc, pc')
  BY <1>2, WakeupsKeepPlaces DEF BufferRelease, Types
<1>3. ASSUME NEW b, NEW x, BufferRelease(b, [pc EXCEPT ![t] = x])
      PROVE  SamePlaces([pc EXCEPT ![t] = x], pc')
  BY <1>1, <1>3, WakeupsKeepPlaces DEF BufferRelease
<1>4. ASSUME NEW displace, Enqueue(t, displace)
      PROVE  SamePlaces([pc EXCEPT ![t] = IF displace THEN "drop" ELSE "ready"], pc')
  BY <1>1, <1>4, WakeupsKeepPlaces DEF Enqueue
<1>5. ASSUME Dequeue(t) PROVE SamePlaces([pc EXCEPT ![t] = "ready"], pc')
  BY <1>1, <1>5, WakeupsKeepPlaces DEF Dequeue, Returned
<1>6. ASSUME Close(t) PROVE SamePlaces(pc, pc')
  BY <1>6, WakeupsKeepPlaces DEF Close, Types
<1> QED
  BY <1>2, <1>3, <1>4, <1>5, <1>6

(* While some thread is in a send or a receive, nobody drains the channel. *)
LEMMA InsideCall ==
    ASSUME LifeOK, NEW t \in Threads, pc[t] \in SendPCs \union ReceivePCs
    PROVE  /\ drained = 0 /\ ~channel_freed
           /\ \A u \in Threads : pc[u] # "drain"
  BY DEF LifeOK

(* Every step keeps the places of the threads and their locals in step.    *)
LEMMA NextLocals ==
    ASSUME Types, LocalsOK, LifeOK, RingOK, [Next]_vars
    PROVE  LocalsOK'
<1> USE DEF Types, LocalsOK, Returned, Blocked
<1>0. /\ \A x \in {"ready", "wait_sleep", "wait_woken", "wait_timedout", "drain", "drop"} :
            x \notin SendingPCs \union ReceivePCs
      /\ SendingPCs \intersect ReceivePCs = {} /\ "drop" \notin SendingPCs
  BY DEF SendingPCs, ReceivePCs
<1>1. CASE UNCHANGED vars
  BY <1>1 DEF vars, poolVars, channelVars, localVars
<1>2. ASSUME NEW t \in Threads, PoolCall(t) PROVE LocalsOK'
  <2>1. UNCHANGED <<sending, dropped, received>>
    BY <1>2 DEF PoolCall, channelVars, localVars
  <2>2. CASE ReleaseAcquired(t)
    <3>1. SamePlaces(pc, pc')
      BY <2>2, PlacesAfter DEF ReleaseAcquired
    <3> QED
      BY <2>1, <3>1 DEF SamePlaces
  <2>3. CASE UNCHANGED pc
    BY <2>1, <2>3
  <2>4. CASE pc[t] = "ready" /\ pc' = [pc EXCEPT ![t] = "wait_sleep"]
    BY <1>0, <2>1, <2>4
  <2> QED
    BY <1>2, <2>2, <2>3, <2>4 DEF PoolCall, AcquireBuffer, ShareBuffer, WaitIdle, DestroyPool
<1>3. ASSUME NEW t \in Threads, ChannelCall(t) PROVE LocalsOK'
  <2>1. ASSUME NEW b \in Buffers, NEW timeout_ms \in Timeouts, Send(t, b, timeout_ms)
        PROVE  LocalsOK'
    BY <1>0, <2>1 DEF Send, SendingPCs
  <2>2. ASSUME NEW timeout_ms \in Timeouts, Receive(t, timeout_ms) PROVE LocalsOK'
    <3>1. CASE Dequeue(t)
      <4>1. SamePlaces([pc EXCEPT ![t] = "ready"], pc')
        BY <3>1, PlacesAfter
      <4> QED
        BY <1>0, <2>2, <3>1, <4>1 DEF Receive, Dequeue, SamePlaces
    <3>2. CASE ReceiveNothing(t, "ready") \/ ReceiveNothing(t, "recv_sleep")
      BY <1>0, <2>2, <3>2 DEF Receive, ReceiveNothing, ReceivePCs, SendingPCs
    <3> QED
      BY <2>2, <3>1, <3>2 DEF Receive
  <2>3. ASSUME ReleaseReceived(t) PROVE LocalsOK'
    BY <1>0, <2>3, PlacesAfter DEF ReleaseReceived, SamePlaces
  <2>4. ASSUME Close(t) PROVE LocalsOK'
    <3>1. UNCHANGED <<sending, dropped, received>>
      BY <2>4 DEF Close, localVars
    <3> QED
      BY <2>4, <3>1, PlacesAfter DEF SamePlaces
  <2>5. ASSUME NEW u \in Threads, RetainChannel(t, u) PROVE LocalsOK'
    BY <2>5 DEF RetainChannel, poolVars, localVars
  <2>6. ASSUME ReleaseChannel(t) PROVE LocalsOK'
    BY <1>0, <2>6 DEF ReleaseChannel, localVars
  <2> QED
    BY <1>3, <2>1, <2>2, <2>3, <2>4, <2>5, <2>6 DEF ChannelCall
<1>4. ASSUME NEW t \in Threads, ChannelStep(t) PROVE LocalsOK'
  <2>0. ASSUME NEW displace \in BOOLEAN, Enqueue(t, displace), pc[t] \in {"send", "send_woken"},
               displace => queue[head] # NULL
        PROVE  LocalsOK'
    <3>1. SamePlaces([pc EXCEPT ![t] = IF displace THEN "drop" ELSE "ready"], pc')
      BY <2>0, PlacesAfter
    <3>2. dropped[t] = NULL
      BY <2>0
    <3> QED
      BY <1>0, <2>0, <3>1, <3>2 DEF Enqueue, SamePlaces
  <2>1. ASSUME NEW point \in {"undo", "send_sleep", "send_timedout"}, SendAside(t, point),
               pc[t] \in {"send", "send_woken", "send_timedout"}
        PROVE  LocalsOK'
    <3>1. {point, pc[t]} \subseteq SendingPCs
      BY <2>1 DEF SendingPCs
    <3> QED
      BY <1>0, <2>1, <3>1 DEF SendAside
  <2>2. ASSUME SendLock(t) PROVE LocalsOK'
    <3>1. Displaces => queue[head] # NULL
      <4>1. CASE Displaces
        <5>1. head \in Window
          <6>1. drained = 0
            BY <2>2, InsideCall DEF SendLock, SendPCs
          <6> QED
            BY <4>1, <6>1, WindowSlots, CapacityType DEF Displaces, Distance, Slots
        <5> QED
          BY <5>1 DEF RingOK
      <4> QED
        BY <4>1
    <3>2. Displaces \in BOOLEAN
      BY DEF Displaces
    <3> QED
      BY <2>0, <2>1, <2>2, <3>1, <3>2 DEF SendLock
  <2>3. ASSUME SendResume(t) PROVE LocalsOK'
    BY <2>0, <2>1, <2>3 DEF SendResume
  <2>4. ASSUME SendTimeout(t) PROVE LocalsOK'
    BY <2>1, <2>4 DEF SendTimeout
  <2>5. ASSUME SendUndo(t) PROVE LocalsOK'
    <3>1. SamePlaces([pc EXCEPT ![t] = IF dropped[t] = NULL THEN "ready" ELSE "drop"], pc')
      BY <2>5, PlacesAfter DEF SendUndo
    <3> QED
      BY <1>0, <2>5, <3>1 DEF SendUndo, SamePlaces
  <2>6. ASSUME SendReleaseDropped(t) PROVE LocalsOK'
    <3>1. SamePlaces([pc EXCEPT ![t] = "ready"], pc')
      BY <2>6, PlacesAfter DEF SendReleaseDropped
    <3> QED
      BY <1>0, <2>6, <3>1 DEF SendReleaseDropped, SamePlaces
  <2>7. ASSUME ReceiveResume(t) PROVE LocalsOK'
    <3>1. CASE Dequeue(t)
      <4>1. SamePlaces([pc EXCEPT ![t] = "ready"], pc')
        BY <3>1, PlacesAfter
      <4> QED
        BY <1>0, <2>7, <3>1, <4>1 DEF ReceiveResume, Dequeue, SamePlaces, SendingPCs
    <3>2. ASSUME NEW point \in {"ready", "recv_sleep", "recv_timedout"}, ReceiveNothing(t, point)
          PROVE  LocalsOK'
      BY <1>0, <2>7, <3>2 DEF ReceiveResume, ReceiveNothing, ReceivePCs, SendingPCs
    <3> QED
      BY <2>7, <3>1, <3>2 DEF ReceiveResume
  <2>8. ASSUME ReceiveTimeout(t) PROVE LocalsOK'
    BY <1>0, <2>8 DEF ReceiveTimeout, ReceiveNothing, ReceivePCs
  <2>9. ASSUME Drain(t) PROVE LocalsOK'
    BY <2>9, PlacesAfter DEF Drain, localVars, SamePlaces
  <2>10. ASSUME FreeChannel(t) PROVE LocalsOK'
    BY <1>0, <2>10 DEF FreeChannel, localVars
  <2> QED
    BY <1>4, <2>2, <2>3, <2>4, <2>5, <2>6, <2>7, <2>8, <2>9, <2>10 DEF ChannelStep
<1>5. ASSUME NEW t \in Threads, WaitStep(t) PROVE LocalsOK'
  BY <1>5 DEF WaitStep, PoolStep, WaitIdleResume, WaitIdleTimeout, TimeOut, channelVars, localVars,
              SendingPCs, ReceivePCs
<1>6. ASSUME NEW t \in Threads, Environment(t) PROVE LocalsOK'
  BY <1>6 DEF Environment, Expire, WakeSpuriously, channelVars, localVars, SendingPCs, ReceivePCs
<1> QED
  BY <1>1, <1>2, <1>3, <1>4, <1>5, <1>6 DEF Next

(* Every step keeps the channel's reference count and the drain in order.  *)
LEMMA NextLife ==
    ASSUME Types, LifeOK, [Next]_vars
    PROVE  LifeOK'
<1> USE DEF Types, LifeOK, Returned, Blocked
<1>0. "ready" \notin SendPCs \union ReceivePCs \union {"drain"} /\ IsFiniteSet(channel_users)
  BY FS_Subset DEF SendPCs, ReceivePCs
<1>1. ASSUME UNCHANGED lifeVars, SamePlaces(pc, pc') PROVE LifeOK'
  BY <1>1 DEF lifeVars, SamePlaces
<1>2. ASSUME UNCHANGED lifeVars, NEW t \in Threads, SamePlaces([pc EXCEPT ![t] = "ready"], pc'),
             pc[t] # "drain" \/ drained = 0
      PROVE  LifeOK'
  BY <1>0, <1>2 DEF lifeVars, SamePlaces
<1>3. ASSUME UNCHANGED lifeVars, NEW t \in Threads, NEW x, SamePlaces([pc EXCEPT ![t] = x], pc'),
             t \in channel_users, x # "drain"
      PROVE  LifeOK'
  BY <1>3 DEF lifeVars, SamePlaces
<1>4. CASE UNCHANGED vars
  BY <1>4 DEF vars, poolVars, channelVars, lifeVars
<1>5. ASSUME NEW t \in Threads, PoolCall(t) PROVE LifeOK'
  <2>1. UNCHANGED lifeVars
    BY <1>5 DEF PoolCall, channelVars
  <2>2. CASE ReleaseAcquired(t)
    <3>1. SamePlaces(pc, pc')
      BY <2>2, PlacesAfter DEF ReleaseAcquired
    <3> QED
      BY <1>1, <2>1, <3>1
  <2>3. CASE UNCHANGED pc
    BY <2>1, <2>3 DEF lifeVars
  <2>4. CASE pc[t] = "ready" /\ pc' = [pc EXCEPT ![t] = "wait_sleep"]
    BY <2>1, <2>4 DEF lifeVars, SendPCs, ReceivePCs
  <2> QED
    BY <1>5, <2>2, <2>3, <2>4 DEF PoolCall, AcquireBuffer, ShareBuffer, WaitIdle, DestroyPool
<1>6. ASSUME NEW t \in Threads, ChannelCall(t) PROVE LifeOK'
  <2>1. ASSUME NEW b \in Buffers, NEW timeout_ms \in Timeouts, Send(t, b, timeout_ms)
        PROVE  LifeOK'
    BY <2>1 DEF Send, lifeVars
  <2>2. ASSUME NEW timeout_ms \in Timeouts, Receive(t, timeout_ms) PROVE LifeOK'
    <3>1. CASE Dequeue(t)
      BY <1>2, <2>2, <3>1, PlacesAfter DEF Receive
    <3>2. CASE ReceiveNothing(t, "ready") \/ ReceiveNothing(t, "recv_sleep")
      BY <2>2, <3>2 DEF Receive, ReceiveNothing, lifeVars
    <3> QED
      BY <2>2, <3>1, <3>2 DEF Receive
  <2>3. ASSUME ReleaseReceived(t) PROVE LifeOK'
    BY <1>1, <2>3, PlacesAfter DEF ReleaseReceived
  <2>4. ASSUME Close(t) PROVE LifeOK'
    BY <1>1, <2>4, PlacesAfter DEF Close
  <2>5. ASSUME NEW u \in Threads, RetainChannel(t, u) PROVE LifeOK'
    <3>1. Cardinality(channel_users \union {u}) = Cardinality(channel_users) + 1
      BY <1>0, <2>5, FS_AddElement DEF RetainChannel
    <3> QED
      BY <2>5, <3>1 DEF RetainChannel, poolVars
  <2>6. ASSUME ReleaseChannel(t) PROVE LifeOK'
    <3>1. Cardinality(channel_users \ {t}) = Cardinality(channel_users) - 1
      BY <1>0, <2>6, FS_RemoveElement DEF ReleaseChannel
    <3>2. /\ channel_reference_count' = Cardinality(channel_users')
          /\ channel_users' = channel_users \ {t} /\ UNCHANGED <<channel_freed, drained>>
      BY <2>6, <3>1 DEF ReleaseChannel
    <3>3. ~channel_freed /\ drained = 0 /\ \A u \in Threads : pc[u] # "drain"
      BY <2>6 DEF ReleaseChannel
    <3>4. CASE IsLastChannelReference
      <4>1. channel_users' = {}
        <5>1. IsFiniteSet(channel_users')
          BY <1>0, <3>2, FS_RemoveElement
        <5>2. Cardinality(channel_users') = 0
          BY <3>1, <3>2, <3>4 DEF IsLastChannelReference
        <5> QED
          BY <5>1, <5>2, FS_EmptySet
      <4>2. pc' = [pc EXCEPT ![t] = "drain"] /\ pc[t] = "ready"
        BY <2>6, <3>4 DEF ReleaseChannel
      <4>3. \A u \in Threads : pc[u] \in SendPCs \union ReceivePCs => u = t
        BY <3>2, <4>1
      <4>4. \A u \in Threads : pc[u] \notin SendPCs \union ReceivePCs
        BY <1>0, <4>2, <4>3
      <4> QED
        BY <3>2, <3>3, <4>1, <4>2, <4>4 DEF SendPCs, ReceivePCs
    <3>5. CASE ~IsLastChannelReference
      <4>1. pc' = pc /\ pc[t] = "ready"
        BY <2>6, <3>5 DEF ReleaseChannel
      <4> QED
        BY <1>0, <3>2, <3>3, <4>1
    <3> QED
      BY <3>4, <3>5
  <2> QED
    BY <1>6, <2>1, <2>2, <2>3, <2>4, <2>5, <2>6 DEF ChannelCall
<1>7. ASSUME NEW t \in Threads, ChannelStep(t) PROVE LifeOK'
  <2>0. ASSUME NEW displace, Enqueue(t, displace), pc[t] \in SendPCs, UNCHANGED lifeVars PROVE LifeOK'
    <3>1. (IF displace THEN "drop" ELSE "ready") # "drain"
      OBVIOUS
    <3> QED
      BY <1>3, <2>0, <3>1, PlacesAfter
  <2>1. ASSUME NEW point \in {"undo", "send_sleep", "send_timedout"}, SendAside(t, point),
               pc[t] \in SendPCs, UNCHANGED lifeVars
        PROVE  LifeOK'
    BY <2>1 DEF SendAside, lifeVars
  <2>2. ASSUME SendLock(t) PROVE LifeOK'
    BY <2>0, <2>1, <2>2 DEF SendLock, SendPCs
  <2>3. ASSUME SendResume(t) PROVE LifeOK'
    BY <2>0, <2>1, <2>3 DEF SendResume, SendPCs
  <2>4. ASSUME SendTimeout(t) PROVE LifeOK'
    BY <2>1, <2>4 DEF SendTimeout, SendPCs
  <2>5. ASSUME SendUndo(t) PROVE LifeOK'
    <3>1. SamePlaces([pc EXCEPT ![t] = IF dropped[t] = NULL THEN "ready" ELSE "drop"], pc')
      BY <2>5, PlacesAfter DEF SendUndo
    <3>2. (IF dropped[t] = NULL THEN "ready" ELSE "drop") # "drain" /\ t \in channel_users
      BY <2>5 DEF SendUndo, SendPCs
    <3> QED
      BY <1>3, <2>5, <3>1, <3>2 DEF SendUndo
  <2>6. ASSUME SendReleaseDropped(t) PROVE LifeOK'
    BY <1>2, <2>6, PlacesAfter DEF SendReleaseDropped
  <2>7. ASSUME ReceiveResume(t) PROVE LifeOK'
    <3>1. CASE Dequeue(t)
      BY <1>2, <2>7, <3>1, PlacesAfter DEF ReceiveResume
    <3>2. ASSUME NEW point \in {"ready", "recv_sleep", "recv_timedout"}, ReceiveNothing(t, point)
          PROVE  LifeOK'
      BY <2>7, <3>2 DEF ReceiveResume, ReceiveNothing, ReceivePCs, lifeVars
    <3> QED
      BY <2>7, <3>1, <3>2 DEF ReceiveResume
  <2>8. ASSUME ReceiveTimeout(t) PROVE LifeOK'
    BY <2>8 DEF ReceiveTimeout, ReceiveNothing, ReceivePCs, lifeVars
  <2>9. ASSUME Drain(t) PROVE LifeOK'
    <3>1. SamePlaces(pc, pc')
      BY <2>9, PlacesAfter DEF Drain
    <3> QED
      BY <2>9, <3>1 DEF Drain, SamePlaces
  <2>10. ASSUME FreeChannel(t) PROVE LifeOK'
    BY <1>0, <2>10 DEF FreeChannel
  <2> QED
    BY <1>7, <2>2, <2>3, <2>4, <2>5, <2>6, <2>7, <2>8, <2>9, <2>10 DEF ChannelStep
<1>8. ASSUME NEW t \in Threads, WaitStep(t) PROVE LifeOK'
  BY <1>8 DEF WaitStep, PoolStep, WaitIdleResume, WaitIdleTimeout, TimeOut, channelVars, lifeVars,
              SendPCs, ReceivePCs
<1>9. ASSUME NEW t \in Threads, Environment(t) PROVE LifeOK'
  BY <1>9 DEF Environment, Expire, WakeSpuriously, channelVars, lifeVars, SendPCs, ReceivePCs
<1> QED
  BY <1>4, <1>5, <1>6, <1>7, <1>8, <1>9 DEF Next

(* The primed form of WindowSlots.                                         *)
LEMMA WindowSlotsNext ==
    Types' => \A i : i \in Window' <=> i \in Slots' /\ drained' <= Distance(i)' /\ Distance(i)' < count'
<1>1. (Types => \A i : i \in Window <=> i \in Slots /\ drained <= Distance(i) /\ Distance(i) < count)'
  BY WindowSlots, PTL
<1> QED
  BY <1>1

(* What a send puts into the ring is in the window, and nothing else that  *)
(* was there has gone, but for the displaced message.                      *)
LEMMA EnqueueWindow ==
    ASSUME Types, Types', NEW t \in Threads, NEW displace \in BOOLEAN, Enqueue(t, displace),
           drained = 0, drained' = 0, displace => count = Capacity, ~displace => count < Capacity
    PROVE  LET kept == IF displace THEN Window \ {head} ELSE Window
               new == TailSlot(IF displace THEN NextSlot(head) ELSE head,
                               IF displace THEN count - 1 ELSE count)
           IN  /\ new \in Slots \ kept /\ Window' = kept \union {new}
               /\ queue' = [(IF displace THEN HeadCleared ELSE queue) EXCEPT ![new] = sending[t]]
               /\ displace => head \in Window
<1>1. Capacity' = Capacity /\ Slots' = Slots
  BY DEF Enqueue, Capacity, Slots
<1>2. Capacity \in Nat \ {0} /\ head \in 0..(Capacity - 1) /\ count \in 0..Capacity
  BY CapacityType DEF Types, Slots
<1>3. head \in Slots /\ \A i \in Slots : i \in 0..(Capacity - 1)
  BY DEF Types, Slots
<1>4. CASE displace
  <2>1. NextSlot(head) = (IF head + 1 = Capacity THEN 0 ELSE head + 1) /\ NextSlot(head) \in Slots
    BY <1>3, RingIndexes
  <2>2. count - 1 \in 0..Capacity
    BY <1>2, <1>4
  <2>3. TailSlot(NextSlot(head), count - 1) =
            IF NextSlot(head) + (count - 1) < Capacity
            THEN NextSlot(head) + (count - 1) ELSE NextSlot(head) + (count - 1) - Capacity
    BY <2>1, <2>2, RingIndexes
  <2>4. TailSlot(NextSlot(head), count - 1) = head
    BY <1>2, <1>4, <2>1, <2>3
  <2>5. ASSUME NEW i \in Slots PROVE i \in Window
    <3>1. 0 <= Distance(i) /\ Distance(i) < count
      BY <1>2, <1>3, <1>4 DEF Distance
    <3> QED
      BY <3>1, WindowSlots
  <2>6. ASSUME NEW i \in Slots PROVE i \in Window'
    <3>1. head' = NextSlot(head) /\ count' = Capacity
      BY <1>2, <1>4 DEF Enqueue
    <3>2. Distance(i)' = IF i >= NextSlot(head) THEN i - NextSlot(head)
                                                ELSE i - NextSlot(head) + Capacity
      BY <1>1, <3>1 DEF Distance
    <3>3. 0 <= Distance(i)' /\ Distance(i)' < Capacity
      BY <1>2, <1>3, <2>1, <3>2
    <3> QED
      BY <1>1, <3>1, <3>3, WindowSlotsNext
  <2>7. Window = Slots /\ Window' = Slots
    BY <1>1, <2>5, <2>6, WindowSlots, WindowSlotsNext
  <2> QED
    BY <1>3, <1>4, <2>4, <2>7 DEF Enqueue
<1>5. CASE ~displace
  <2> DEFINE new == TailSlot(head, count)
  <2>1. new = (IF head + count < Capacity THEN head + count ELSE head + count - Capacity)
        /\ new \in Slots
    BY <1>2, <1>3, RingIndexes
  <2> HIDE DEF new
  <2>2. Distance(new) = count
    BY <1>2, <1>5, <2>1 DEF Distance
  <2>3. new \notin Window
    BY <1>2, <2>2, WindowSlots
  <2>4. ASSUME NEW i \in Slots PROVE i \in Window' <=> i \in Window \/ i = new
    <3>1. head' = head /\ count' = count + 1
      BY <1>5 DEF Enqueue
    <3>2. Distance(i)' = Distance(i)
      BY <1>1, <3>1 DEF Distance
    <3>3. i = new <=> Distance(i) = count
      BY <1>2, <1>3, <1>5, <2>1 DEF Distance
    <3>4. Distance(i) \in 0..(Capacity - 1)
      BY <1>2, <1>3 DEF Distance
    <3>5. i \in Window' <=> Distance(i) < count + 1
      BY <1>1, <3>1, <3>2, <3>4, WindowSlotsNext
    <3>6. i \in Window <=> Distance(i) < count
      BY <3>4, WindowSlots
    <3> QED
      BY <1>2, <3>3, <3>4, <3>5, <3>6
  <2>5. Window \subseteq Slots /\ Window' \subseteq Slots
    BY <1>1, WindowSlots, WindowSlotsNext
  <2>6. Window' = Window \union {new}
    BY <2>1, <2>4, <2>5
  <2>7. queue' = [queue EXCEPT ![new] = sending[t]]
    BY <1>5 DEF Enqueue, new
  <2> QED
    BY <1>5, <2>1, <2>3, <2>6, <2>7 DEF new
<1> QED
  BY <1>4, <1>5

(* Dequeueing shortens the window of the ring at its head.                 *)
LEMMA DequeueWindow ==
    ASSUME Types, Types', NEW t \in Threads, Dequeue(t), count # 0, UNCHANGED config,
           drained = 0, drained' = 0
    PROVE  head \in Window /\ Window' = Window \ {head}
<1>1. Capacity' = Capacity /\ Slots' = Slots
  BY DEF Capacity, Slots
<1>2. Capacity \in Nat \ {0} /\ head \in 0..(Capacity - 1) /\ count \in 1..Capacity
  BY RingTypes
<1>3. head \in Slots /\ \A i \in Slots : i \in 0..(Capacity - 1)
  BY DEF Types, Slots
<1>4. head \in Window
  <2>1. Distance(head) = 0
    BY <1>2 DEF Distance
  <2> QED
    BY <1>2, <1>3, <2>1, WindowSlots
<1>5. NextSlot(head) = IF head + 1 = Capacity THEN 0 ELSE head + 1
  BY <1>3, RingIndexes
<1>6. ASSUME NEW i \in Slots PROVE i \in Window' <=> i \in Window /\ i # head
  <2>1. head' = NextSlot(head) /\ count' = count - 1
    BY DEF Dequeue
  <2>2. Distance(i)' = IF i >= NextSlot(head) THEN i - NextSlot(head)
                                              ELSE i - NextSlot(head) + Capacity
    BY <1>1, <2>1 DEF Distance
  <2>3. Distance(i)' = IF i = head THEN Capacity - 1 ELSE Distance(i) - 1
    BY <1>2, <1>3, <1>5, <2>2 DEF Distance
  <2>4. Distance(i) \in 0..(Capacity - 1) /\ (i = head <=> Distance(i) = 0)
    BY <1>2, <1>3 DEF Distance
  <2>5. i \in Window' <=> 0 <= Distance(i)' /\ Distance(i)' < count - 1
    BY <1>1, <2>1, WindowSlotsNext
  <2>6. i \in Window <=> Distance(i) < count
    BY <2>4, WindowSlots
  <2> QED
    BY <1>2, <2>3, <2>4, <2>5, <2>6
<1> QED
  <2>1. Window \subseteq Slots /\ Window' \subseteq Slots
    BY <1>1, WindowSlots, WindowSlotsNext
  <2> QED
    BY <1>4, <1>6, <2>1

(* Draining empties the window.                                            *)
LEMMA DrainWindow ==
    ASSUME Types, Types', NEW t \in Threads, Drain(t)
    PROVE  DrainIndex \in Window /\ Window' = Window \ {DrainIndex}
<1>1. Capacity' = Capacity /\ Slots' = Slots
  BY DEF Capacity, Slots, Drain, ringVars
<1>2. /\ Capacity \in Nat \ {0} /\ head \in 0..(Capacity - 1) /\ count \in 0..Capacity
      /\ drained \in 0..(count - 1)
  <2>1. drained < count  BY DEF Drain
  <2> QED  BY <2>1, RingTypes
<1>3. head \in Slots /\ \A i \in Slots : i \in 0..(Capacity - 1)
  BY DEF Types, Slots
<1>4. DrainIndex = (IF head + drained < Capacity THEN head + drained ELSE head + drained - Capacity)
      /\ DrainIndex \in Slots
  <2>1. drained \in 0..Capacity
    BY <1>2
  <2> QED
    BY <1>3, <2>1, RingIndexes DEF TailSlot, DrainIndex
<1>5. Distance(DrainIndex) = drained
  BY <1>2, <1>4 DEF Distance
<1>6. DrainIndex \in Window
  BY <1>2, <1>4, <1>5, WindowSlots
<1>7. ASSUME NEW i \in Slots PROVE i \in Window' <=> i \in Window /\ i # DrainIndex
  <2>1. head' = head /\ count' = count /\ drained' = drained + 1
    BY DEF Drain, ringVars
  <2>2. Distance(i)' = Distance(i)
    BY <1>1, <2>1 DEF Distance
  <2>3. i = DrainIndex <=> Distance(i) = drained
    BY <1>2, <1>3, <1>4 DEF Distance
  <2>4. Distance(i) \in 0..(Capacity - 1)
    BY <1>2, <1>3 DEF Distance
  <2>5. i \in Window' <=> drained + 1 <= Distance(i) /\ Distance(i) < count
    BY <1>1, <2>1, <2>2, WindowSlotsNext
  <2>6. i \in Window <=> drained <= Distance(i) /\ Distance(i) < count
    BY WindowSlots
  <2> QED
    BY <1>2, <2>3, <2>4, <2>5, <2>6
<1> QED
  <2>1. Window \subseteq Slots /\ Window' \subseteq Slots
    BY <1>1, WindowSlots, WindowSlotsNext
  <2> QED
    BY <1>6, <1>7, <2>1

(* What leaves the ring alone keeps it in order.                           *)
LEMMA RingFrame ==
    ASSUME RingOK, UNCHANGED <<config, queue, head, count, stats, drained, channel_freed>>
    PROVE  RingOK' /\ Window' = Window
<1>1. Window' = Window /\ Slots' = Slots
  BY DEF Window, Slots, Capacity
<1> QED
  BY <1>1 DEF RingOK, MessagesConserved

(* Enqueueing keeps the ring in shape.                                     *)
LEMMA EnqueueRing ==
    ASSUME Types, Types', RingOK, NEW t \in Threads, NEW displace \in BOOLEAN, Enqueue(t, displace),
           drained = 0, ~channel_freed, UNCHANGED lifeVars, sending[t] # NULL,
           displace => count = Capacity, ~displace => count < Capacity
    PROVE  RingOK'
<1> DEFINE kept == IF displace THEN Window \ {head} ELSE Window
           new == TailSlot(IF displace THEN NextSlot(head) ELSE head,
                           IF displace THEN count - 1 ELSE count)
<1>1. drained' = 0 /\ ~channel_freed' /\ Slots' = Slots
  BY DEF lifeVars, Enqueue, Slots, Capacity
<1>2. /\ new \in Slots \ kept /\ Window' = kept \union {new}
      /\ queue' = [(IF displace THEN HeadCleared ELSE queue) EXCEPT ![new] = sending[t]]
      /\ displace => head \in Window
  BY <1>1, EnqueueWindow
<1> HIDE DEF kept, new
<1>3. /\ \A i \in Slots : (queue[i] # NULL) <=> (i \in Window)
      /\ stats.sent = stats.received + stats.dropped + count
  BY DEF RingOK, MessagesConserved
<1>4. \A i \in Slots : (queue'[i] # NULL) <=> (i \in Window')
  <2>1. \A i \in Slots : queue'[i] = IF i = new THEN sending[t]
                                     ELSE IF displace /\ i = head THEN NULL ELSE queue[i]
    BY <1>2 DEF Types, HeadCleared
  <2> QED
    BY <1>2, <1>3, <2>1 DEF kept
<1>5. Window' \subseteq Slots
  BY <1>1, WindowSlotsNext
<1>6. stats'.sent = stats'.received + stats'.dropped + count'
  <2>1. /\ stats'.sent = stats.sent + 1 /\ stats'.received = stats.received
        /\ stats'.dropped = (IF displace THEN stats.dropped + 1 ELSE stats.dropped)
        /\ count' = (IF displace THEN count ELSE count + 1)
    BY DEF Enqueue, SentStats, Types
  <2>2. {stats.received, stats.dropped, count} \subseteq Nat
    BY DEF Types
  <2> QED
    BY <1>3, <2>1, <2>2
<1>7. drained' <= count'
  BY <1>1 DEF Types
<1> QED
  BY <1>1, <1>4, <1>5, <1>6, <1>7 DEF RingOK, MessagesConserved

(* Dequeueing keeps the ring in shape.                                     *)
LEMMA DequeueRing ==
    ASSUME Types, Types', RingOK, NEW t \in Threads, Dequeue(t), count # 0,
           drained = 0, ~channel_freed, UNCHANGED <<config, lifeVars>>
    PROVE  RingOK'
<1>1. drained' = 0 /\ ~channel_freed' /\ Slots' = Slots
  BY DEF lifeVars, Slots, Capacity
<1>2. head \in Window /\ Window' = Window \ {head}
  BY <1>1, DequeueWindow
<1>3. /\ \A i \in Slots : (queue[i] # NULL) <=> (i \in Window)
      /\ stats.sent = stats.received + stats.dropped + count
  BY DEF RingOK, MessagesConserved
<1>4. \A i \in Slots : (queue'[i] # NULL) <=> (i \in Window')
  <2>1. \A i \in Slots : queue'[i] = IF i = head THEN NULL ELSE queue[i]
    BY DEF Types, Dequeue, HeadCleared
  <2> QED
    BY <1>2, <1>3, <2>1
<1>5. Window' \subseteq Slots
  BY <1>1, WindowSlotsNext
<1>6. stats'.sent = stats'.received + stats'.dropped + count'
  <2>1. /\ stats'.sent = stats.sent /\ stats'.received = stats.received + 1
        /\ stats'.dropped = stats.dropped /\ count' = count - 1
    BY DEF Dequeue, Types
  <2>2. {stats.received, stats.dropped, count} \subseteq Nat
    BY DEF Types
  <2> QED
    BY <1>3, <2>1, <2>2
<1>7. drained' <= count'
  BY <1>1 DEF Types
<1> QED
  BY <1>1, <1>4, <1>5, <1>6, <1>7 DEF RingOK, MessagesConserved

(* Draining keeps the ring in shape.                                       *)
LEMMA DrainRing ==
    ASSUME Types, Types', RingOK, NEW t \in Threads, Drain(t)
    PROVE  RingOK'
<1>1. Window' = Window \ {DrainIndex} /\ UNCHANGED <<queue, count, stats, channel_freed>>
  BY DrainWindow DEF Drain, ringVars
<1>2. drained' = drained + 1 /\ drained \in Nat /\ count \in Nat /\ drained < count
  BY DEF Drain, Types
<1> QED
  BY <1>1, <1>2 DEF RingOK, MessagesConserved

(* Every step keeps the ring and its statistics in step.                   *)
LEMMA NextRing ==
    ASSUME Types, Types', LocalsOK, LifeOK, RingOK, [Next]_vars
    PROVE  RingOK'
<1>1. CASE UNCHANGED vars
  BY <1>1, RingFrame DEF vars, channelVars, ringVars, lifeVars
<1>2. ASSUME NEW t \in Threads, PoolCall(t) PROVE RingOK'
  BY <1>2, RingFrame DEF PoolCall, channelVars, ringVars, lifeVars
<1>3. ASSUME NEW t \in Threads, ChannelCall(t) PROVE RingOK'
  <2>1. ASSUME NEW b \in Buffers, NEW timeout_ms \in Timeouts, Send(t, b, timeout_ms)
        PROVE  RingOK'
    BY <2>1, RingFrame DEF Send, ringVars, lifeVars
  <2>2. ASSUME NEW timeout_ms \in Timeouts, Receive(t, timeout_ms) PROVE RingOK'
    <3>1. CASE Dequeue(t) /\ count # 0
      <4>1. drained = 0 /\ ~channel_freed /\ UNCHANGED <<config, lifeVars>>
        BY <2>2 DEF Receive, LifeOK
      <4> QED
        BY <3>1, <4>1, DequeueRing
    <3>2. CASE UNCHANGED <<queue, head, count, stats>>
      BY <2>2, <3>2, RingFrame DEF Receive, lifeVars
    <3> QED
      BY <2>2, <3>1, <3>2 DEF Receive, ReceiveNothing
  <2>3. ASSUME ReleaseReceived(t) PROVE RingOK'
    BY <2>3, RingFrame DEF ReleaseReceived, ringVars, lifeVars
  <2>4. ASSUME Close(t) PROVE RingOK'
    BY <2>4, RingFrame DEF Close, lifeVars
  <2>5. ASSUME NEW u \in Threads, RetainChannel(t, u) PROVE RingOK'
    BY <2>5, RingFrame DEF RetainChannel, ringVars
  <2>6. ASSUME ReleaseChannel(t) PROVE RingOK'
    BY <2>6, RingFrame DEF ReleaseChannel, ringVars
  <2> QED
    BY <1>3, <2>1, <2>2, <2>3, <2>4, <2>5, <2>6 DEF ChannelCall
<1>4. ASSUME NEW t \in Threads, ChannelStep(t) PROVE RingOK'
  <2>1. ASSUME NEW displace \in BOOLEAN, Enqueue(t, displace), pc[t] \in {"send", "send_woken"},
               UNCHANGED lifeVars, displace => count = Capacity, ~displace => count < Capacity
        PROVE  RingOK'
    <3>1. drained = 0 /\ ~channel_freed /\ sending[t] # NULL
      BY <2>1, InsideCall DEF LocalsOK, SendingPCs, SendPCs
    <3> QED
      BY <2>1, <3>1, EnqueueRing
  <2>2. ASSUME NEW point, SendAside(t, point), UNCHANGED lifeVars PROVE RingOK'
    BY <2>2, RingFrame DEF SendAside, ringVars, lifeVars
  <2>3. ASSUME SendLock(t) PROVE RingOK'
    <3>1. CASE Enqueue(t, Displaces) /\ (count = Capacity => Displaces)
      <4>1. Displaces \in BOOLEAN /\ (Displaces => count = Capacity) /\ (~Displaces => count < Capacity)
        BY <3>1, CapacityType DEF Displaces, Types
      <4> QED
        BY <2>1, <2>3, <3>1, <4>1 DEF SendLock
    <3> QED
      BY <2>2, <2>3, <3>1 DEF SendLock
  <2>4. ASSUME SendResume(t) PROVE RingOK'
    BY <2>1, <2>2, <2>4 DEF SendResume
  <2>5. ASSUME SendTimeout(t) PROVE RingOK'
    BY <2>2, <2>5 DEF SendTimeout
  <2>6. ASSUME SendUndo(t) PROVE RingOK'
    BY <2>6, RingFrame DEF SendUndo, ringVars, lifeVars
  <2>7. ASSUME SendReleaseDropped(t) PROVE RingOK'
    BY <2>7, RingFrame DEF SendReleaseDropped, ringVars, lifeVars
  <2>8. ASSUME ReceiveResume(t) PROVE RingOK'
    <3>1. CASE Dequeue(t) /\ count # 0
      <4>1. drained = 0 /\ ~channel_freed /\ UNCHANGED <<config, lifeVars>>
        BY <2>8, InsideCall DEF ReceiveResume, ReceivePCs
      <4> QED
        BY <3>1, <4>1, DequeueRing
    <3>2. CASE UNCHANGED <<queue, head, count, stats>>
      BY <2>8, <3>2, RingFrame DEF ReceiveResume, lifeVars
    <3> QED
      BY <2>8, <3>1, <3>2 DEF ReceiveResume, ReceiveNothing
  <2>9. ASSUME ReceiveTimeout(t) PROVE RingOK'
    BY <2>9, RingFrame DEF ReceiveTimeout, ReceiveNothing, lifeVars
  <2>10. ASSUME Drain(t) PROVE RingOK'
    BY <2>10, DrainRing
  <2>11. ASSUME FreeChannel(t) PROVE RingOK'
    <3>1. Window' = {} /\ drained' <= count' /\ channel_freed'
      BY <2>11 DEF FreeChannel, Window
    <3> QED
      BY <3>1 DEF RingOK, MessagesConserved
  <2> QED
    BY <1>4, <2>3, <2>4, <2>5, <2>6, <2>7, <2>8, <2>9, <2>10, <2>11 DEF ChannelStep
<1>5. ASSUME NEW t \in Threads, WaitStep(t) \/ Environment(t) PROVE RingOK'
  BY <1>5, RingFrame DEF WaitStep, Environment, channelVars, ringVars, lifeVars
<1> QED
  BY <1>1, <1>2, <1>3, <1>4, <1>5 DEF Next

(* The initial states are in shape.                                        *)
LEMMA InitShape ==
    Init => Shape
<1> SUFFICES ASSUME Init PROVE Shape
  OBVIOUS
<1> USE DEF Init, PoolInit
<1>1. Capacity \in Nat \ {0} /\ Slots = 0..(Capacity - 1) /\ 0 \in Slots
  BY DEF Capacity, Slots
<1>2. Types
  <2>1. /\ config \in Configs /\ queue \in [Slots -> Buffers \union {NULL}]
        /\ head \in Slots /\ {count, drained} \subseteq 0..Capacity
    BY <1>1
  <2>2. /\ reference_count \in [Buffers -> 0..SIZE_MAX] /\ buffers_in_use \in Int
        /\ channel_reference_count \in 0..UINT_MAX /\ calls \in 0..MaxCalls
    OBVIOUS
  <2>3. /\ pc \in [Threads -> PoolPCs \union ChannelPCs]
        /\ timeout \in [Threads -> TimeoutKinds \union {"expired"}]
    BY DEF PoolPCs, TimeoutKinds
  <2>4. stats \in [sent : Nat, received : Nat, dropped : Nat]
    OBVIOUS
  <2>5. /\ acquired \in [Threads -> Buffers \union {NULL}]
        /\ sending \in [Threads -> Buffers \union {NULL}]
        /\ dropped \in [Threads -> Buffers \union {NULL}]
        /\ received \in [Threads -> Buffers \union {NULL}]
    OBVIOUS
  <2> QED
    BY <2>1, <2>2, <2>3, <2>4, <2>5 DEF Types
<1>3. LocalsOK
  BY DEF LocalsOK, SendingPCs, ReceivePCs
<1>4. LifeOK
  <2>1. Cardinality(channel_users) = 1
    BY FS_Singleton
  <2> QED
    BY <2>1 DEF LifeOK, SendPCs, ReceivePCs
<1>5. Window = {}
  BY DEF Window
<1>6. RingOK
  BY <1>1, <1>5 DEF RingOK, MessagesConserved
<1> QED
  BY <1>2, <1>3, <1>4, <1>6 DEF Shape

(* The shape of the channel holds in every reachable state: types, what a  *)
(* thread's call holds, the life of the channel and its pool, and the      *)
(* ring as a window of count slots.                                        *)
THEOREM ShapeInvariant == Spec => []Shape
<1>1. Shape /\ [Next]_vars => Shape'
  BY NextTypes, NextLocals, NextLife, NextRing DEF Shape
<1> QED
  BY <1>1, InitShape, PTL DEF Spec

-----------------------------------------------------------------------------
(* The references: each is counted exactly once, so a freed pool is        *)
(* referenced from nowhere.                                                *)

(* The references to b, place by place.                                    *)
References(b) == Holders(acquired, b) + Holders(received, b)
               + Holders(sending, b) + Holders(dropped, b) + Queued(b)

(* The inductive invariant: the counts, and that sys_buffer_pool_destroy   *)
(* has freed an idle pool, of which nobody acquires a block.               *)
Counts ==
    /\ \A b \in Buffers : reference_count[b] = References(b)
    /\ BuffersInUseExact
    /\ pool_freed => buffers_in_use = 0

(* Whether a place that holds x holds b, as a number.                      *)
One(x, b) == IF x = b THEN 1 ELSE 0

(* One is a bit.                                                           *)
LEMMA OneType == \A x, b : One(x, b) \in {0, 1}
  BY DEF One

-----------------------------------------------------------------------------
(* The place of one thread changes.                                        *)
LEMMA HoldersType ==
    ASSUME NEW f, NEW b
    PROVE  /\ IsFiniteSet({u \in Threads : f[u] = b}) /\ Holders(f, b) \in Nat
           /\ \A u \in Threads : f[u] = b => Holders(f, b) > 0
<1>1. IsFiniteSet({u \in Threads : f[u] = b})
  BY FS_Subset
<1>2. Holders(f, b) \in Nat
  BY <1>1, FS_CardinalityType DEF Holders
<1>3. ASSUME NEW u \in Threads, f[u] = b PROVE Holders(f, b) # 0
  BY <1>1, <1>3, FS_EmptySet DEF Holders
<1> QED
  BY <1>1, <1>2, <1>3

(* Only thread t's part of a place changes.                                *)
OnlyOf(t, before, after) == \A u \in Threads \ {t} : after[u] = before[u]

(* The holders of b in a place of which only thread t's part changes.      *)
LEMMA HoldersStep ==
    ASSUME NEW f, NEW g, NEW t \in Threads, NEW b, OnlyOf(t, f, g)
    PROVE  Holders(g, b) = Holders(f, b) - One(f[t], b) + One(g[t], b)
<1> DEFINE before == {u \in Threads : f[u] = b}
           after == {u \in Threads : g[u] = b}
<1>1. IsFiniteSet(before)
  BY HoldersType
<1>2. Cardinality(before) \in Nat /\ IsFiniteSet(before \ {t})
  BY <1>1, FS_CardinalityType, FS_RemoveElement
<1>3. Cardinality(before \ {t}) = Cardinality(before) - One(f[t], b)
  BY <1>1, <1>2, FS_RemoveElement DEF One
<1>4. after = IF g[t] = b THEN (before \ {t}) \union {t} ELSE before \ {t}
  BY DEF OnlyOf
<1> HIDE DEF before, after
<1>5. Cardinality((before \ {t}) \union {t}) = Cardinality(before \ {t}) + 1
  BY <1>2, FS_AddElement
<1>6. Cardinality(after) = Cardinality(before) - One(f[t], b) + One(g[t], b)
  BY <1>2, <1>3, <1>4, <1>5 DEF One
<1> QED
  BY <1>6 DEF Holders, before, after

(* The slots of the window that hold b, when the window gains or loses one.*)
LEMMA QueuedStep ==
    ASSUME Types, NEW b
    PROVE  /\ IsFiniteSet({i \in Window : queue[i] = b}) /\ Queued(b) \in Nat
           /\ \A i \in Window : queue[i] = b => Queued(b) > 0
           /\ \A x \in Window :
                  Cardinality({i \in Window \ {x} : queue[i] = b}) = Queued(b) - One(queue[x], b)
<1> DEFINE before == {i \in Window : queue[i] = b}
<1>1. IsFiniteSet(Slots)
  BY FS_Interval, CapacityType DEF Slots
<1>2. before \subseteq Slots
  BY WindowSlots
<1>3. IsFiniteSet(before)
  BY <1>1, <1>2, FS_Subset
<1>4. Cardinality(before) \in Nat
  BY <1>3, FS_CardinalityType
<1>5. ASSUME NEW i \in Window, queue[i] = b PROVE Cardinality(before) > 0
  <2>1. Cardinality(before) # 0
    BY <1>3, <1>5, FS_EmptySet
  <2> QED
    BY <1>4, <2>1
<1>6. ASSUME NEW x \in Window
      PROVE  Cardinality({i \in Window \ {x} : queue[i] = b}) = Cardinality(before) - One(queue[x], b)
  <2>1. {i \in Window \ {x} : queue[i] = b} = before \ {x}
    OBVIOUS
  <2>2. Cardinality(before \ {x}) = IF x \in before THEN Cardinality(before) - 1 ELSE Cardinality(before)
    BY <1>3, FS_RemoveElement
  <2> QED
    BY <1>4, <2>1, <2>2 DEF One
<1> QED
  BY <1>3, <1>4, <1>5, <1>6 DEF Queued

(* The references to a buffer are a number.                                *)
LEMMA ReferencesType ==
    ASSUME Types, NEW b
    PROVE  /\ Holders(acquired, b) \in Nat /\ Holders(received, b) \in Nat
           /\ Holders(sending, b) \in Nat /\ Holders(dropped, b) \in Nat /\ Queued(b) \in Nat
  BY HoldersType, QueuedStep

(* Whatever some place holds is counted.                                   *)
LEMMA HeldIsCounted ==
    ASSUME Types, Counts
    PROVE  /\ \A t \in Threads : \A b \in {acquired[t], received[t], sending[t], dropped[t]} \ {NULL} :
                  b \in Buffers /\ reference_count[b] > 0
           /\ \A i \in Window : queue[i] # NULL => queue[i] \in Buffers /\ reference_count[queue[i]] > 0
<1>1. ASSUME NEW t \in Threads, NEW b \in {acquired[t], received[t], sending[t], dropped[t]} \ {NULL}
      PROVE  b \in Buffers /\ reference_count[b] > 0
  <2>1. b \in Buffers
    BY DEF Types
  <2>2. \/ Holders(acquired, b) > 0 \/ Holders(received, b) > 0
        \/ Holders(sending, b) > 0 \/ Holders(dropped, b) > 0
    BY HoldersType
  <2> QED
    BY <2>1, <2>2, ReferencesType DEF Counts, References
<1>2. ASSUME NEW i \in Window, queue[i] # NULL
      PROVE  queue[i] \in Buffers /\ reference_count[queue[i]] > 0
  <2>1. queue[i] \in Buffers
    BY <1>2, WindowSlots DEF Types
  <2>2. Queued(queue[i]) > 0
    BY QueuedStep
  <2> QED
    BY <2>1, <2>2, ReferencesType DEF Counts, References
<1> QED
  BY <1>1, <1>2

-----------------------------------------------------------------------------
(* The blocks in use, when one reference count changes.                    *)
LEMMA InUseStep ==
    ASSUME Types, BuffersInUseExact, NEW b \in Buffers, NEW n \in Nat,
           reference_count' = [reference_count EXCEPT ![b] = n],
           buffers_in_use' = buffers_in_use - (IF reference_count[b] > 0 THEN 1 ELSE 0) + (IF n > 0 THEN 1 ELSE 0)
    PROVE  BuffersInUseExact'
<1> DEFINE before == {c \in Buffers : reference_count[c] > 0}
           after == {c \in Buffers : reference_count'[c] > 0}
<1>1. IsFiniteSet(before)
  BY FS_Subset
<1>2. Cardinality(before) \in Nat /\ IsFiniteSet(before \ {b})
  BY <1>1, FS_CardinalityType, FS_RemoveElement
<1>3. Cardinality(before \ {b}) = Cardinality(before) - (IF reference_count[b] > 0 THEN 1 ELSE 0)
  <2>1. b \in before <=> reference_count[b] > 0
    OBVIOUS
  <2> HIDE DEF before
  <2> QED
    BY <1>1, <1>2, <2>1, FS_RemoveElement DEF One
<1>4. after = IF n > 0 THEN (before \ {b}) \union {b} ELSE before \ {b}
  BY DEF Types
<1> HIDE DEF before, after
<1>5. Cardinality((before \ {b}) \union {b}) = Cardinality(before \ {b}) + 1
  BY <1>2, FS_AddElement
<1>6. Cardinality(after) = Cardinality(before) - (IF reference_count[b] > 0 THEN 1 ELSE 0) + (IF n > 0 THEN 1 ELSE 0)
  BY <1>2, <1>3, <1>4, <1>5 DEF One
<1>7. BuffersInUseExact' <=> buffers_in_use' = Cardinality(after)
  BY DEF BuffersInUseExact, after
<1>8. buffers_in_use = Cardinality(before)
  BY DEF BuffersInUseExact, before
<1> QED
  BY <1>6, <1>7, <1>8

(* Three kinds of step: a reference is taken, given back, or neither.      *)
LEMMA TakeReference ==
    ASSUME Types, Counts, NEW b \in Buffers, BufferRetain(b), UNCHANGED pool_freed,
           \A c \in Buffers : References(c)' = References(c) + One(c, b)
    PROVE  Counts'
<1>1. reference_count[b] \in Nat \ {0} /\ reference_count' = [reference_count EXCEPT ![b] = reference_count[b] + 1]
  BY DEF Types, BufferRetain, CanRetain
<1>2. BuffersInUseExact'
  <2>1. buffers_in_use' = buffers_in_use - (IF reference_count[b] > 0 THEN 1 ELSE 0) + (IF reference_count[b] + 1 > 0 THEN 1 ELSE 0)
    BY <1>1 DEF Types, BufferRetain, One
  <2>2. reference_count[b] + 1 \in Nat
    BY <1>1
  <2> QED
    BY <1>1, <2>1, <2>2, InUseStep DEF Counts
<1>3. ASSUME NEW c \in Buffers PROVE reference_count'[c] = References(c)'
  BY <1>1 DEF Counts, One, Types
<1> QED
  BY <1>2, <1>3 DEF Counts, BufferRetain

(* A reference to b that is given up and released: the count falls with    *)
(* it.                                                                     *)
LEMMA GiveReference ==
    ASSUME Types, Counts, NEW b \in Buffers, NEW p, BufferRelease(b, p), UNCHANGED pool_freed,
           reference_count[b] > 0,
           \A c \in Buffers : References(c)' = References(c) - One(c, b)
    PROVE  Counts'
<1>1. reference_count[b] \in Nat \ {0} /\ reference_count' = [reference_count EXCEPT ![b] = reference_count[b] - 1]
  BY DEF Types, BufferRelease
<1>2. buffers_in_use' = buffers_in_use - (IF reference_count[b] > 0 THEN 1 ELSE 0) + (IF reference_count[b] - 1 > 0 THEN 1 ELSE 0)
  BY <1>1 DEF Types, BufferRelease, IsLast, One
<1>3. BuffersInUseExact'
  <2>1. reference_count[b] - 1 \in Nat
    BY <1>1
  <2> QED
    BY <1>1, <1>2, <2>1, InUseStep DEF Counts
<1>4. ASSUME NEW c \in Buffers PROVE reference_count'[c] = References(c)'
  BY <1>1 DEF Counts, One, Types
<1>5. buffers_in_use # 0
  <2>1. IsFiniteSet({c \in Buffers : reference_count[c] > 0})
    BY FS_Subset
  <2> QED
    BY <2>1, FS_EmptySet DEF Counts, BuffersInUseExact
<1> QED
  BY <1>3, <1>4, <1>5 DEF Counts

(* References that only move leave the counts alone.                       *)
LEMMA MoveReference ==
    ASSUME Counts, UNCHANGED <<reference_count, buffers_in_use, pool_freed>>,
           \A c \in Buffers : References(c)' = References(c)
    PROVE  Counts'
  BY DEF Counts, BuffersInUseExact

-----------------------------------------------------------------------------
(* The references to b in the next state, place by place.                  *)
LEMMA ReferencesNext ==
    ASSUME NEW b
    PROVE  References(b)' = Holders(acquired', b) + Holders(received', b)
                          + Holders(sending', b) + Holders(dropped', b) + Queued(b)'
  BY DEF References, Holders

(* What a change of one thread's part of a place does to its count.        *)
LEMMA PlaceStep ==
    ASSUME NEW t \in Threads, NEW b
    PROVE  /\ OnlyOf(t, acquired, acquired') =>
                  Holders(acquired', b) = Holders(acquired, b) - One(acquired[t], b) + One(acquired'[t], b)
           /\ OnlyOf(t, received, received') =>
                  Holders(received', b) = Holders(received, b) - One(received[t], b) + One(received'[t], b)
           /\ OnlyOf(t, sending, sending') =>
                  Holders(sending', b) = Holders(sending, b) - One(sending[t], b) + One(sending'[t], b)
           /\ OnlyOf(t, dropped, dropped') =>
                  Holders(dropped', b) = Holders(dropped, b) - One(dropped[t], b) + One(dropped'[t], b)
<1>1. \A f, g : OnlyOf(t, f, g) => Holders(g, b) = Holders(f, b) - One(f[t], b) + One(g[t], b)
  BY HoldersStep
<1> QED
  BY <1>1

(* A ring that does not change queues the same references.                 *)
LEMMA QueuedFrame ==
    ASSUME UNCHANGED <<config, queue, head, count, drained>>, NEW b
    PROVE  Queued(b)' = Queued(b)
  BY DEF Queued, Window, Capacity

(* A send puts its reference into the ring, and takes the displaced one.   *)
LEMMA EnqueueQueued ==
    ASSUME Types, Types', NEW t \in Threads, NEW displace \in BOOLEAN, Enqueue(t, displace),
           drained = 0, drained' = 0, displace => count = Capacity, ~displace => count < Capacity,
           NEW b
    PROVE  Queued(b)' = Queued(b) - (IF displace THEN One(queue[head], b) ELSE 0) + One(sending[t], b)
<1> DEFINE kept == IF displace THEN Window \ {head} ELSE Window
           new == TailSlot(IF displace THEN NextSlot(head) ELSE head,
                           IF displace THEN count - 1 ELSE count)
           before == {i \in kept : queue[i] = b}
<1>1. /\ new \in Slots \ kept /\ Window' = kept \union {new}
      /\ queue' = [(IF displace THEN HeadCleared ELSE queue) EXCEPT ![new] = sending[t]]
      /\ displace => head \in Window
  BY EnqueueWindow
<1>2. kept \subseteq Slots /\ head \in Slots
  BY WindowSlots DEF Types
<1> HIDE DEF new
<1>3. {i \in Window' : queue'[i] = b} = IF sending[t] = b THEN before \union {new} ELSE before
  <2>1. queue'[new] = sending[t] /\ \A i \in kept : queue'[i] = queue[i]
    BY <1>1, <1>2 DEF Types, HeadCleared
  <2> QED
    BY <1>1, <2>1
<1>4. /\ IsFiniteSet(before) /\ Queued(b) \in Nat
      /\ Cardinality(before) = Queued(b) - (IF displace THEN One(queue[head], b) ELSE 0)
  <2>1. IsFiniteSet({i \in Window : queue[i] = b}) /\ Queued(b) \in Nat
    BY QueuedStep
  <2>2. IsFiniteSet(before)
    BY <2>1, FS_Subset
  <2>3. CASE displace
    BY <1>1, <2>2, <2>3, QueuedStep
  <2>4. CASE ~displace
    BY <2>1, <2>2, <2>4 DEF Queued, One
  <2> QED
    BY <2>1, <2>2, <2>3, <2>4
<1>5. Cardinality(before \union {new}) = Cardinality(before) + 1
  <2>1. new \notin before
    BY <1>1
  <2> HIDE DEF before
  <2> QED
    BY <1>4, <2>1, FS_AddElement
<1>6. Queued(b)' = Cardinality({i \in Window' : queue'[i] = b})
  BY DEF Queued
<1>7. Cardinality(before) \in Nat
  BY <1>4, FS_CardinalityType
<1> HIDE DEF before
<1>8. CASE sending[t] = b
  BY <1>3, <1>4, <1>5, <1>6, <1>7, <1>8 DEF One
<1>9. CASE sending[t] # b
  <2>1. Queued(b)' = Cardinality(before) /\ One(sending[t], b) = 0
    BY <1>3, <1>6, <1>9 DEF One
  <2> QED
    BY <1>4, <1>7, <2>1
<1> QED
  BY <1>8, <1>9

(* A receive, and the drain, take a reference from the ring.               *)
LEMMA TakenQueued ==
    ASSUME Types, NEW x \in Window, Window' = Window \ {x},
           \A i \in Slots : i # x => queue'[i] = queue[i], NEW b
    PROVE  Queued(b)' = Queued(b) - One(queue[x], b)
<1>1. {i \in Window' : queue'[i] = b} = {i \in Window \ {x} : queue[i] = b}
  BY WindowSlots
<1>2. Queued(b)' = Cardinality({i \in Window' : queue'[i] = b})
  BY DEF Queued
<1>3. Cardinality({i \in Window \ {x} : queue[i] = b}) = Queued(b) - One(queue[x], b)
  BY QueuedStep
<1> QED
  BY <1>1, <1>2, <1>3

-----------------------------------------------------------------------------
(* The actions of the pool.                                                *)
LEMMA PoolCallCounts ==
    ASSUME Types, Types', Counts, NEW t \in Threads, PoolCall(t)
    PROVE  Counts'
<1>1. /\ \A c : Queued(c)' = Queued(c)
      /\ UNCHANGED <<received, sending, dropped>>
  BY QueuedFrame DEF PoolCall, channelVars, ringVars, lifeVars, localVars
<1>2. ASSUME NEW b \in Buffers, AcquireBuffer(t, b) PROVE Counts'
  <2>1. /\ reference_count' = [reference_count EXCEPT ![b] = 1] /\ reference_count[b] = 0
        /\ buffers_in_use' = buffers_in_use + 1
    BY <1>2 DEF AcquireBuffer, IsFree
  <2>2. buffers_in_use' = buffers_in_use - (IF reference_count[b] > 0 THEN 1 ELSE 0) + (IF 1 > 0 THEN 1 ELSE 0)
    BY <2>1 DEF One, Types
  <2>3. BuffersInUseExact'
    BY <2>1, <2>2, InUseStep DEF Counts
  <2>4. ASSUME NEW c \in Buffers PROVE reference_count'[c] = References(c)'
    <3>1. Holders(acquired', c) = Holders(acquired, c) + One(b, c)
      <4>1. OnlyOf(t, acquired, acquired') /\ acquired'[t] = b /\ One(acquired[t], c) = 0
        BY <1>2 DEF AcquireBuffer, One, OnlyOf, Types
      <4> QED
        BY <4>1, PlaceStep, OneType, ReferencesType
    <3>2. References(c)' = References(c) + One(b, c)
      BY <1>1, <3>1, ReferencesNext, ReferencesType DEF References, One
    <3> QED
      BY <2>1, <3>2 DEF Counts, One, Types
  <2> QED
    BY <1>2, <2>3, <2>4 DEF Counts, AcquireBuffer
<1>3. ASSUME NEW u \in Threads, ShareBuffer(t, u) PROVE Counts'
  <2>1. acquired[t] \in Buffers
    BY <1>3 DEF ShareBuffer, Types
  <2>2. ASSUME NEW c \in Buffers PROVE References(c)' = References(c) + One(c, acquired[t])
    <3>1. Holders(acquired', c) = Holders(acquired, c) + One(acquired[t], c)
      <4>1. OnlyOf(u, acquired, acquired') /\ acquired'[u] = acquired[t] /\ One(acquired[u], c) = 0
        BY <1>3 DEF ShareBuffer, One, OnlyOf, Types
      <4> QED
        BY <4>1, PlaceStep, OneType, ReferencesType
    <3> QED
      BY <1>1, <3>1, ReferencesNext, ReferencesType DEF References, One
  <2> QED
    BY <1>3, <2>1, <2>2, TakeReference DEF ShareBuffer
<1>4. ASSUME ReleaseAcquired(t) PROVE Counts'
  <2>1. acquired[t] \in Buffers /\ reference_count[acquired[t]] > 0
    BY <1>4, HeldIsCounted DEF ReleaseAcquired
  <2>2. ASSUME NEW c \in Buffers PROVE References(c)' = References(c) - One(c, acquired[t])
    <3>1. Holders(acquired', c) = Holders(acquired, c) - One(acquired[t], c)
      <4>1. OnlyOf(t, acquired, acquired') /\ acquired'[t] = NULL /\ One(NULL, c) = 0
        BY <1>4 DEF ReleaseAcquired, One, OnlyOf, Types
      <4> QED
        BY <4>1, PlaceStep, OneType, ReferencesType
    <3> QED
      BY <1>1, <3>1, ReferencesNext, ReferencesType DEF References, One
  <2> QED
    BY <1>4, <2>1, <2>2, GiveReference DEF ReleaseAcquired
<1>5. ASSUME UNCHANGED <<acquired, reference_count, buffers_in_use>>, pool_freed' => buffers_in_use = 0 \/ pool_freed
      PROVE  Counts'
  <2>1. \A c \in Buffers : References(c)' = References(c)
    BY <1>1, <1>5, ReferencesNext DEF References
  <2> QED
    BY <1>5, <2>1 DEF Counts, BuffersInUseExact
<1> QED
  BY <1>2, <1>3, <1>4, <1>5 DEF PoolCall, WaitIdle, DestroyPool, PoolIdle

-----------------------------------------------------------------------------
(* The actions of the channel.                                             *)
LEMMA QuietCounts ==
    ASSUME Counts, UNCHANGED <<reference_count, buffers_in_use, pool_freed, acquired, received,
                               sending, dropped, config, queue, head, count, drained>>
    PROVE  Counts'
<1>1. \A c \in Buffers : References(c)' = References(c)
  BY QueuedFrame, ReferencesNext DEF References
<1> QED
  BY <1>1, MoveReference

(* Enqueueing a buffer queues its reference, and releases the displaced    *)
(* one.                                                                    *)
LEMMA EnqueueCounts ==
    ASSUME Types, Types', Counts, NEW t \in Threads, NEW displace \in BOOLEAN, Enqueue(t, displace),
           drained = 0, drained' = 0, displace => count = Capacity, ~displace => count < Capacity,
           dropped[t] = NULL,
           UNCHANGED <<reference_count, buffers_in_use, pool_freed, acquired>>
    PROVE  Counts'
<1>1. ASSUME NEW c \in Buffers PROVE References(c)' = References(c)
  <2>1. Queued(c)' = Queued(c) - (IF displace THEN One(queue[head], c) ELSE 0) + One(sending[t], c)
    BY EnqueueQueued
  <2>2. /\ OnlyOf(t, sending, sending') /\ sending'[t] = NULL
        /\ OnlyOf(t, dropped, dropped') /\ dropped'[t] = (IF displace THEN queue[head] ELSE NULL)
    BY DEF Enqueue, Types, OnlyOf
  <2>3. One(NULL, c) = 0
    BY DEF One
  <2>4. Holders(sending', c) = Holders(sending, c) - One(sending[t], c)
    BY <2>2, <2>3, PlaceStep, OneType, ReferencesType
  <2>5. Holders(dropped', c) = Holders(dropped, c) + (IF displace THEN One(queue[head], c) ELSE 0)
    BY <2>2, <2>3, PlaceStep, OneType, ReferencesType
  <2>6. received' = received
    BY DEF Enqueue
  <2> QED
    BY <2>1, <2>4, <2>5, <2>6, OneType, ReferencesType, ReferencesNext DEF References
<1> QED
  BY <1>1, MoveReference

(* Dequeueing moves the head's reference to the receiver.                  *)
LEMMA DequeueCounts ==
    ASSUME Types, Types', Counts, NEW t \in Threads, Dequeue(t), count # 0, received[t] = NULL,
           drained = 0, drained' = 0,
           UNCHANGED <<reference_count, buffers_in_use, pool_freed, acquired, sending, dropped, config>>
    PROVE  Counts'
<1>1. ASSUME NEW c \in Buffers PROVE References(c)' = References(c)
  <2>1. head \in Window /\ Window' = Window \ {head}
    BY DequeueWindow
  <2>2. \A i \in Slots : i # head => queue'[i] = queue[i]
    BY DEF Dequeue, HeadCleared, Types
  <2>3. Queued(c)' = Queued(c) - One(queue[head], c)
    BY <2>1, <2>2, TakenQueued
  <2>4. OnlyOf(t, received, received') /\ received'[t] = queue[head] /\ One(received[t], c) = 0
    BY DEF Dequeue, Types, OnlyOf, One
  <2>5. Holders(received', c) = Holders(received, c) + One(queue[head], c)
    BY <2>4, PlaceStep, OneType, ReferencesType
  <2> QED
    BY <2>3, <2>5, OneType, ReferencesType, ReferencesNext DEF References
<1> QED
  BY <1>1, MoveReference

(* The calls of the channel keep the counts.                               *)
LEMMA ChannelCallCounts ==
    ASSUME Shape, Types', Counts, NEW t \in Threads, ChannelCall(t)
    PROVE  Counts'
<1> USE DEF Shape
<1>1. ASSUME NEW b \in Buffers, NEW timeout_ms \in Timeouts, Send(t, b, timeout_ms) PROVE Counts'
  <2>1. sending[t] = NULL
    BY <1>1 DEF Send, LocalsOK, SendingPCs
  <2>2. ASSUME NEW c \in Buffers PROVE References(c)' = References(c) + One(c, b)
    <3>1. OnlyOf(t, sending, sending') /\ sending'[t] = b /\ One(sending[t], c) = 0
      BY <1>1, <2>1 DEF Send, Types, OnlyOf, One
    <3>2. Holders(sending', c) = Holders(sending, c) + One(b, c)
      BY <3>1, PlaceStep, OneType, ReferencesType
    <3>3. Queued(c)' = Queued(c) /\ UNCHANGED <<acquired, received, dropped>>
      BY <1>1, QueuedFrame DEF Send, ringVars, lifeVars
    <3>4. One(b, c) = One(c, b)
      BY DEF One
    <3> QED
      BY <3>2, <3>3, <3>4, OneType, ReferencesType, ReferencesNext DEF References
  <2> QED
    BY <1>1, <2>2, TakeReference DEF Send
<1>2. ASSUME NEW timeout_ms \in Timeouts, Receive(t, timeout_ms) PROVE Counts'
  <2>1. CASE Dequeue(t) /\ count # 0
    <3>1. /\ drained = 0 /\ drained' = 0 /\ received[t] = NULL
          /\ UNCHANGED <<reference_count, buffers_in_use, pool_freed, acquired, sending, dropped, config>>
      BY <1>2 DEF Receive, LifeOK, lifeVars
    <3> QED
      BY <2>1, <3>1, DequeueCounts
  <2>2. CASE UNCHANGED <<queue, head, count, received>>
    BY <1>2, <2>2, QuietCounts DEF Receive, lifeVars
  <2> QED
    BY <1>2, <2>1, <2>2 DEF Receive, ReceiveNothing
<1>3. ASSUME ReleaseReceived(t) PROVE Counts'
  <2>1. received[t] \in Buffers /\ reference_count[received[t]] > 0
    BY <1>3, HeldIsCounted DEF ReleaseReceived
  <2>2. ASSUME NEW c \in Buffers PROVE References(c)' = References(c) - One(c, received[t])
    <3>1. OnlyOf(t, received, received') /\ received'[t] = NULL /\ One(NULL, c) = 0
      BY <1>3 DEF ReleaseReceived, Types, OnlyOf, One
    <3>2. Holders(received', c) = Holders(received, c) - One(received[t], c)
      BY <3>1, PlaceStep, OneType, ReferencesType
    <3>3. Queued(c)' = Queued(c) /\ UNCHANGED <<acquired, sending, dropped>>
      BY <1>3, QueuedFrame DEF ReleaseReceived, ringVars, lifeVars
    <3>4. One(received[t], c) = One(c, received[t])
      BY DEF One
    <3> QED
      BY <3>2, <3>3, <3>4, OneType, ReferencesType, ReferencesNext DEF References
  <2> QED
    BY <1>3, <2>1, <2>2, GiveReference DEF ReleaseReceived
<1>4. CASE Close(t)
  BY <1>4, QuietCounts DEF Close, lifeVars, localVars
<1>5. ASSUME NEW u \in Threads, RetainChannel(t, u) PROVE Counts'
  BY <1>5, QuietCounts DEF RetainChannel, poolVars, ringVars, localVars
<1>6. CASE ReleaseChannel(t)
  BY <1>6, QuietCounts DEF ReleaseChannel, ringVars, localVars
<1> QED
  BY <1>1, <1>2, <1>3, <1>4, <1>5, <1>6 DEF ChannelCall

(* The steps inside a call of the channel keep the counts.                 *)
LEMMA ChannelStepCounts ==
    ASSUME Shape, Types', Counts, NEW t \in Threads, ChannelStep(t)
    PROVE  Counts'
<1> USE DEF Shape
<1>1. ASSUME NEW displace \in BOOLEAN, Enqueue(t, displace), pc[t] \in {"send", "send_woken"},
             displace => count = Capacity, ~displace => count < Capacity,
             UNCHANGED <<reference_count, buffers_in_use, pool_freed, acquired, lifeVars>>
      PROVE  Counts'
  <2>1. drained = 0 /\ drained' = 0 /\ dropped[t] = NULL
    BY <1>1, InsideCall DEF SendPCs, lifeVars, LocalsOK
  <2> QED
    BY <1>1, <2>1, EnqueueCounts
<1>2. ASSUME NEW point, SendAside(t, point),
             UNCHANGED <<reference_count, buffers_in_use, pool_freed, acquired, lifeVars>>
      PROVE  Counts'
  BY <1>2, QuietCounts DEF SendAside, ringVars, lifeVars
<1>3. ASSUME SendLock(t) PROVE Counts'
  <2>1. CASE Enqueue(t, Displaces) /\ (count = Capacity => Displaces)
    <3>1. Displaces \in BOOLEAN /\ (Displaces => count = Capacity) /\ (~Displaces => count < Capacity)
      BY <2>1, CapacityType DEF Displaces, Types
    <3> QED
      BY <1>1, <1>3, <2>1, <3>1 DEF SendLock
  <2> QED
    BY <1>2, <1>3, <2>1 DEF SendLock
<1>4. ASSUME SendResume(t) PROVE Counts'
  BY <1>1, <1>2, <1>4 DEF SendResume
<1>5. ASSUME SendTimeout(t) PROVE Counts'
  BY <1>2, <1>5 DEF SendTimeout
<1>6. ASSUME SendUndo(t) PROVE Counts'
  <2>1. sending[t] \in Buffers /\ reference_count[sending[t]] > 0
    BY <1>6, HeldIsCounted DEF SendUndo, LocalsOK, SendingPCs
  <2>2. ASSUME NEW c \in Buffers PROVE References(c)' = References(c) - One(c, sending[t])
    <3>1. OnlyOf(t, sending, sending') /\ sending'[t] = NULL /\ One(NULL, c) = 0
      BY <1>6 DEF SendUndo, Types, OnlyOf, One
    <3>2. Holders(sending', c) = Holders(sending, c) - One(sending[t], c)
      BY <3>1, PlaceStep, OneType, ReferencesType
    <3>3. Queued(c)' = Queued(c) /\ UNCHANGED <<acquired, received, dropped>>
      BY <1>6, QueuedFrame DEF SendUndo, ringVars, lifeVars
    <3>4. One(sending[t], c) = One(c, sending[t])
      BY DEF One
    <3> QED
      BY <3>2, <3>3, <3>4, OneType, ReferencesType, ReferencesNext DEF References
  <2> QED
    BY <1>6, <2>1, <2>2, GiveReference DEF SendUndo
<1>7. ASSUME SendReleaseDropped(t) PROVE Counts'
  <2>1. dropped[t] \in Buffers /\ reference_count[dropped[t]] > 0
    BY <1>7, HeldIsCounted DEF SendReleaseDropped, LocalsOK
  <2>2. ASSUME NEW c \in Buffers PROVE References(c)' = References(c) - One(c, dropped[t])
    <3>1. OnlyOf(t, dropped, dropped') /\ dropped'[t] = NULL /\ One(NULL, c) = 0
      BY <1>7 DEF SendReleaseDropped, Types, OnlyOf, One
    <3>2. Holders(dropped', c) = Holders(dropped, c) - One(dropped[t], c)
      BY <3>1, PlaceStep, OneType, ReferencesType
    <3>3. Queued(c)' = Queued(c) /\ UNCHANGED <<acquired, received, sending>>
      BY <1>7, QueuedFrame DEF SendReleaseDropped, ringVars, lifeVars
    <3>4. One(dropped[t], c) = One(c, dropped[t])
      BY DEF One
    <3> QED
      BY <3>2, <3>3, <3>4, OneType, ReferencesType, ReferencesNext DEF References
  <2> QED
    BY <1>7, <2>1, <2>2, GiveReference DEF SendReleaseDropped
<1>8. ASSUME ReceiveResume(t) PROVE Counts'
  <2>1. CASE Dequeue(t) /\ count # 0
    <3>1. /\ drained = 0 /\ drained' = 0 /\ received[t] = NULL
          /\ UNCHANGED <<reference_count, buffers_in_use, pool_freed, acquired, sending, dropped, config>>
      BY <1>8, InsideCall DEF ReceiveResume, LocalsOK, ReceivePCs, lifeVars
    <3> QED
      BY <2>1, <3>1, DequeueCounts
  <2>2. CASE UNCHANGED <<queue, head, count, received>>
    BY <1>8, <2>2, QuietCounts DEF ReceiveResume, lifeVars
  <2> QED
    BY <1>8, <2>1, <2>2 DEF ReceiveResume, ReceiveNothing
<1>9. ASSUME ReceiveTimeout(t) PROVE Counts'
  BY <1>9, QuietCounts DEF ReceiveTimeout, ReceiveNothing, lifeVars
<1>10. ASSUME Drain(t) PROVE Counts'
  <2>1. DrainIndex \in Window /\ Window' = Window \ {DrainIndex}
    BY <1>10, DrainWindow
  <2>2. queue[DrainIndex] \in Buffers /\ reference_count[queue[DrainIndex]] > 0
    BY <2>1, HeldIsCounted DEF RingOK
  <2>3. ASSUME NEW c \in Buffers PROVE References(c)' = References(c) - One(c, queue[DrainIndex])
    <3>1. UNCHANGED <<queue, acquired, received, sending, dropped>>
      BY <1>10 DEF Drain, ringVars, localVars
    <3>2. Queued(c)' = Queued(c) - One(queue[DrainIndex], c)
      BY <2>1, <3>1, TakenQueued
    <3>3. One(queue[DrainIndex], c) = One(c, queue[DrainIndex])
      BY DEF One
    <3> QED
      BY <3>1, <3>2, <3>3, OneType, ReferencesType, ReferencesNext DEF References
  <2> QED
    BY <1>10, <2>2, <2>3, GiveReference DEF Drain
<1>11. ASSUME FreeChannel(t) PROVE Counts'
  <2>1. Window = {} /\ Window' = {}
    BY <1>11 DEF FreeChannel, Window, Types
  <2>2. ASSUME NEW c \in Buffers PROVE References(c)' = References(c)
    <3>1. Queued(c)' = Queued(c)
      BY <2>1 DEF Queued
    <3> QED
      BY <1>11, <3>1, ReferencesNext DEF References, FreeChannel, localVars
  <2> QED
    BY <1>11, <2>2, MoveReference DEF FreeChannel
<1> QED
  BY <1>3, <1>4, <1>5, <1>6, <1>7, <1>8, <1>9, <1>10, <1>11 DEF ChannelStep

(* Every step keeps the counts.                                            *)
LEMMA NextCounts ==
    ASSUME Shape, Shape', Counts, [Next]_vars
    PROVE  Counts'
<1>1. Types /\ Types'
  BY DEF Shape
<1>2. CASE UNCHANGED vars
  BY <1>2, QuietCounts DEF vars, poolVars, channelVars, ringVars, lifeVars, localVars
<1>3. ASSUME NEW t \in Threads, WaitStep(t) \/ Environment(t) PROVE Counts'
  BY <1>3, QuietCounts DEF WaitStep, Environment, PoolStep, WaitIdleResume, WaitIdleTimeout, TimeOut,
        Expire, WakeSpuriously, channelVars, ringVars, lifeVars, localVars
<1> QED
  BY <1>1, <1>2, <1>3, PoolCallCounts, ChannelCallCounts, ChannelStepCounts DEF Next

(* The initial states have exact counts.                                   *)
LEMMA InitCounts ==
    Init => Counts
<1> SUFFICES ASSUME Init PROVE Counts
  OBVIOUS
<1> USE DEF Init, PoolInit
<1>1. ASSUME NEW b \in Buffers PROVE References(b) = 0
  <2>1. \A f : (\A t \in Threads : f[t] # b) => Holders(f, b) = 0
    <3> SUFFICES ASSUME NEW f, \A t \in Threads : f[t] # b PROVE Holders(f, b) = 0
      OBVIOUS
    <3>1. {t \in Threads : f[t] = b} = {}
      OBVIOUS
    <3> QED
      BY <3>1, FS_EmptySet DEF Holders
  <2>2. Queued(b) = 0
    <3>1. {i \in Window : queue[i] = b} = {}
      BY DEF Window
    <3> QED
      BY <3>1, FS_EmptySet DEF Queued
  <2> QED
    BY <2>1, <2>2 DEF References
<1>2. {b \in Buffers : reference_count[b] > 0} = {}
  OBVIOUS
<1> QED
  BY <1>1, <1>2, FS_EmptySet DEF Counts, BuffersInUseExact

(* The counts are exact in every reachable state.                          *)
LEMMA CountsInvariant == Spec => []Counts
  BY NextCounts, InitCounts, ShapeInvariant, PTL DEF Spec

-----------------------------------------------------------------------------
(* Across sys_channel_send's retain, the ring, the displaced message, its  *)
(* receiver and the drain of the last sys_channel_release, a buffer has as *)
(* many references as there are places that hold one, and buffers_in_use   *)
(* is the number of blocks with a reference.                               *)
THEOREM ReferencesAreExact == Spec => []ReferenceCountsExact
<1>1. Counts => ReferenceCountsExact
  BY DEF Counts, References, ReferenceCountsExact
<1> QED
  BY <1>1, CountsInvariant, PTL

(* Every variable keeps to its type: in particular buffers_in_use and the  *)
(* reference counts never wrap, whatever the number of threads, blocks and *)
(* slots.                                                                  *)
THEOREM TypeCorrect == Spec => []TypeOK
<1>1. Shape /\ Counts => TypeOK
  <2> SUFFICES ASSUME Shape, Counts PROVE TypeOK
    OBVIOUS
  <2>1. buffers_in_use \in 0..Cardinality(Buffers)
    <3> DEFINE inUse == {b \in Buffers : reference_count[b] > 0}
    <3>1. IsFiniteSet(inUse) /\ Cardinality(inUse) <= Cardinality(Buffers)
      BY FS_Subset
    <3>2. Cardinality(inUse) \in Nat /\ Cardinality(Buffers) \in Nat
      BY <3>1, FS_CardinalityType
    <3>3. buffers_in_use = Cardinality(inUse)
      BY DEF Counts, BuffersInUseExact
    <3> HIDE DEF inUse
    <3> QED
      BY <3>1, <3>2, <3>3
  <2> QED
    BY <2>1 DEF TypeOK, Shape, Types
<1> QED
  BY <1>1, ShapeInvariant, CountsInvariant, PTL

(* sys_channel_send, sys_channel_receive and the full policies lose no     *)
(* message that is not counted in stats.dropped.                           *)
THEOREM MessagesAreConserved == Spec => []MessagesConserved
<1>1. Shape => MessagesConserved
  BY DEF Shape, RingOK
<1> QED
  BY <1>1, ShapeInvariant, PTL

(* The channel is freed when nobody is inside a call of it or will make    *)
(* one, and a pool that sys_buffer_pool_destroy has freed is referenced    *)
(* from nowhere.                                                           *)
THEOREM FreedIsUntouched == Spec => []NoUseAfterFree
<1>1. Shape => ChannelOutlivesCalls
  <2> SUFFICES ASSUME Shape, channel_freed \/ At("drain") # {} PROVE ChannelOutlivesCalls
    BY DEF ChannelOutlivesCalls
  <2>1. channel_users = {} /\ \A t \in Threads : pc[t] \notin SendPCs \union ReceivePCs
    BY DEF Shape, LifeOK, At
  <2>2. Cardinality(At("drain")) <= 1
    <3>1. CASE At("drain") = {}
      BY <3>1, FS_EmptySet
    <3>2. CASE At("drain") # {}
      <4>1. PICK t : At("drain") = {t}
        BY <3>2 DEF Shape, LifeOK, At
      <4> QED
        BY <4>1, FS_Singleton
    <3> QED
      BY <3>1, <3>2
  <2> QED
    BY <2>1, <2>2 DEF ChannelOutlivesCalls, SendPCs
<1>2. Shape /\ Counts => PoolOutlivesReferences
  <2> SUFFICES ASSUME Shape, Counts, pool_freed PROVE PoolOutlivesReferences
    BY DEF PoolOutlivesReferences
  <2>1. {b \in Buffers : reference_count[b] > 0} = {}
    <3>1. IsFiniteSet({b \in Buffers : reference_count[b] > 0})
      BY FS_Subset
    <3> QED
      BY <3>1, FS_EmptySet DEF Counts, BuffersInUseExact
  <2> QED
    BY <2>1, HeldIsCounted DEF PoolOutlivesReferences, Shape, Types
<1> QED
  BY <1>1, <1>2, ShapeInvariant, CountsInvariant, PTL DEF NoUseAfterFree

-----------------------------------------------------------------------------
(* A place to sleep, with the program counters p: while a thread sleeps    *)
(* there the channel is open, and n occasions to go on have n woken        *)
(* threads on their way.                                                   *)
Awaited(p, sleep, woken, n, shut) ==
    (\E t \in Threads : p[t] = sleep) => ~shut /\ n <= Holders(p, woken)

(* The inductive invariant: for the messages, the free slots and the idle  *)
(* pool.                                                                   *)
MessagesAwaited(p, n, shut) == Awaited(p, "recv_sleep", "recv_woken", n, shut)
RoomAwaited(p, n, shut) == Awaited(p, "send_sleep", "send_woken", n, shut)
IdleAwaited(p, n) == n = 0 => \A t \in Threads : p[t] # "wait_sleep"

AllAwaited(p, messages, room, shut, used) ==
    /\ MessagesAwaited(p, messages, shut)
    /\ RoomAwaited(p, room, shut)
    /\ IdleAwaited(p, used)

Awake == AllAwaited(pc, count, Capacity - count, closed, buffers_in_use)

(* A signal wakes one sleeper, if there is one.                            *)
LEMMA SignalMoves ==
    ASSUME NEW S, NEW p \in [Threads -> S], NEW from, NEW to, NEW q \in Signal(p, from, to)
    PROVE  \A t \in Threads : q[t] = p[t] \/ (p[t] = from /\ q[t] = to)
<1>1. ASSUME NEW u \in Threads, p[u] = from, q = [p EXCEPT ![u] = to], NEW t \in Threads
      PROVE  q[t] = p[t] \/ (p[t] = from /\ q[t] = to)
  <2>1. q[t] = IF t = u THEN to ELSE p[t]
    BY <1>1
  <2> QED
    BY <1>1, <2>1
<1>2. q = p \/ \E u \in Threads : p[u] = from /\ q = [p EXCEPT ![u] = to]
  BY SignalEffect
<1> QED
  BY <1>1, <1>2

(* pthread_cond_signal on the condition variable of a new occasion.        *)
LEMMA SignalAwaited ==
    ASSUME NEW S, NEW p \in [Threads -> S], NEW sleep, NEW woken, sleep # woken,
           NEW n \in Int, NEW shut, Awaited(p, sleep, woken, n, shut),
           NEW q \in Signal(p, sleep, woken)
    PROVE  Awaited(q, sleep, woken, n + 1, shut)
<1>1. CASE q = p /\ \A t \in Threads : p[t] # sleep
  BY <1>1 DEF Awaited
<1>2. ASSUME NEW t \in Threads, p[t] = sleep, q = [p EXCEPT ![t] = woken]
      PROVE  Awaited(q, sleep, woken, n + 1, shut)
  <2>1. OnlyOf(t, p, q) /\ q[t] = woken
    BY <1>2 DEF OnlyOf
  <2>2. Holders(q, woken) = Holders(p, woken) - One(p[t], woken) + One(q[t], woken)
    BY <2>1, HoldersStep
  <2>3. One(p[t], woken) = 0 /\ One(q[t], woken) = 1 /\ Holders(p, woken) \in Nat
    BY <1>2, <2>1, HoldersType DEF One
  <2> QED
    BY <1>2, <2>2, <2>3 DEF Awaited
<1> QED
  BY <1>1, <1>2, SignalEffect

(* Steps of threads that neither sleep there nor were woken there.         *)
LEMMA OthersAwaited ==
    ASSUME NEW p, NEW q, NEW sleep, NEW woken, NEW n, NEW shut, Awaited(p, sleep, woken, n, shut),
           \A t \in Threads : (q[t] = sleep => p[t] = sleep) /\ (q[t] = woken <=> p[t] = woken)
    PROVE  Awaited(q, sleep, woken, n, shut)
<1>1. {t \in Threads : q[t] = woken} = {t \in Threads : p[t] = woken}
  OBVIOUS
<1>2. Holders(q, woken) = Holders(p, woken)
  BY <1>1 DEF Holders
<1> QED
  BY <1>2 DEF Awaited

(* One thread moves, and the number of occasions changes with it.          *)
LEMMA MoveAwaited ==
    ASSUME NEW p, NEW q, NEW t \in Threads, OnlyOf(t, p, q), NEW sleep, NEW woken,
           NEW n \in Int, NEW m \in Int, NEW shut, Awaited(p, sleep, woken, n, shut),
           q[t] = sleep => ~shut /\ m <= 0,
           shut \/ m <= 0 \/ m <= n - One(p[t], woken) + One(q[t], woken)
    PROVE  Awaited(q, sleep, woken, m, shut)
<1> SUFFICES ASSUME NEW u \in Threads, q[u] = sleep
             PROVE  ~shut /\ m <= Holders(q, woken)
  BY DEF Awaited
<1>1. Holders(q, woken) = Holders(p, woken) - One(p[t], woken) + One(q[t], woken)
  BY HoldersStep
<1>2. Holders(q, woken) \in Nat /\ Holders(p, woken) \in Nat
  BY HoldersType
<1>3. CASE u = t
  BY <1>2, <1>3
<1>4. CASE u # t
  <2>1. ~shut /\ n <= Holders(p, woken)
    BY <1>4 DEF Awaited, OnlyOf
  <2> QED
    BY <1>1, <1>2, <2>1, OneType
<1> QED
  BY <1>3, <1>4

-----------------------------------------------------------------------------
(* The wakeups of the channel and of the pool, on all three.               *)
LEMMA WakeupsAwaited ==
    ASSUME NEW S, NEW p \in [Threads -> S], NEW n \in Int, NEW m \in Int, NEW shut, NEW k
    PROVE  /\ AllAwaited(p, n, m, shut, k) =>
                  \A q \in SignalNotEmpty(p) : AllAwaited(q, n + 1, m, shut, k)
           /\ AllAwaited(p, n, m, shut, k) =>
                  \A q \in SignalNotFull(p) : AllAwaited(q, n, m + 1, shut, k)
           /\ IdleAwaited(p, k) => AllAwaited(WakeCallers(p), n, m, TRUE, k)
           /\ \A j : AllAwaited(p, n, m, shut, j) => AllAwaited(WakeIdleWaiters(p), n, m, shut, k)
<1> USE DEF AllAwaited, MessagesAwaited, RoomAwaited, IdleAwaited
<1>1. ASSUME AllAwaited(p, n, m, shut, k), NEW q \in SignalNotEmpty(p)
      PROVE  AllAwaited(q, n + 1, m, shut, k)
  <2>1. MessagesAwaited(q, n + 1, shut)
    BY <1>1, SignalAwaited DEF SignalNotEmpty
  <2>2. \A t \in Threads : q[t] = p[t] \/ (p[t] = "recv_sleep" /\ q[t] = "recv_woken")
    BY <1>1, SignalMoves DEF SignalNotEmpty
  <2>3. RoomAwaited(q, m, shut) /\ IdleAwaited(q, k)
    BY <1>1, <2>2, OthersAwaited
  <2> QED
    BY <2>1, <2>3
<1>2. ASSUME AllAwaited(p, n, m, shut, k), NEW q \in SignalNotFull(p)
      PROVE  AllAwaited(q, n, m + 1, shut, k)
  <2>1. RoomAwaited(q, m + 1, shut)
    BY <1>2, SignalAwaited DEF SignalNotFull
  <2>2. \A t \in Threads : q[t] = p[t] \/ (p[t] = "send_sleep" /\ q[t] = "send_woken")
    BY <1>2, SignalMoves DEF SignalNotFull
  <2>3. MessagesAwaited(q, n, shut) /\ IdleAwaited(q, k)
    BY <1>2, <2>2, OthersAwaited
  <2> QED
    BY <2>1, <2>3
<1>3. ASSUME IdleAwaited(p, k) PROVE AllAwaited(WakeCallers(p), n, m, TRUE, k)
  BY <1>3 DEF WakeCallers, Broadcast, Awaited
<1>4. ASSUME NEW j, AllAwaited(p, n, m, shut, j)
      PROVE  AllAwaited(WakeIdleWaiters(p), n, m, shut, k)
  <2>1. \A t \in Threads : IF p[t] = "wait_sleep" THEN WakeIdleWaiters(p)[t] = "wait_woken"
                                                  ELSE WakeIdleWaiters(p)[t] = p[t]
    BY DEF WakeIdleWaiters, Broadcast
  <2>2. IdleAwaited(WakeIdleWaiters(p), k)
    BY <2>1
  <2>3. MessagesAwaited(WakeIdleWaiters(p), n, shut)
    BY <1>4, <2>1, OthersAwaited
  <2>4. RoomAwaited(WakeIdleWaiters(p), m, shut)
    BY <1>4, <2>1, OthersAwaited
  <2> QED
    BY <2>2, <2>3, <2>4
<1> QED
  BY <1>1, <1>2, <1>3, <1>4

(* A thread that goes where nobody sleeps or is woken, from anywhere but a *)
(* place where a wakeup has put it.                                        *)
SleepPCs == {"recv_sleep", "send_sleep", "wait_sleep"}
WokenPCs == {"recv_woken", "send_woken"}

(* A step that puts no thread to sleep and takes nothing that is awaited.  *)
LEMMA OrdinaryStep ==
    ASSUME NEW p, NEW q, NEW t \in Threads, OnlyOf(t, p, q), NEW n, NEW m, NEW shut, NEW k,
           AllAwaited(p, n, m, shut, k), p[t] \notin WokenPCs, q[t] \notin SleepPCs \union WokenPCs
    PROVE  AllAwaited(q, n, m, shut, k)
<1>1. \A x : x # q[t] /\ x # p[t] => \A u \in Threads : q[u] = x <=> p[u] = x
  BY DEF OnlyOf
<1>2. \A u \in Threads : /\ q[u] = "recv_sleep" => p[u] = "recv_sleep"
                         /\ q[u] = "send_sleep" => p[u] = "send_sleep"
                         /\ q[u] = "wait_sleep" => p[u] = "wait_sleep"
                         /\ q[u] = "recv_woken" <=> p[u] = "recv_woken"
                         /\ q[u] = "send_woken" <=> p[u] = "send_woken"
  BY DEF OnlyOf, SleepPCs, WokenPCs
<1>3. MessagesAwaited(q, n, shut)
  BY <1>2, OthersAwaited DEF AllAwaited, MessagesAwaited
<1>4. RoomAwaited(q, m, shut)
  BY <1>2, OthersAwaited DEF AllAwaited, RoomAwaited
<1> QED
  BY <1>2, <1>3, <1>4 DEF AllAwaited, IdleAwaited

(* A release keeps every sleeper's reason: the last reference wakes the    *)
(* waiters.                                                                *)
LEMMA ReleaseAwaited ==
    ASSUME NEW S, NEW p \in [Threads -> S], NEW n \in Int, NEW m \in Int, NEW shut, NEW b,
           BufferRelease(b, p), AllAwaited(p, n, m, shut, buffers_in_use)
    PROVE  AllAwaited(pc', n, m, shut, buffers_in_use')
<1>1. CASE IsLast(b)
  <2>1. pc' = WakeIdleWaiters(p)
    BY <1>1 DEF BufferRelease
  <2> QED
    BY <2>1, WakeupsAwaited
<1>2. CASE ~IsLast(b)
  <2>1. pc' = p /\ buffers_in_use' = buffers_in_use
    BY <1>2 DEF BufferRelease
  <2> QED
    BY <2>1
<1> QED
  BY <1>1, <1>2

-----------------------------------------------------------------------------
(* A send enters the ring: one message more, and one free slot less unless *)
(* it displaces one.                                                       *)
LEMMA EnqueueAwake ==
    ASSUME Types, Awake, NEW t \in Threads, NEW displace \in BOOLEAN, Enqueue(t, displace),
           pc[t] \in {"send", "send_woken"},
           displace => count = Capacity, ~displace => count < Capacity,
           UNCHANGED buffers_in_use
    PROVE  Awake'
<1> DEFINE p == [pc EXCEPT ![t] = IF displace THEN "drop" ELSE "ready"]
           messages == count' - 1
           room == Capacity - count'
<1>1. /\ p \in [Threads -> PoolPCs \union ChannelPCs] /\ OnlyOf(t, pc, p)
      /\ p[t] = IF displace THEN "drop" ELSE "ready"
  BY DEF Types, PoolPCs, ChannelPCs, SendPCs, OnlyOf
<1>2. /\ Capacity' = Capacity /\ closed' = closed /\ pc' \in SignalNotEmpty(p)
      /\ count' = (IF displace THEN count ELSE count + 1)
      /\ Capacity \in Nat /\ count \in Nat
  BY CapacityType DEF Enqueue, Capacity, Types
<1>3. messages \in Int /\ room \in Int /\ messages <= count
  BY <1>2
<1> HIDE DEF p
<1>4. MessagesAwaited(p, messages, closed)
  <2>1. p[t] # "recv_sleep" /\ One(pc[t], "recv_woken") = 0 /\ One(p[t], "recv_woken") = 0
    BY <1>1 DEF One
  <2>2. messages <= count - One(pc[t], "recv_woken") + One(p[t], "recv_woken")
    BY <1>2, <1>3, <2>1
  <2> HIDE DEF messages
  <2> QED
    BY <1>1, <1>2, <1>3, <2>1, <2>2, MoveAwaited DEF Awake, AllAwaited, MessagesAwaited
<1>5. RoomAwaited(p, room, closed)
  <2>1. p[t] # "send_sleep" /\ One(p[t], "send_woken") = 0
    BY <1>1 DEF One
  <2>2. room <= 0 \/ room <= Capacity - count - One(pc[t], "send_woken") + One(p[t], "send_woken")
    BY <1>2, <2>1, OneType
  <2>3. Capacity - count \in Int
    BY <1>2
  <2> HIDE DEF room
  <2> QED
    BY <1>1, <1>3, <2>1, <2>2, <2>3, MoveAwaited DEF Awake, AllAwaited, RoomAwaited
<1>6. IdleAwaited(p, buffers_in_use)
  BY <1>1 DEF Awake, AllAwaited, IdleAwaited, OnlyOf
<1>7. AllAwaited(pc', messages + 1, room, closed, buffers_in_use)
  BY <1>1, <1>2, <1>3, <1>4, <1>5, <1>6, WakeupsAwaited DEF AllAwaited
<1>8. messages + 1 = count'
  BY <1>2
<1> QED
  BY <1>2, <1>7, <1>8 DEF Awake

(* A receive leaves the ring: one message less, one free slot more.        *)
LEMMA DequeueAwake ==
    ASSUME Types, Awake, NEW t \in Threads, Dequeue(t), pc[t] \in {"ready", "recv_woken"},
           UNCHANGED <<buffers_in_use, config, closed>>
    PROVE  Awake'
<1> DEFINE p == [pc EXCEPT ![t] = "ready"]
           messages == count'
           room == Capacity - count' - 1
<1>1. /\ p \in [Threads -> PoolPCs \union ChannelPCs] /\ OnlyOf(t, pc, p) /\ p[t] = "ready"
  BY DEF Types, PoolPCs, OnlyOf
<1>2. /\ Capacity' = Capacity /\ closed' = closed /\ pc' \in SignalNotFull(p)
      /\ count' = count - 1 /\ Capacity \in Nat /\ count \in Nat
  BY CapacityType DEF Dequeue, Capacity, Types, Returned
<1>3. messages \in Int /\ room \in Int
  BY <1>2
<1> HIDE DEF p
<1>4. MessagesAwaited(p, messages, closed)
  <2>1. p[t] # "recv_sleep" /\ One(p[t], "recv_woken") = 0
    BY <1>1 DEF One
  <2>2. messages <= count - One(pc[t], "recv_woken") + One(p[t], "recv_woken")
    BY <1>2, <2>1, OneType
  <2> HIDE DEF messages
  <2> QED
    BY <1>1, <1>2, <1>3, <2>1, <2>2, MoveAwaited DEF Awake, AllAwaited, MessagesAwaited
<1>5. RoomAwaited(p, room, closed)
  <2>1. p[t] # "send_sleep" /\ One(pc[t], "send_woken") = 0 /\ One(p[t], "send_woken") = 0
    BY <1>1 DEF One
  <2>2. room <= Capacity - count - One(pc[t], "send_woken") + One(p[t], "send_woken")
    BY <1>2, <2>1
  <2>3. Capacity - count \in Int
    BY <1>2
  <2> HIDE DEF room
  <2> QED
    BY <1>1, <1>3, <2>1, <2>2, <2>3, MoveAwaited DEF Awake, AllAwaited, RoomAwaited
<1>6. IdleAwaited(p, buffers_in_use)
  BY <1>1 DEF Awake, AllAwaited, IdleAwaited, OnlyOf
<1>7. AllAwaited(pc', messages, room + 1, closed, buffers_in_use)
  BY <1>1, <1>2, <1>3, <1>4, <1>5, <1>6, WakeupsAwaited DEF AllAwaited
<1>8. room + 1 = Capacity - count'
  BY <1>2
<1> QED
  BY <1>2, <1>7, <1>8 DEF Awake

(* A thread goes to sleep, or on, when there is no message, no room, or a  *)
(* block in use.                                                           *)
LEMMA StepAwake ==
    ASSUME Types, Awake, NEW t \in Threads, OnlyOf(t, pc, pc'),
           UNCHANGED <<config, count, closed, buffers_in_use>>,
           pc'[t] = "recv_sleep" => ~closed /\ count = 0,
           pc'[t] = "send_sleep" => ~closed /\ count = Capacity,
           pc'[t] = "wait_sleep" => buffers_in_use # 0,
           pc[t] = "recv_woken" => closed \/ count = 0,
           pc[t] = "send_woken" => closed \/ count = Capacity
    PROVE  Awake'
<1>1. /\ Capacity' = Capacity /\ Capacity \in Nat /\ count \in Nat
      /\ Capacity - count \in Int
  BY CapacityType DEF Capacity, Types
<1>2. MessagesAwaited(pc', count, closed)
  <2>1. closed \/ count <= 0 \/ count <= count - One(pc[t], "recv_woken") + One(pc'[t], "recv_woken")
    BY <1>1 DEF One
  <2>2. pc'[t] = "recv_sleep" => ~closed /\ count <= 0
    BY <1>1
  <2> QED
    BY <1>1, <2>1, <2>2, MoveAwaited DEF Awake, AllAwaited, MessagesAwaited
<1>3. RoomAwaited(pc', Capacity - count, closed)
  <2> DEFINE room == Capacity - count
  <2>1. closed \/ room <= 0 \/ room <= room - One(pc[t], "send_woken") + One(pc'[t], "send_woken")
    BY <1>1 DEF One
  <2>2. pc'[t] = "send_sleep" => ~closed /\ room <= 0
    BY <1>1
  <2>3. room \in Int /\ Awaited(pc, "send_sleep", "send_woken", room, closed)
    BY <1>1 DEF Awake, AllAwaited, RoomAwaited
  <2> HIDE DEF room
  <2>4. Awaited(pc', "send_sleep", "send_woken", room, closed)
    BY <2>1, <2>2, <2>3, MoveAwaited
  <2> QED
    BY <2>4 DEF RoomAwaited, room
<1>4. IdleAwaited(pc', buffers_in_use)
  BY DEF Awake, AllAwaited, IdleAwaited, OnlyOf
<1> QED
  BY <1>1, <1>2, <1>3, <1>4 DEF Awake, AllAwaited

(* The calls of the pool keep every sleeper's reason to sleep.             *)
LEMMA PoolAwake ==
    ASSUME Types, buffers_in_use \in Nat, Awake, NEW t \in Threads,
           PoolCall(t) \/ WaitStep(t) \/ Environment(t)
    PROVE  Awake'
<1>1. UNCHANGED <<config, count, closed>> /\ Capacity' = Capacity /\ {count, Capacity - count} \subseteq Int
  BY CapacityType DEF PoolCall, WaitStep, Environment, channelVars, ringVars, Capacity, Types
<1>2. ASSUME pc' = pc, buffers_in_use' = buffers_in_use \/ buffers_in_use' # 0 PROVE Awake'
  BY <1>1, <1>2 DEF Awake, AllAwaited, IdleAwaited
<1>3. ASSUME NEW x, pc' = [pc EXCEPT ![t] = x], UNCHANGED buffers_in_use,
             x \notin {"recv_sleep", "send_sleep"}, pc[t] \notin WokenPCs,
             x = "wait_sleep" => buffers_in_use # 0
      PROVE  Awake'
  <2>1. OnlyOf(t, pc, pc') /\ pc'[t] = x
    BY <1>3 DEF Types, OnlyOf
  <2> QED
    BY <1>1, <1>3, <2>1, StepAwake DEF WokenPCs
<1>4. CASE PoolCall(t)
  <2>1. CASE \E b \in Buffers : AcquireBuffer(t, b)
    BY <1>2, <2>1 DEF AcquireBuffer
  <2>2. CASE \E u \in Threads : ShareBuffer(t, u)
    BY <1>2, <2>2 DEF ShareBuffer, BufferRetain
  <2>3. CASE ReleaseAcquired(t)
    BY <1>1, <2>3, ReleaseAwaited DEF ReleaseAcquired, Awake, Types
  <2>4. CASE \E timeout_ms \in Timeouts : WaitIdle(t, timeout_ms)
    BY <1>3, <2>4 DEF WaitIdle, PoolIdle, WokenPCs
  <2>5. CASE DestroyPool(t)
    BY <1>2, <2>5 DEF DestroyPool
  <2> QED
    BY <1>4, <2>1, <2>2, <2>3, <2>4, <2>5 DEF PoolCall
<1>5. CASE WaitStep(t)
  BY <1>3, <1>5 DEF WaitStep, PoolStep, WaitIdleResume, WaitIdleTimeout, TimeOut, PoolIdle, WokenPCs, Blocked
<1>6. CASE Environment(t)
  BY <1>2, <1>3, <1>6 DEF Environment, Expire, WakeSpuriously, WokenPCs
<1> QED
  BY <1>4, <1>5, <1>6

(* The calls of the channel keep it.                                       *)
LEMMA ChannelCallAwake ==
    ASSUME Types, Awake, NEW t \in Threads, ChannelCall(t)
    PROVE  Awake'
<1>1. Capacity' = Capacity /\ {count, Capacity - count} \subseteq Int
  <2>1. config' = config
    BY DEF ChannelCall, Send, Receive, ReleaseReceived, Close, RetainChannel, ReleaseChannel, ringVars
  <2> QED
    BY <2>1, CapacityType DEF Capacity, Types
<1>2. ASSUME NEW x, pc' = [pc EXCEPT ![t] = x], UNCHANGED <<config, count, closed, buffers_in_use>>,
             pc[t] = "ready", x \notin {"send_sleep", "wait_sleep"},
             x = "recv_sleep" => ~closed /\ count = 0
      PROVE  Awake'
  <2>1. OnlyOf(t, pc, pc') /\ pc'[t] = x
    BY <1>2 DEF Types, OnlyOf
  <2> QED
    BY <1>2, <2>1, StepAwake
<1>3. ASSUME NEW b \in Buffers, NEW timeout_ms \in Timeouts, Send(t, b, timeout_ms) PROVE Awake'
  <2>1. /\ OnlyOf(t, pc, pc') /\ pc'[t] = "send" /\ pc[t] = "ready"
        /\ UNCHANGED <<config, count, closed, buffers_in_use>>
    BY <1>3 DEF Send, BufferRetain, ringVars, OnlyOf, Types
  <2> QED
    BY <2>1, StepAwake
<1>4. ASSUME NEW timeout_ms \in Timeouts, Receive(t, timeout_ms) PROVE Awake'
  <2>1. CASE Dequeue(t)
    BY <1>4, <2>1, DequeueAwake DEF Receive
  <2>2. CASE ReceiveNothing(t, "ready")
    BY <1>2, <1>4, <2>2 DEF Receive, ReceiveNothing
  <2>3. CASE ReceiveNothing(t, "recv_sleep") /\ ~closed /\ count = 0
    BY <1>2, <1>4, <2>3 DEF Receive, ReceiveNothing
  <2> QED
    BY <1>4, <2>1, <2>2, <2>3 DEF Receive
<1>5. CASE ReleaseReceived(t)
  BY <1>1, <1>5, ReleaseAwaited DEF ReleaseReceived, ringVars, Awake, Types
<1>6. CASE Close(t)
  <2>1. AllAwaited(WakeCallers(pc), count, Capacity - count, TRUE, buffers_in_use)
    BY <1>1, WakeupsAwaited DEF Awake, AllAwaited, Types
  <2> QED
    BY <1>1, <1>6, <2>1 DEF Close, Awake
<1>7. CASE \E u \in Threads : RetainChannel(t, u)
  BY <1>1, <1>7 DEF RetainChannel, ringVars, poolVars, Awake
<1>8. CASE ReleaseChannel(t)
  <2>1. CASE IsLastChannelReference
    <3>1. /\ OnlyOf(t, pc, pc') /\ pc'[t] = "drain" /\ pc[t] = "ready"
          /\ UNCHANGED <<config, count, closed, buffers_in_use>>
      BY <1>8, <2>1 DEF ReleaseChannel, ringVars, OnlyOf, Types
    <3> QED
      BY <3>1, StepAwake
  <2>2. CASE ~IsLastChannelReference
    BY <1>1, <1>8, <2>2 DEF ReleaseChannel, ringVars, Awake, Types
  <2> QED
    BY <2>1, <2>2
<1> QED
  BY <1>3, <1>4, <1>5, <1>6, <1>7, <1>8 DEF ChannelCall

(* The steps inside a call of the channel keep it.                         *)
LEMMA ChannelStepAwake ==
    ASSUME Types, LifeOK, Awake, NEW t \in Threads, ChannelStep(t)
    PROVE  Awake'
<1>1. Capacity' = Capacity /\ {count, Capacity - count} \subseteq Int
  <2>1. config' = config
    BY DEF ChannelStep, SendLock, SendResume, SendTimeout, SendUndo, SendReleaseDropped, ReceiveResume,
           ReceiveTimeout, Drain, FreeChannel, Enqueue, SendAside, ringVars
  <2> QED
    BY <2>1, CapacityType DEF Capacity, Types
<1>2. ASSUME NEW x, pc' = [pc EXCEPT ![t] = x], UNCHANGED <<config, count, closed, buffers_in_use>>,
             x # "wait_sleep",
             pc[t] = "recv_woken" => closed \/ count = 0,
             pc[t] = "send_woken" => closed \/ count = Capacity,
             x = "recv_sleep" => ~closed /\ count = 0,
             x = "send_sleep" => ~closed /\ count = Capacity
      PROVE  Awake'
  <2>1. OnlyOf(t, pc, pc') /\ pc'[t] = x
    BY <1>2 DEF Types, OnlyOf
  <2> QED
    BY <1>2, <2>1, StepAwake
<1>3. ASSUME NEW b, NEW x \in {"ready", "drop"}, BufferRelease(b, [pc EXCEPT ![t] = x]),
             pc[t] \in {"undo", "drop"}, UNCHANGED <<config, count, closed>>
      PROVE  Awake'
  <2> DEFINE p == [pc EXCEPT ![t] = x]
  <2>1. /\ p \in [Threads -> PoolPCs \union ChannelPCs] /\ OnlyOf(t, pc, p)
        /\ p[t] \notin SleepPCs \union WokenPCs /\ pc[t] \notin WokenPCs
    BY <1>3 DEF Types, PoolPCs, ChannelPCs, SendPCs, OnlyOf, SleepPCs, WokenPCs
  <2> HIDE DEF p
  <2>2. AllAwaited(p, count, Capacity - count, closed, buffers_in_use)
    BY <2>1, OrdinaryStep DEF Awake
  <2>3. BufferRelease(b, p)
    BY <1>3 DEF p
  <2> QED
    BY <1>1, <1>3, <2>1, <2>2, <2>3, ReleaseAwaited DEF Awake
<1>4. ASSUME SendLock(t) PROVE Awake'
  <2>1. CASE Enqueue(t, Displaces) /\ (count = Capacity => Displaces)
    <3>1. Displaces \in BOOLEAN /\ (Displaces => count = Capacity) /\ (~Displaces => count < Capacity)
      BY <2>1, CapacityType DEF Displaces, Types
    <3> QED
      BY <1>4, <2>1, <3>1, EnqueueAwake DEF SendLock
  <2>2. CASE SendAside(t, "undo")
    BY <1>2, <1>4, <2>2 DEF SendLock, SendAside, ringVars
  <2>3. CASE ~closed /\ count = Capacity /\ SendAside(t, Blocked(t, "send_sleep", "send_timedout"))
    BY <1>2, <1>4, <2>3 DEF SendLock, SendAside, Blocked, ringVars
  <2> QED
    BY <1>4, <2>1, <2>2, <2>3 DEF SendLock
<1>5. ASSUME SendResume(t) PROVE Awake'
  <2>1. CASE Enqueue(t, FALSE) /\ count < Capacity
    BY <1>5, <2>1, EnqueueAwake, CapacityType DEF SendResume, Types
  <2>2. CASE closed /\ SendAside(t, "undo")
    BY <1>2, <1>5, <2>2 DEF SendResume, SendAside, ringVars
  <2>3. CASE ~closed /\ count = Capacity /\ SendAside(t, Blocked(t, "send_sleep", "send_timedout"))
    BY <1>2, <1>5, <2>3 DEF SendResume, SendAside, Blocked, ringVars
  <2> QED
    BY <1>5, <2>1, <2>2, <2>3 DEF SendResume
<1>6. CASE SendTimeout(t)
  BY <1>2, <1>6 DEF SendTimeout, SendAside, ringVars
<1>7. CASE SendUndo(t)
  <2>1. (IF dropped[t] = NULL THEN "ready" ELSE "drop") \in {"ready", "drop"}
    OBVIOUS
  <2> QED
    BY <1>3, <1>7, <2>1 DEF SendUndo, ringVars
<1>8. CASE SendReleaseDropped(t)
  BY <1>3, <1>8 DEF SendReleaseDropped, Returned, ringVars
<1>9. ASSUME ReceiveResume(t) PROVE Awake'
  <2>1. CASE Dequeue(t)
    BY <1>9, <2>1, DequeueAwake DEF ReceiveResume
  <2>2. CASE count = 0 /\ closed /\ ReceiveNothing(t, "ready")
    BY <1>2, <1>9, <2>2 DEF ReceiveResume, ReceiveNothing
  <2>3. CASE count = 0 /\ ~closed /\ ReceiveNothing(t, Blocked(t, "recv_sleep", "recv_timedout"))
    BY <1>2, <1>9, <2>3 DEF ReceiveResume, ReceiveNothing, Blocked
  <2> QED
    BY <1>9, <2>1, <2>2, <2>3 DEF ReceiveResume
<1>10. CASE ReceiveTimeout(t)
  BY <1>2, <1>10 DEF ReceiveTimeout, ReceiveNothing
<1>11. CASE Drain(t)
  BY <1>1, <1>11, ReleaseAwaited DEF Drain, ringVars, Awake, Types
<1>12. CASE FreeChannel(t)
  <2>1. \A u \in Threads : pc'[u] \notin {"recv_sleep", "send_sleep"}
                           /\ (pc'[u] = "wait_sleep" => pc[u] = "wait_sleep")
    BY <1>12 DEF FreeChannel, LifeOK, SendPCs, ReceivePCs, Returned, Types
  <2>2. buffers_in_use' = buffers_in_use
    BY <1>12 DEF FreeChannel
  <2> QED
    BY <2>1, <2>2 DEF Awake, AllAwaited, MessagesAwaited, RoomAwaited, IdleAwaited, Awaited
<1> QED
  BY <1>4, <1>5, <1>6, <1>7, <1>8, <1>9, <1>10, <1>11, <1>12 DEF ChannelStep

(* Every sleeper has a reason to sleep in every reachable state.           *)
LEMMA AwakeInvariant == Spec => []Awake
<1>1. Init => Awake
  BY DEF Init, PoolInit, Awake, AllAwaited, MessagesAwaited, RoomAwaited, IdleAwaited, Awaited
<1>2. Shape /\ TypeOK /\ Awake /\ [Next]_vars => Awake'
  <2> SUFFICES ASSUME Shape, TypeOK, Awake, [Next]_vars PROVE Awake'
    OBVIOUS
  <2>1. Types /\ LifeOK
    BY DEF Shape
  <2>2. buffers_in_use \in Nat
    <3>1. Cardinality(Buffers) \in Nat
      BY FS_CardinalityType
    <3> QED
      BY <3>1 DEF TypeOK
  <2>3. CASE UNCHANGED vars
    BY <2>3 DEF vars, poolVars, channelVars, ringVars, Awake, Capacity
  <2> QED
    BY <2>1, <2>2, <2>3, PoolAwake, ChannelCallAwake, ChannelStepAwake DEF Next
<1> QED
  BY <1>1, <1>2, ShapeInvariant, TypeCorrect, PTL DEF Spec

(* pthread_cond_signal wakes one thread and sys_channel_close all of them, *)
(* and that is enough: no receiver, sender or waiter for the idle pool is  *)
(* left asleep on a condition that holds, whoever times out, wakes         *)
(* spuriously or comes second.                                             *)
THEOREM WakeupsAreNotLost == Spec => []NoLostWakeup
<1>1. Awake => NoLostWakeup
  BY DEF Awake, AllAwaited, MessagesAwaited, RoomAwaited, IdleAwaited, Awaited, Holders, NoLostWakeup,
         NoLostMessageWakeup, NoLostRoomWakeup, NoLostIdleWakeup, At
<1> QED
  BY <1>1, AwakeInvariant, PTL

-----------------------------------------------------------------------------
(* The refinement.  The slot of the i-th oldest message of a ring whose    *)
(* head is h.                                                              *)
Slot(h, i) == IF h + i - 1 < Capacity THEN h + i - 1 ELSE h + i - 1 - Capacity

(* The messages of the channel are a sequence.                             *)
LEMMA MessagesType ==
    Types => /\ Messages \in Seq(Buffers \union {NULL}) /\ Len(Messages) = count
             /\ \A i \in 1..count : Messages[i] = queue[Slot(head, i)]
<1> SUFFICES ASSUME Types
             PROVE  /\ Messages \in Seq(Buffers \union {NULL}) /\ Len(Messages) = count
                    /\ \A i \in 1..count : Messages[i] = queue[Slot(head, i)]
  OBVIOUS
<1>1. /\ Capacity \in Nat \ {0} /\ head \in 0..(Capacity - 1) /\ count \in 0..Capacity
  BY CapacityType DEF Types, Slots
<1>2. ASSUME NEW i \in 1..count
      PROVE  (head + i - 1) % Capacity = Slot(head, i) /\ Slot(head, i) \in Slots
  <2>1. i - 1 \in 0..Capacity /\ head + i - 1 = head + (i - 1)
    BY <1>1
  <2>2. (head + (i - 1)) % Capacity =
            IF head + (i - 1) < Capacity THEN head + (i - 1) ELSE head + (i - 1) - Capacity
    BY <1>1, <2>1, OneTurn
  <2>3. (head + i - 1) % Capacity = Slot(head, i)
    BY <2>1, <2>2 DEF Slot
  <2> QED
    BY <1>1, <2>3 DEF Slot, Slots
<1>3. Messages = [i \in 1..count |-> queue[Slot(head, i)]]
  BY <1>2 DEF Messages
<1>4. \A i \in 1..count : queue[Slot(head, i)] \in Buffers \union {NULL}
  BY <1>2 DEF Types
<1>5. Messages \in [1..count -> Buffers \union {NULL}]
  BY <1>3, <1>4
<1> QED
  BY <1>1, <1>3, <1>5, SeqDef, LenProperties

(* The same in the next state.                                             *)
LEMMA MessagesTypeNext ==
    Types' => /\ Messages' \in Seq(Buffers \union {NULL}) /\ Len(Messages') = count'
              /\ \A i \in 1..count' : Messages'[i] = queue'[Slot(head, i)']
<1>1. (Types => /\ Messages \in Seq(Buffers \union {NULL}) /\ Len(Messages) = count
                /\ \A i \in 1..count : Messages[i] = queue[Slot(head, i)])'
  BY MessagesType, PTL
<1> QED
  BY <1>1

(* A send appends its message.                                             *)
LEMMA EnqueueAppends ==
    ASSUME Types, Types', NEW t \in Threads, Enqueue(t, FALSE), count < Capacity
    PROVE  Messages' = Append(Messages, sending[t])
<1>1. /\ Capacity \in Nat \ {0} /\ head \in 0..(Capacity - 1) /\ count \in 0..Capacity
  BY CapacityType DEF Types, Slots
<1>2. /\ count' = count + 1 /\ head' = head /\ Capacity' = Capacity
      /\ queue' = [queue EXCEPT ![TailSlot(head, count)] = sending[t]]
  BY DEF Enqueue, Capacity
<1>3. TailSlot(head, count) = Slot(head, count + 1) /\ TailSlot(head, count) \in Slots
  <2>1. head \in Slots
    BY DEF Types
  <2>2. TailSlot(head, count) = (IF head + count < Capacity THEN head + count ELSE head + count - Capacity)
        /\ TailSlot(head, count) \in Slots
    BY <1>1, <2>1, RingIndexes
  <2> QED
    BY <1>1, <2>2 DEF Slot
<1>4. sending[t] \in Buffers \union {NULL}
  BY DEF Types
<1> DEFINE after == Append(Messages, sending[t])
<1>5. /\ after \in Seq(Buffers \union {NULL}) /\ Len(after) = count + 1
      /\ \A i \in 1..count : after[i] = Messages[i]
      /\ after[count + 1] = sending[t]
  BY <1>1, <1>4, MessagesType, AppendProperties
<1>6. ASSUME NEW i \in 1..(count + 1) PROVE Messages'[i] = after[i]
  <2>1. Slot(head, i)' = Slot(head, i)
    BY <1>2 DEF Slot
  <2>2. Messages'[i] = queue'[Slot(head, i)]
    BY <1>2, <2>1, MessagesTypeNext
  <2>3. CASE i = count + 1
    <3>1. queue'[Slot(head, i)] = sending[t]
      BY <1>2, <1>3, <2>3 DEF Types
    <3> QED
      BY <1>5, <2>2, <2>3, <3>1
  <2>4. CASE i # count + 1
    <3>1. i \in 1..count
      BY <1>1, <2>4
    <3>2. Slot(head, i) # Slot(head, count + 1)
      BY <1>1, <2>4, <3>1 DEF Slot
    <3>3. Slot(head, i) \in Slots
      BY <1>1, <3>1 DEF Slot, Slots
    <3>4. queue'[Slot(head, i)] = queue[Slot(head, i)]
      BY <1>2, <1>3, <3>2, <3>3 DEF Types
    <3> QED
      BY <1>5, <2>2, <3>1, <3>4, MessagesType
  <2> QED
    BY <2>3, <2>4
<1> HIDE DEF after
<1>7. Messages' \in Seq(Buffers \union {NULL}) /\ Len(Messages') = count + 1
  BY <1>2, MessagesTypeNext
<1>8. Messages' = after
  BY <1>5, <1>6, <1>7, SeqEqual
<1> QED
  BY <1>8 DEF after

(* A receive takes the oldest message.                                     *)
LEMMA DequeueTakesHead ==
    ASSUME Types, Types', NEW t \in Threads, Dequeue(t), count # 0, UNCHANGED config
    PROVE  /\ Messages # <<>> /\ queue[head] = Head(Messages)
           /\ Messages' = Tail(Messages)
<1>1. /\ Capacity \in Nat \ {0} /\ head \in 0..(Capacity - 1) /\ count \in 1..Capacity
  BY RingTypes
<1>2. /\ count' = count - 1 /\ head' = NextSlot(head) /\ Capacity' = Capacity
      /\ queue' = [queue EXCEPT ![head] = NULL]
  BY DEF Dequeue, Capacity, HeadCleared
<1>3. NextSlot(head) = IF head + 1 = Capacity THEN 0 ELSE head + 1
  <2>1. head \in Slots
    BY DEF Types
  <2> QED
    BY <2>1, RingIndexes
<1>4. /\ Messages # <<>> /\ Messages[1] = queue[head] /\ 1 \in 1..count
  <2>1. 1 \in 1..count /\ Slot(head, 1) = head
    BY <1>1 DEF Slot
  <2>2. Len(Messages) # 0 /\ Messages[1] = queue[Slot(head, 1)]
    BY <1>1, <2>1, MessagesType
  <2> QED
    BY <2>1, <2>2, EmptySeq
<1>5. /\ Tail(Messages) \in Seq(Buffers \union {NULL}) /\ Len(Tail(Messages)) = count - 1
      /\ \A i \in 1..(count - 1) : Tail(Messages)[i] = Messages[i + 1]
  BY <1>4, MessagesType, HeadTailProperties
<1>6. ASSUME NEW i \in 1..(count - 1) PROVE Messages'[i] = Tail(Messages)[i]
  <2>1. Slot(head, i)' = IF NextSlot(head) + i - 1 < Capacity THEN NextSlot(head) + i - 1
                                                             ELSE NextSlot(head) + i - 1 - Capacity
    BY <1>2 DEF Slot
  <2>2. Slot(head, i)' = Slot(head, i + 1) /\ Slot(head, i + 1) # head
    BY <1>1, <1>3, <2>1 DEF Slot
  <2>3. i + 1 \in 1..count /\ Slot(head, i + 1) \in Slots
    BY <1>1 DEF Slot, Slots
  <2>4. queue'[Slot(head, i + 1)] = queue[Slot(head, i + 1)]
    BY <1>2, <2>2, <2>3 DEF Types
  <2>5. Messages'[i] = queue'[Slot(head, i)']
    BY <1>2, MessagesTypeNext
  <2>6. Messages[i + 1] = queue[Slot(head, i + 1)]
    BY <2>3, MessagesType
  <2> QED
    BY <1>5, <2>2, <2>4, <2>5, <2>6
<1>7. Messages' \in Seq(Buffers \union {NULL}) /\ Len(Messages') = count - 1
  BY <1>2, MessagesTypeNext
<1>8. Messages' = Tail(Messages)
  BY <1>5, <1>6, <1>7, SeqEqual
<1> QED
  BY <1>4, <1>8

(* A send to a full ring that displaces the oldest message.                *)
LEMMA EnqueueDisplaces ==
    ASSUME Types, Types', NEW t \in Threads, Enqueue(t, TRUE), count = Capacity
    PROVE  Messages' = Append(Tail(Messages), sending[t])
<1>1. /\ Capacity \in Nat \ {0} /\ head \in 0..(Capacity - 1)
  BY CapacityType DEF Types, Slots
<1>2. NextSlot(head) = (IF head + 1 = Capacity THEN 0 ELSE head + 1) /\ NextSlot(head) \in Slots
  <2>1. head \in Slots
    BY DEF Types
  <2> QED
    BY <2>1, RingIndexes
<1>3. TailSlot(NextSlot(head), Capacity - 1) = head
  <2>1. Capacity - 1 \in 0..Capacity
    BY <1>1
  <2>2. TailSlot(NextSlot(head), Capacity - 1) =
            IF NextSlot(head) + (Capacity - 1) < Capacity
            THEN NextSlot(head) + (Capacity - 1) ELSE NextSlot(head) + (Capacity - 1) - Capacity
    BY <1>2, <2>1, RingIndexes
  <2> QED
    BY <1>1, <1>2, <2>2
<1>4. /\ count' = Capacity /\ head' = NextSlot(head) /\ Capacity' = Capacity
      /\ queue' = [HeadCleared EXCEPT ![head] = sending[t]]
  <2>1. /\ count' = count - 1 + 1 /\ head' = NextSlot(head) /\ config' = config
        /\ queue' = [HeadCleared EXCEPT ![TailSlot(NextSlot(head), count - 1)] = sending[t]]
    BY DEF Enqueue
  <2>2. Capacity' = Capacity
    BY <2>1 DEF Capacity
  <2>3. count' = Capacity
    BY <1>1, <2>1
  <2> QED
    BY <1>3, <2>1, <2>2, <2>3
<1>5. /\ queue'[head] = sending[t]
      /\ \A i \in Slots : i # head => queue'[i] = queue[i]
  BY <1>4 DEF HeadCleared, Types
<1>6. Messages # <<>>
  <2>1. Len(Messages) # 0
    BY <1>1, MessagesType
  <2> QED
    BY <2>1, EmptySeq
<1>7. /\ Tail(Messages) \in Seq(Buffers \union {NULL}) /\ Len(Tail(Messages)) = Capacity - 1
      /\ \A i \in 1..(Capacity - 1) : Tail(Messages)[i] = Messages[i + 1]
  BY <1>6, MessagesType, HeadTailProperties
<1>8. sending[t] \in Buffers \union {NULL}
  BY DEF Types
<1> DEFINE after == Append(Tail(Messages), sending[t])
<1>9. /\ after \in Seq(Buffers \union {NULL}) /\ Len(after) = Capacity - 1 + 1
      /\ \A i \in 1..(Capacity - 1) : after[i] = Tail(Messages)[i]
      /\ after[Capacity - 1 + 1] = sending[t]
  BY <1>7, <1>8, AppendProperties
<1>10. Capacity - 1 + 1 = Capacity
  BY <1>1
<1>11. ASSUME NEW i \in 1..Capacity PROVE Messages'[i] = after[i]
  <2>1. Slot(head, i)' = IF NextSlot(head) + i - 1 < Capacity THEN NextSlot(head) + i - 1
                                                             ELSE NextSlot(head) + i - 1 - Capacity
    BY <1>4 DEF Slot
  <2>2. Messages'[i] = queue'[Slot(head, i)']
    BY <1>4, MessagesTypeNext
  <2>3. CASE i = Capacity
    <3>1. Slot(head, i)' = head
      BY <1>1, <1>2, <2>1, <2>3
    <3> QED
      BY <1>5, <1>9, <1>10, <2>2, <2>3, <3>1
  <2>4. CASE i # Capacity
    <3>1. i \in 1..(Capacity - 1) /\ i + 1 \in 1..count
      BY <1>1, <2>4
    <3>2. Slot(head, i)' = Slot(head, i + 1) /\ Slot(head, i + 1) # head
      BY <1>1, <1>2, <2>1, <3>1 DEF Slot
    <3>3. Slot(head, i + 1) \in Slots
      BY <1>1, <3>1 DEF Slot, Slots
    <3>4. Messages'[i] = queue[Slot(head, i + 1)]
      BY <1>5, <2>2, <3>2, <3>3
    <3>5. after[i] = Messages[i + 1] /\ Messages[i + 1] = queue[Slot(head, i + 1)]
      BY <1>7, <1>9, <3>1, MessagesType
    <3> QED
      BY <3>4, <3>5
  <2> QED
    BY <2>3, <2>4
<1> HIDE DEF after
<1>12. Messages' \in Seq(Buffers \union {NULL}) /\ Len(Messages') = Capacity
  BY <1>4, MessagesTypeNext
<1>13. Messages' = after
  BY <1>9, <1>10, <1>11, <1>12, SeqEqual
<1> QED
  BY <1>13 DEF after

(* The initial states are initial states of the queue.                     *)
LEMMA FifoInit == Init => Fifo!Init
<1> SUFFICES ASSUME Init PROVE Fifo!Init
  OBVIOUS
<1>1. Types /\ count = 0
  BY InitShape DEF Shape, Init
<1>2. Messages = <<>>
  BY <1>1, MessagesType, EmptySeq
<1> QED
  BY <1>2 DEF Init, Fifo!Init

(* Every step is a step of the queue, or leaves it alone.                  *)
LEMMA FifoStep == Shape /\ Shape' /\ [Next]_vars => [Fifo!Next]_(Fifo!fifoVars)
<1> SUFFICES ASSUME Shape, Shape', [Next]_vars PROVE [Fifo!Next]_(Fifo!fifoVars)
  OBVIOUS
<1> USE DEF Shape
<1>1. ASSUME UNCHANGED <<config, queue, head, count>> PROVE Messages' = Messages
  BY <1>1 DEF Messages, Capacity
<1>2. ASSUME UNCHANGED <<config, queue, head, count, closed, received>>
      PROVE  UNCHANGED Fifo!fifoVars
  BY <1>1, <1>2 DEF Fifo!fifoVars
<1>3. CASE UNCHANGED vars
  BY <1>2, <1>3 DEF vars, channelVars, ringVars, localVars
<1>4. ASSUME NEW t \in Threads, PoolCall(t) \/ WaitStep(t) \/ Environment(t)
      PROVE  UNCHANGED Fifo!fifoVars
  BY <1>2, <1>4 DEF PoolCall, WaitStep, Environment, channelVars, ringVars, localVars
<1>5. ASSUME NEW t \in Threads, Dequeue(t), count # 0, received[t] = NULL, UNCHANGED <<config, closed>>
      PROVE  Fifo!Get(t)
  BY <1>5, DequeueTakesHead DEF Fifo!Get, Dequeue
<1>6. ASSUME NEW t \in Threads, ChannelCall(t) PROVE [Fifo!Next]_(Fifo!fifoVars)
  <2>1. ASSUME NEW b \in Buffers, NEW timeout_ms \in Timeouts, Send(t, b, timeout_ms)
        PROVE  UNCHANGED Fifo!fifoVars
    BY <1>2, <2>1 DEF Send, ringVars
  <2>2. ASSUME NEW timeout_ms \in Timeouts, Receive(t, timeout_ms) PROVE [Fifo!Next]_(Fifo!fifoVars)
    <3>1. CASE Dequeue(t) /\ count # 0
      BY <1>5, <2>2, <3>1 DEF Receive, Fifo!Next
    <3>2. CASE UNCHANGED <<queue, head, count, received>>
      BY <1>2, <2>2, <3>2 DEF Receive
    <3> QED
      BY <2>2, <3>1, <3>2 DEF Receive, ReceiveNothing
  <2>3. ASSUME ReleaseReceived(t) PROVE Fifo!Forget(t)
    BY <1>1, <2>3 DEF ReleaseReceived, ringVars, Fifo!Forget
  <2>4. ASSUME Close(t) PROVE Fifo!Close
    BY <1>1, <2>4 DEF Close, localVars, Fifo!Close
  <2>5. ASSUME NEW u \in Threads, RetainChannel(t, u) PROVE UNCHANGED Fifo!fifoVars
    BY <1>2, <2>5 DEF RetainChannel, ringVars, localVars
  <2>6. ASSUME ReleaseChannel(t) PROVE UNCHANGED Fifo!fifoVars
    BY <1>2, <2>6 DEF ReleaseChannel, ringVars, localVars
  <2> QED
    BY <1>6, <2>1, <2>2, <2>3, <2>4, <2>5, <2>6 DEF ChannelCall, Fifo!Next
<1>7. ASSUME NEW t \in Threads, ChannelStep(t) PROVE [Fifo!Next]_(Fifo!fifoVars)
  <2>1. ASSUME Enqueue(t, FALSE), ~closed, count < Capacity, sending[t] # NULL PROVE Fifo!Next
    <3>1. sending[t] \in Buffers
      BY <2>1 DEF Types
    <3>2. Messages' = Append(Messages, sending[t]) /\ Len(Messages) = count
      BY <2>1, EnqueueAppends, MessagesType
    <3>3. Fifo!Put(sending[t])
      BY <2>1, <3>2 DEF Fifo!Put, Enqueue, Capacity
    <3> QED
      BY <3>1, <3>3 DEF Fifo!Next
  <2>2. ASSUME Enqueue(t, TRUE), ~closed, count = Capacity, Policy = "drop_oldest", sending[t] # NULL
        PROVE  Fifo!Next
    <3>1. sending[t] \in Buffers
      BY <2>2 DEF Types
    <3>2. Messages' = Append(Tail(Messages), sending[t]) /\ Len(Messages) = count
      BY <2>2, EnqueueDisplaces, MessagesType
    <3>3. Fifo!Displace(sending[t])
      BY <2>2, <3>2 DEF Fifo!Displace, Enqueue, Capacity, Policy
    <3> QED
      BY <3>1, <3>3 DEF Fifo!Next
  <2>3. ASSUME NEW point, SendAside(t, point) PROVE UNCHANGED Fifo!fifoVars
    BY <1>2, <2>3 DEF SendAside, ringVars
  <2>4. ASSUME SendLock(t) PROVE [Fifo!Next]_(Fifo!fifoVars)
    <3>1. sending[t] # NULL
      BY <2>4 DEF SendLock, LocalsOK, SendingPCs
    <3>2. CASE Displaces /\ ~closed /\ Enqueue(t, Displaces)
      <4>1. Enqueue(t, TRUE)
        <5>1. Displaces = TRUE
          BY <3>2 DEF Displaces
        <5> QED
          BY <3>2, <5>1
      <4> QED
        BY <2>2, <3>1, <3>2, <4>1 DEF Displaces
    <3>3. CASE ~Displaces /\ ~closed /\ count # Capacity /\ Enqueue(t, Displaces)
      <4>1. Enqueue(t, FALSE)
        <5>1. Displaces = FALSE
          BY <3>3 DEF Displaces
        <5> QED
          BY <3>3, <5>1
      <4>2. count < Capacity
        <5>1. count \in 0..Capacity /\ Capacity \in Nat /\ count # Capacity
          BY <3>3, CapacityType DEF Types
        <5> QED
          BY <5>1
      <4> QED
        BY <2>1, <3>1, <3>3, <4>1, <4>2
    <3> QED
      BY <2>3, <2>4, <3>2, <3>3 DEF SendLock
  <2>5. ASSUME SendResume(t) PROVE [Fifo!Next]_(Fifo!fifoVars)
    <3>1. sending[t] # NULL
      BY <2>5 DEF SendResume, LocalsOK, SendingPCs
    <3> QED
      BY <2>1, <2>3, <2>5, <3>1 DEF SendResume
  <2>6. ASSUME SendTimeout(t) PROVE UNCHANGED Fifo!fifoVars
    BY <2>3, <2>6 DEF SendTimeout
  <2>7. ASSUME SendUndo(t) \/ SendReleaseDropped(t) PROVE UNCHANGED Fifo!fifoVars
    BY <1>2, <2>7 DEF SendUndo, SendReleaseDropped, ringVars
  <2>8. ASSUME ReceiveResume(t) PROVE [Fifo!Next]_(Fifo!fifoVars)
    <3>1. CASE Dequeue(t) /\ count # 0
      <4>1. received[t] = NULL
        BY <2>8 DEF ReceiveResume, LocalsOK, ReceivePCs
      <4> QED
        BY <1>5, <2>8, <3>1, <4>1 DEF ReceiveResume, Fifo!Next
    <3>2. CASE UNCHANGED <<queue, head, count, received>>
      BY <1>2, <2>8, <3>2 DEF ReceiveResume
    <3> QED
      BY <2>8, <3>1, <3>2 DEF ReceiveResume, ReceiveNothing
  <2>9. ASSUME ReceiveTimeout(t) \/ Drain(t) PROVE UNCHANGED Fifo!fifoVars
    BY <1>2, <2>9 DEF ReceiveTimeout, ReceiveNothing, Drain, ringVars, localVars
  <2>10. ASSUME FreeChannel(t) PROVE Fifo!Discard
    <3>1. count' = 0
      BY <2>10 DEF FreeChannel
    <3>2. Messages' = <<>>
      BY <3>1, MessagesTypeNext, EmptySeq
    <3> QED
      BY <2>10, <3>2 DEF FreeChannel, localVars, Fifo!Discard
  <2> QED
    BY <1>7, <2>4, <2>5, <2>6, <2>7, <2>8, <2>9, <2>10 DEF ChannelStep, Fifo!Next
<1> QED
  BY <1>3, <1>4, <1>6, <1>7 DEF Next

(* The ring with its indexes, two full policies and any number of senders, *)
(* receivers and closers is a bounded first-in first-out queue that takes  *)
(* nothing once it is closed and still delivers what it took.              *)
THEOREM ChannelIsAFifo == Spec => ImplementsFifo
  BY FifoInit, FifoStep, ShapeInvariant, PTL DEF Spec, ImplementsFifo, Fifo!Spec
=============================================================================
