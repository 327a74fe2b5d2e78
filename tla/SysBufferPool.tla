---------------------------- MODULE SysBufferPool ----------------------------
(***************************************************************************)
(* The preallocated buffer pool of core/sys_channel.c: reference counted   *)
(* blocks, the count of blocks in use, and sys_buffer_pool_wait_idle with  *)
(* its condition variable idle_cond.                                       *)
(*                                                                         *)
(* Every function of the pool does its work in one critical section of     *)
(* pool->mutex, except sys_buffer_pool_wait_idle, which gives the mutex up *)
(* inside pthread_cond_wait.  So an action is a critical section, and a    *)
(* waiting thread goes through the pc values                               *)
(*                                                                         *)
(*    wait_sleep     blocked on idle_cond                                  *)
(*    wait_woken     woken (broadcast or spurious), mutex not yet held     *)
(*    wait_timedout  deadline passed while blocked, mutex not yet held     *)
(*                                                                         *)
(* The payload and its metadata (size, timestamp, sequence, generation)    *)
(* are left out: no function of this file branches on them.                *)
(*                                                                         *)
(* The clients follow the ownership rules of docs/build.md: a thread uses  *)
(* a buffer only while it holds a reference, and nobody acquires from a    *)
(* pool that has been destroyed.  A thread holds at most one buffer that   *)
(* it acquired itself or was handed (acquired[t]), which bounds the model. *)
(***************************************************************************)
EXTENDS Naturals, FiniteSets

CONSTANTS
    Threads,    \* threads that call the API
    Buffers,    \* the blocks of the pool (pool->buffers)
    NULL,       \* no buffer
    SIZE_MAX,   \* the largest value of a reference count
    Timeouts    \* the timeout_ms arguments that are used, by kind

(* timeout_ms = 0, > 0 and < 0; "expired" is a "timed" call whose absolute *)
(* deadline (make_deadline) has passed.                                    *)
TimeoutKinds == {"zero", "timed", "forever"}

ASSUME PoolAssumption ==
    /\ IsFiniteSet(Threads)
    /\ IsFiniteSet(Buffers)
    /\ NULL \notin Buffers
    /\ SIZE_MAX \in Nat \ {0}
    /\ Timeouts \subseteq TimeoutKinds

VARIABLES
    reference_count,    \* reference_count[b]
    buffers_in_use,
    pool_freed,         \* sys_buffer_pool_destroy has returned SYS_OK
    acquired,           \* the buffer a thread holds a reference to, or NULL
    pc,                 \* where a thread is; "ready" outside every call
    timeout             \* the timeout argument of the call a thread is in

poolVars == <<reference_count, buffers_in_use, pool_freed, acquired, pc, timeout>>

PoolPCs == {"ready", "wait_sleep", "wait_woken", "wait_timedout"}

(* The threads blocked, or otherwise standing, at a program point. *)
At(point) == {t \in Threads : pc[t] = point}

(* pthread_cond_broadcast: every thread of p blocked at `from` moves to `to`. *)
Broadcast(p, from, to) == [t \in Threads |-> IF p[t] = from THEN to ELSE p[t]]

(* Where a thread that blocks again stands: pthread_cond_timedwait returns *)
(* ETIMEDOUT at once when the deadline had passed at the time of the call. *)
Blocked(t, sleep, timedout) == IF timeout[t] = "expired" THEN timedout ELSE sleep

-----------------------------------------------------------------------------
(* The critical sections of the pool, shared with the channel.             *)
(* p is the program counters after the calling thread's own step.          *)

(* Definitions named X_Y are X with the plausible bug Y; no action uses     *)
(* them.                                                                   *)
CanRetain_Unbounded(b) == reference_count[b] # 0
PoolIdle_Untested == TRUE

(* The tests of the functions below. *)
IsFree(b) == reference_count[b] = 0
IsLast(b) == reference_count[b] = 1
PoolIdle == buffers_in_use = 0

(* pthread_cond_broadcast(&pool->idle_cond) *)
WakeIdleWaiters(p) == Broadcast(p, "wait_sleep", "wait_woken")

(* sys_buffer_retain succeeds; otherwise it returns SYS_ERR_STATE or       *)
(* SYS_ERR_OVERFLOW and changes nothing.                                   *)
CanRetain(b) == reference_count[b] # 0 /\ reference_count[b] # SIZE_MAX

BufferRetain(b) ==
    /\ CanRetain(b)
    /\ reference_count' = [reference_count EXCEPT ![b] = @ + 1]
    /\ UNCHANGED buffers_in_use

(* sys_buffer_release: the last reference returns the block and wakes the  *)
(* threads that wait for the pool to be idle.                              *)
BufferRelease(b, p) ==
    /\ reference_count' = [reference_count EXCEPT ![b] = IF @ > 0 THEN @ - 1 ELSE @]
    /\ IF IsLast(b)
         THEN /\ buffers_in_use' = buffers_in_use - 1
              /\ pc' = WakeIdleWaiters(p)
         ELSE /\ UNCHANGED buffers_in_use
              /\ pc' = p

-----------------------------------------------------------------------------
(* Calls of a client thread. *)

(* sys_buffer_acquire; SYS_ERR_BUSY when every block is in use. *)
AcquireBuffer(t, b) ==
    /\ pc[t] = "ready" /\ ~pool_freed
    /\ acquired[t] = NULL
    /\ IsFree(b)
    /\ reference_count' = [reference_count EXCEPT ![b] = 1]
    /\ buffers_in_use' = buffers_in_use + 1
    /\ acquired' = [acquired EXCEPT ![t] = b]
    /\ UNCHANGED <<pool_freed, pc, timeout>>

(* A holder retains its buffer and hands the new reference to thread u. *)
ShareBuffer(t, u) ==
    /\ pc[t] = "ready"
    /\ acquired[t] # NULL /\ acquired[u] = NULL
    /\ BufferRetain(acquired[t])
    /\ acquired' = [acquired EXCEPT ![u] = acquired[t]]
    /\ UNCHANGED <<pool_freed, pc, timeout>>

ReleaseAcquired(t) ==
    /\ pc[t] = "ready"
    /\ acquired[t] # NULL
    /\ BufferRelease(acquired[t], pc)
    /\ acquired' = [acquired EXCEPT ![t] = NULL]
    /\ UNCHANGED <<pool_freed, timeout>>

(* sys_buffer_pool_wait_idle up to its first pthread_cond_wait.  On an     *)
(* idle pool, or with timeout_ms = 0, it returns at once (SYS_OK,          *)
(* SYS_ERR_BUSY) and changes nothing.                                      *)
WaitIdle(t, timeout_ms) ==
    /\ pc[t] = "ready" /\ ~pool_freed
    /\ ~PoolIdle /\ timeout_ms # "zero"
    /\ pc' = [pc EXCEPT ![t] = "wait_sleep"]
    /\ timeout' = [timeout EXCEPT ![t] = timeout_ms]
    /\ UNCHANGED <<reference_count, buffers_in_use, pool_freed, acquired>>

(* The loop test after a wakeup: SYS_OK, or blocked again. *)
WaitIdleResume(t) ==
    /\ pc[t] = "wait_woken"
    /\ IF PoolIdle
         THEN /\ pc' = [pc EXCEPT ![t] = "ready"]
              /\ timeout' = [timeout EXCEPT ![t] = "zero"]
         ELSE /\ pc' = [pc EXCEPT ![t] = Blocked(t, "wait_sleep", "wait_timedout")]
              /\ UNCHANGED timeout
    /\ UNCHANGED <<reference_count, buffers_in_use, pool_freed, acquired>>

(* pthread_cond_timedwait returned ETIMEDOUT: SYS_ERR_TIMEOUT, whatever    *)
(* buffers_in_use is by now.                                               *)
WaitIdleTimeout(t) ==
    /\ pc[t] = "wait_timedout"
    /\ pc' = [pc EXCEPT ![t] = "ready"]
    /\ timeout' = [timeout EXCEPT ![t] = "zero"]
    /\ UNCHANGED <<reference_count, buffers_in_use, pool_freed, acquired>>

(* sys_buffer_pool_destroy by a thread of an owner that has stopped every  *)
(* other user of the pool pointer: nobody is inside wait_idle.  The test   *)
(* of buffers_in_use is the function's own; SYS_ERR_BUSY otherwise.        *)
DestroyPool(t) ==
    /\ pc[t] = "ready" /\ ~pool_freed
    /\ \A u \in Threads : pc[u] \notin {"wait_sleep", "wait_woken", "wait_timedout"}
    /\ PoolIdle
    /\ pool_freed' = TRUE
    /\ UNCHANGED <<reference_count, buffers_in_use, acquired, pc, timeout>>

-----------------------------------------------------------------------------
(* The environment: time and the condition variable. *)

(* CLOCK_MONOTONIC passes the absolute deadline of a timed call. *)
Expire(t) ==
    /\ timeout[t] = "timed"
    /\ timeout' = [timeout EXCEPT ![t] = "expired"]
    /\ UNCHANGED <<reference_count, buffers_in_use, pool_freed, acquired, pc>>

(* pthread_cond_timedwait gives up on a blocked thread whose deadline has   *)
(* passed.                                                                 *)
TimeOut(t, sleep, timedout) ==
    /\ pc[t] = sleep /\ timeout[t] = "expired"
    /\ pc' = [pc EXCEPT ![t] = timedout]
    /\ UNCHANGED <<reference_count, buffers_in_use, pool_freed, acquired, timeout>>

(* A spurious wakeup. *)
WakeSpuriously(t, sleep, woken) ==
    /\ pc[t] = sleep /\ timeout[t] # "expired"
    /\ pc' = [pc EXCEPT ![t] = woken]
    /\ UNCHANGED <<reference_count, buffers_in_use, pool_freed, acquired, timeout>>

-----------------------------------------------------------------------------
PoolInit ==
    /\ reference_count = [b \in Buffers |-> 0]
    /\ buffers_in_use = 0
    /\ pool_freed = FALSE
    /\ acquired = [t \in Threads |-> NULL]
    /\ pc = [t \in Threads |-> "ready"]
    /\ timeout = [t \in Threads |-> "zero"]

(* What happens to a thread inside a call without anybody's help. *)
PoolStep(t) ==
    \/ WaitIdleResume(t)
    \/ WaitIdleTimeout(t)
    \/ TimeOut(t, "wait_sleep", "wait_timedout")

-----------------------------------------------------------------------------
(* buffers_in_use, kept by increments and decrements in three functions,   *)
(* is the number of blocks with a reference.                               *)
BuffersInUseExact == buffers_in_use = Cardinality({b \in Buffers : reference_count[b] > 0})

(* No thread stays blocked on idle_cond while the pool is idle: the        *)
(* broadcast of the last release reaches every waiter.                     *)
NoLostIdleWakeup == buffers_in_use = 0 => At("wait_sleep") = {}

=============================================================================
