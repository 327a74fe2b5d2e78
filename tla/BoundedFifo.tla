------------------------------ MODULE BoundedFifo ------------------------------
(***************************************************************************)
(* What sys_channel promises its callers, without ring, mutex, condition   *)
(* variables or reference counts: a first-in first-out queue of at most    *)
(* config.capacity messages that accepts nothing once it is closed, but    *)
(* still delivers what it accepted.                                        *)
(***************************************************************************)
EXTENDS Naturals, Sequences

CONSTANTS Clients, Messages, NULL, Configs

VARIABLES
    config,     \* the capacity and the full_policy of the queue
    fifo,       \* the queued messages, oldest first
    closed,
    taken       \* the message a client has received and not yet released

fifoVars == <<config, fifo, closed, taken>>

Init ==
    /\ config \in Configs
    /\ fifo = <<>>
    /\ closed = FALSE
    /\ taken = [c \in Clients |-> NULL]

Put(m) ==
    /\ ~closed /\ Len(fifo) < config.capacity
    /\ fifo' = Append(fifo, m)
    /\ UNCHANGED <<config, closed, taken>>

(* A full queue with SYS_CHANNEL_FULL_DROP_OLDEST loses its oldest message. *)
Displace(m) ==
    /\ ~closed /\ Len(fifo) = config.capacity /\ config.full_policy = "drop_oldest"
    /\ fifo' = Append(Tail(fifo), m)
    /\ UNCHANGED <<config, closed, taken>>

Get(c) ==
    /\ fifo # <<>> /\ taken[c] = NULL
    /\ taken' = [taken EXCEPT ![c] = Head(fifo)]
    /\ fifo' = Tail(fifo)
    /\ UNCHANGED <<config, closed>>

Forget(c) ==
    /\ taken' = [taken EXCEPT ![c] = NULL]
    /\ UNCHANGED <<config, fifo, closed>>

Close ==
    /\ closed' = TRUE
    /\ UNCHANGED <<config, fifo, taken>>

(* The last reference to the queue goes, and what is queued with it. *)
Discard ==
    /\ fifo' = <<>>
    /\ UNCHANGED <<config, closed, taken>>

Next ==
    \/ \E m \in Messages : Put(m) \/ Displace(m)
    \/ \E c \in Clients : Get(c) \/ Forget(c)
    \/ Close
    \/ Discard

Spec == Init /\ [][Next]_fifoVars
=============================================================================
