---------------------------- MODULE SysEventProofs ----------------------------
(***************************************************************************)
(* Proofs about SysEvent, for any number of threads and subscriptions.     *)
(* Invariant is inductive without any rule of the clients: what in_flight  *)
(* counts covers the calls that are queued and running, so nothing that is *)
(* to be called is freed. With ExclusiveStart the bus is settled           *)
(* (SettledHolds), and then in_flight counts these calls exactly.          *)
(***************************************************************************)
EXTENDS SysEvent, FiniteSetTheorems, SequenceTheorems, TLAPS

USE EventAssumption DEF Processes, subscriptionVars, busVars

(* The points of a start and of a stop.                                    *)
LifecyclePCs == StopPCs \union {"start"}

(* The array is finite, besides.                                           *)
Types == TypeOK /\ IsFiniteSet(subscribers)

(* A process has deliveries exactly while it runs callbacks, and the       *)
(* subscription it calls is not called again by the same delivery.         *)
DeliveriesOK == \A p \in Processes :
    /\ pc[p] = "callback" <=> Len(calls[p]) > 0
    /\ \A i \in 1..Len(calls[p]) : calls[p][i].running \notin calls[p][i].left

(* What is allocated is in the array, or one thread is unsubscribing it.   *)
TargetsOK ==
    /\ \A t \in Threads : target[t] # NULL <=> pc[t] \in UnsubscribePCs
    /\ \A t \in Threads : target[t] \notin subscribers
    /\ \A t, u \in Threads : target[t] = target[u] => t = u \/ target[t] = NULL
    /\ \A s \in allocated \ subscribers : \E t \in Threads : target[t] = s

(* One thread starts or stops the bus; when the worker runs.               *)
LifecycleOK ==
    /\ accepting = running
    /\ \A t, u \in Threads : pc[t] \in LifecyclePCs /\ pc[u] \in LifecyclePCs => t = u
    /\ \A t \in Threads : pc[t] = "start" => running /\ pc[Worker] = "none"
    /\ \A t \in Threads : pc[t] \in StopPCs => ~running
    /\ \A t \in Threads : pc[t] \in {"stop_sleep", "stop_woken"} => pc[Worker] = "none"
    /\ running \/ (\E t \in Threads : pc[t] \in StopPCs) \/ pc[Worker] = "none"
    /\ running => pc[Worker] # "none" \/ \E t \in Threads : pc[t] = "start"

(* The calls of s that are still to come or to return.                     *)
Calls(s) == Cardinality(Queued(s)) + Cardinality(InDelivery(s))

(* in_flight keeps alive whatever is queued or delivered.                  *)
Covered ==
    /\ \A s \in Subscriptions : IsFiniteSet(InDelivery(s))
    /\ \A s \in allocated : in_flight[s] >= Calls(s)

(* The inductive invariant.                                                *)
Invariant ==
    /\ Types /\ DeliveriesOK /\ TargetsOK /\ LifecycleOK
    /\ NoUseAfterFree /\ Covered /\ NoLostWakeup

-----------------------------------------------------------------------------
(* Sequences, place by place.                                              *)
LEMMA AppendPlaces ==
    ASSUME NEW R, NEW q \in Seq(R), NEW e \in R
    PROVE  /\ Append(q, e) \in Seq(R) /\ Len(Append(q, e)) = Len(q) + 1
           /\ DOMAIN Append(q, e) = 1..Len(q) + 1
           /\ \A i \in 1..Len(q) : Append(q, e)[i] = q[i]
           /\ Append(q, e)[Len(q) + 1] = e
  OBVIOUS

(* Front drops the last place and keeps the others.                        *)
LEMMA FrontPlaces ==
    ASSUME NEW R, NEW q \in Seq(R), Len(q) > 0
    PROVE  /\ Front(q) \in Seq(R) /\ Len(Front(q)) = Len(q) - 1
           /\ DOMAIN Front(q) = 1..Len(q) - 1
           /\ \A i \in 1..Len(q) - 1 : Front(q)[i] = q[i]
           /\ Last(q) = q[Len(q)] /\ Last(q) \in R
<1> DEFINE n == Len(q) - 1
<1>1. n \in Nat /\ Front(q) = SubSeq(q, 1, n)
  BY DEF Front
<1>2. \A i \in 1..n : q[i] \in R
  BY <1>1
<1>3. Last(q) = q[Len(q)] /\ Last(q) \in R
  BY DEF Last
<1> HIDE DEF n
<1>4. SubSeq(q, 1, n) = [i \in 1..n |-> q[i]]
  BY <1>1
<1>5. SubSeq(q, 1, n) \in Seq(R)
  BY <1>1, <1>2, <1>4
<1>6. Len(SubSeq(q, 1, n)) = n
  BY <1>1, <1>4
<1> QED
  BY <1>1, <1>3, <1>4, <1>5, <1>6 DEF n

(* Tail drops the first place and shifts the others.                       *)
LEMMA TailPlaces ==
    ASSUME NEW R, NEW q \in Seq(R), Len(q) > 0
    PROVE  /\ Tail(q) \in Seq(R) /\ Len(Tail(q)) = Len(q) - 1
           /\ DOMAIN Tail(q) = 1..Len(q) - 1
           /\ \A i \in 1..Len(q) - 1 : Tail(q)[i] = q[i + 1]
           /\ Head(q) = q[1] /\ Head(q) \in R
  OBVIOUS

-----------------------------------------------------------------------------
(* Deliveries.                                                             *)
Call == [running : Subscriptions, left : SUBSET Subscriptions]

(* The deliveries of TypeOK, with Call as the set of deliveries.           *)
LEMMA CallIsSet == TypeOK => calls \in [Processes -> Seq(Call)]
  BY DEF TypeOK, Call

(* The effect on the deliveries of p: those of outer, and one more to S.   *)
Delivers(p, outer, S) ==
    /\ calls' \in [Processes -> Seq(Call)]
    /\ \A q \in Processes \ {p} : calls'[q] = calls[q]
    /\ Len(calls'[p]) = Len(outer) + 1
    /\ \A i \in 1..Len(outer) : calls'[p][i] = outer[i]
    /\ Callees(calls'[p][Len(outer) + 1]) = S
    /\ calls'[p][Len(outer) + 1].running \notin calls'[p][Len(outer) + 1].left

(* What Deliver adds to outer.                                             *)
LEMMA DeliverAppends ==
    ASSUME TypeOK, NEW p \in Processes, NEW outer \in Seq(Call),
           NEW S \in SUBSET Subscriptions, Deliver(p, S, outer)
    PROVE  Delivers(p, outer, S)
<1>1. PICK s \in S : calls' = [calls EXCEPT ![p] = Append(outer, [running |-> s, left |-> S \ {s}])]
  BY DEF Deliver
<1> DEFINE call == [running |-> s, left |-> S \ {s}]
<1>2. call \in Call /\ call.running = s /\ call.left = S \ {s}
  BY DEF Call
<1>3. Callees(call) = S /\ call.running \notin call.left
  BY <1>2 DEF Callees
<1> HIDE DEF call
<1>4. calls \in [Processes -> Seq(Call)]
  BY CallIsSet
<1>5. calls'[p] = Append(outer, call) /\ \A q \in Processes \ {p} : calls'[q] = calls[q]
  BY <1>1, <1>4 DEF call
<1>6. /\ Append(outer, call) \in Seq(Call) /\ Len(Append(outer, call)) = Len(outer) + 1
      /\ \A i \in 1..Len(outer) : Append(outer, call)[i] = outer[i]
      /\ Append(outer, call)[Len(outer) + 1] = call
  BY <1>2, AppendPlaces
<1>7. calls' \in [Processes -> Seq(Call)]
  BY <1>1, <1>4, <1>6 DEF call
<1> QED
  BY <1>3, <1>5, <1>6, <1>7 DEF Delivers

(* A synchronous publish nests one delivery, to matching subscribers.      *)
LEMMA PublishSyncDelivers ==
    ASSUME TypeOK, NEW p \in Processes, NEW e \in Events, PublishSync(p, e)
    PROVE  Delivers(p, calls[p], Matching(e)) /\ Matching(e) \in SUBSET subscribers
<1>1. Matching(e) \in SUBSET Subscriptions /\ Matching(e) \in SUBSET subscribers
  BY DEF Matching, TypeOK
<1>2. Deliver(p, Matching(e), calls[p])
  BY DEF PublishSync
<1>3. calls[p] \in Seq(Call)
  BY CallIsSet
<1> HIDE DEF Processes
<1> QED
  BY <1>1, <1>2, <1>3, DeliverAppends

(* The worker starts the delivery of the queue's first event.              *)
LEMMA WorkerTakeDelivers ==
    ASSUME TypeOK, WorkerTake
    PROVE  /\ Len(queue) > 0 /\ queue[1] \in SUBSET Subscriptions
           /\ Delivers(Worker, <<>>, queue[1])
<1>1. Len(queue) > 0 /\ queue[1] \in SUBSET Subscriptions /\ Head(queue) = queue[1]
  BY DEF WorkerTake, TypeOK
<1>2. Deliver(Worker, queue[1], <<>>)
  BY <1>1 DEF WorkerTake
<1>3. <<>> \in Seq(Call) /\ Worker \in Processes
  OBVIOUS
<1> HIDE DEF Processes
<1> QED
  BY <1>1, <1>2, <1>3, DeliverAppends

(* The delivery that a callback of s, which returns, belongs to, and what  *)
(* remains of it.                                                          *)
Innermost(p) == calls[p][Len(calls[p])]

(* A callback that returns takes its subscription out of the innermost     *)
(* delivery, and ends the delivery when none is left.                      *)
LEMMA FinishDelivers ==
    ASSUME TypeOK, DeliveriesOK, NEW p \in Processes, FinishCallback(p)
    PROVE  /\ Len(calls[p]) > 0 /\ Innermost(p) \in Call /\ Innermost(p) = Last(calls[p])
           /\ Innermost(p).running \notin Innermost(p).left
           /\ Len(Front(calls[p])) = Len(calls[p]) - 1
           /\ \A i \in 1..Len(calls[p]) - 1 : Front(calls[p])[i] = calls[p][i]
           /\ Innermost(p).left # {} => Delivers(p, Front(calls[p]), Innermost(p).left)
           /\ Innermost(p).left = {} =>
                /\ calls' \in [Processes -> Seq(Call)]
                /\ \A q \in Processes \ {p} : calls'[q] = calls[q]
                /\ calls'[p] = Front(calls[p])
<1>1. calls \in [Processes -> Seq(Call)] /\ Len(calls[p]) > 0
  BY CallIsSet DEF FinishCallback, DeliveriesOK
<1>2. /\ Front(calls[p]) \in Seq(Call) /\ Len(Front(calls[p])) = Len(calls[p]) - 1
      /\ \A i \in 1..Len(calls[p]) - 1 : Front(calls[p])[i] = calls[p][i]
      /\ Innermost(p) = Last(calls[p]) /\ Innermost(p) \in Call
  <2>1. calls[p] \in Seq(Call)
    BY <1>1
  <2> HIDE DEF Call, Processes
  <2> QED
    BY <2>1, <1>1, FrontPlaces DEF Innermost
<1>3. Innermost(p).running \notin Innermost(p).left
  BY <1>1 DEF Innermost, DeliveriesOK
<1>4. Innermost(p).left \in SUBSET Subscriptions
  BY <1>2 DEF Call
<1>5. CASE Innermost(p).left # {}
  <2>1. Deliver(p, Innermost(p).left, Front(calls[p]))
    BY <1>2, <1>5 DEF FinishCallback
  <2> HIDE DEF Processes
  <2>2. Delivers(p, Front(calls[p]), Innermost(p).left)
    BY <2>1, <1>2, <1>4, DeliverAppends
  <2> QED
    BY <2>2, <1>1, <1>2, <1>3, <1>5
<1>6. CASE Innermost(p).left = {}
  <2>1. calls' = [calls EXCEPT ![p] = Front(calls[p])]
    BY <1>2, <1>6 DEF FinishCallback
  <2>2. /\ calls' \in [Processes -> Seq(Call)] /\ calls'[p] = Front(calls[p])
        /\ \A q \in Processes \ {p} : calls'[q] = calls[q]
    BY <2>1, <1>1, <1>2
  <2> QED
    BY <2>2, <1>1, <1>2, <1>3, <1>6
<1> QED
  BY <1>5, <1>6

-----------------------------------------------------------------------------
(* Types.                                                                  *)
LEMMA CallsType ==
    ASSUME TypeOK, DeliveriesOK, Next
    PROVE  calls' \in [Processes -> Seq(Call)]
<1>1. CASE UNCHANGED calls
  BY <1>1, CallIsSet
<1>2. ASSUME NEW p \in Processes, NEW e \in Events, PublishSync(p, e)
      PROVE  calls' \in [Processes -> Seq(Call)]
  BY <1>2, PublishSyncDelivers DEF Delivers
<1>3. ASSUME WorkerTake PROVE calls' \in [Processes -> Seq(Call)]
  BY <1>3, WorkerTakeDelivers DEF Delivers
<1>4. ASSUME NEW p \in Processes, FinishCallback(p) PROVE calls' \in [Processes -> Seq(Call)]
  BY <1>4, FinishDelivers DEF Delivers
<1> HIDE DEF Call
<1>5. ASSUME NEW t \in Threads, ClientCall(t) PROVE UNCHANGED calls
  BY <1>5 DEF ClientCall, Unsubscribe, AwaitCallbacks, Start, Stop
<1>6. ASSUME NEW t \in Threads,
             UnsubscribeResume(t) \/ StartWorker(t) \/ StartFails(t) \/ FinishStop(t)
      PROVE  UNCHANGED calls
  BY <1>6 DEF UnsubscribeResume, AwaitCallbacks, StartWorker, StartFails, FinishStop
<1>7. ASSUME NEW p \in Processes, WorkerBlock \/ WorkerExit \/ WakeSpuriously(p)
      PROVE  UNCHANGED calls
  BY <1>7 DEF WorkerBlock, WorkerExit, WakeSpuriously
<1>8. ASSUME NEW p \in Processes, NEW e \in Events, NEW s \in Subscriptions,
             Subscribe(p, s, e)
      PROVE  UNCHANGED calls
  BY <1>8 DEF Subscribe
<1>9. ASSUME NEW p \in Processes, Use(p) PROVE calls' \in [Processes -> Seq(Call)]
  <2>1. PICK e \in Events :
          \/ \E s \in Subscriptions : Subscribe(p, s, e)
          \/ PublishSync(p, e)
          \/ PublishAsync(p, e)
    BY <1>9 DEF Use
  <2>2. ASSUME NEW s \in Subscriptions, Subscribe(p, s, e) PROVE UNCHANGED calls
    BY <2>2, <1>8
  <2>3. CASE PublishAsync(p, e)
    BY <2>3, <1>1 DEF PublishAsync
  <2>4. CASE PublishSync(p, e)
    BY <2>4, <1>2
  <2> QED
    BY <2>1, <2>2, <2>3, <2>4, <1>1
<1>10. ASSUME NEW t \in Threads, ClientStep(t) PROVE calls' \in [Processes -> Seq(Call)]
  BY <1>10, <1>1, <1>4, <1>6 DEF ClientStep
<1>11. ASSUME WorkerStep PROVE calls' \in [Processes -> Seq(Call)]
  BY <1>11, <1>1, <1>3, <1>4, <1>7 DEF WorkerStep
<1> QED
  BY <1>1, <1>5, <1>7, <1>9, <1>10, <1>11 DEF Next

(* The points a process may be at.                                         *)
PointsOK ==
    /\ pc \in [Processes -> ClientPCs \union WorkerPCs]
    /\ \A t \in Threads : pc[t] \in ClientPCs
    /\ pc[Worker] \in WorkerPCs

(* Every process stays at the points of its kind.                          *)
LEMMA PointsType == ASSUME PointsOK, Next PROVE PointsOK'
<1> USE DEF PointsOK, ClientPCs, WorkerPCs, UnsubscribePCs, StopPCs
<1>1. ASSUME NEW t \in Threads, ClientCall(t) PROVE PointsOK'
  BY <1>1 DEF ClientCall, Unsubscribe, AwaitCallbacks, Start, Stop, WakeWorker
<1>2. ASSUME NEW t \in Threads, UnsubscribeResume(t) \/ StartWorker(t) \/ StartFails(t) \/ FinishStop(t)
      PROVE  PointsOK'
  BY <1>2 DEF UnsubscribeResume, AwaitCallbacks, StartWorker, StartFails, FinishStop
<1>3. ASSUME NEW p \in Processes, FinishCallback(p) PROVE PointsOK'
  BY <1>3 DEF FinishCallback, WakeWaiters
<1>4. ASSUME WorkerTake \/ WorkerBlock \/ WorkerExit PROVE PointsOK'
  BY <1>4 DEF WorkerTake, WorkerBlock, WorkerExit
<1>5. ASSUME NEW p \in Processes, Use(p) PROVE PointsOK'
  BY <1>5 DEF Use, Subscribe, PublishSync, PublishAsync, WakeWorker
<1>6. ASSUME NEW p \in Processes, WakeSpuriously(p) PROVE PointsOK'
  BY <1>6 DEF WakeSpuriously
<1> QED
  BY <1>1, <1>2, <1>3, <1>4, <1>5, <1>6 DEF Next, ClientStep, WorkerStep

(* The other variables.                                                    *)
DataOK ==
    /\ allocated \subseteq Subscriptions
    /\ event_id \in [Subscriptions -> Events]
    /\ in_flight \in [Subscriptions -> Nat]
    /\ subscribers \subseteq Subscriptions /\ IsFiniteSet(subscribers)
    /\ Cardinality(subscribers) <= MaxSubscribers
    /\ queue \in Seq(SUBSET Subscriptions) /\ Len(queue) <= QueueCapacity
    /\ running \in BOOLEAN /\ accepting \in BOOLEAN
    /\ handles \subseteq Subscriptions
    /\ target \in [Threads -> Subscriptions \union {NULL}]
    /\ publishes \in 0..MaxPublishes

(* Types, split into data, points and deliveries.                          *)
LEMMA TypesParts == Types <=> DataOK /\ PointsOK /\ calls \in [Processes -> Seq(Call)]
  BY DEF Types, TypeOK, DataOK, PointsOK, Call

(* The type of the other variables is kept; the array never exceeds        *)
(* SYS_EVENT_MAX_SUBSCRIBERS, nor the queue its capacity.                  *)
LEMMA DataType == ASSUME Types, DeliveriesOK, TargetsOK, Next PROVE DataOK'
<1> DataOK /\ TypeOK
  BY TypesParts DEF Types
<1>1. ASSUME NEW t \in Threads, NEW s \in Subscriptions, Unsubscribe(t, s) PROVE DataOK'
  <2>1. IsFiniteSet(subscribers \ {s}) /\ Cardinality(subscribers \ {s}) <= Cardinality(subscribers)
    BY FS_Subset DEF DataOK
  <2>2. Cardinality(subscribers \ {s}) \in Nat /\ Cardinality(subscribers) \in Nat
    BY <2>1, FS_CardinalityType DEF DataOK
  <2>3. Cardinality(subscribers \ {s}) <= MaxSubscribers
    BY <2>1, <2>2 DEF DataOK
  <2>4. allocated' \subseteq Subscriptions /\ target' \in [Threads -> Subscriptions \union {NULL}]
    BY <1>1 DEF DataOK, Unsubscribe, AwaitCallbacks
  <2> QED
    BY <1>1, <2>1, <2>3, <2>4 DEF DataOK, Unsubscribe, AwaitCallbacks
<1>2. ASSUME NEW t \in Threads, UnsubscribeResume(t) PROVE DataOK'
  BY <1>2 DEF DataOK, UnsubscribeResume, AwaitCallbacks
<1>12. ASSUME NEW t \in Threads, Start(t) PROVE DataOK'
  <2>1. <<>> \in Seq(SUBSET Subscriptions) /\ Len(<<>>) <= QueueCapacity
    OBVIOUS
  <2> QED
    BY <1>12, <2>1 DEF DataOK, Start
<1>3. ASSUME NEW t \in Threads, StartWorker(t) \/ StartFails(t) \/ Stop(t) PROVE DataOK'
  BY <1>3 DEF DataOK, StartWorker, StartFails, Stop
<1>4. ASSUME NEW t \in Threads, FinishStop(t) PROVE DataOK'
  <2>1. subscribers' = subscribers \/ subscribers' = {}
    BY <1>4 DEF FinishStop
  <2>2. IsFiniteSet({}) /\ Cardinality({}) <= MaxSubscribers
    BY FS_EmptySet
  <2>3. IsFiniteSet(subscribers') /\ Cardinality(subscribers') <= MaxSubscribers
    BY <2>1, <2>2 DEF DataOK
  <2> QED
    BY <1>4, <2>3 DEF DataOK, FinishStop
<1>5. ASSUME NEW p \in Processes, NEW e \in Events, NEW s \in Subscriptions, Subscribe(p, s, e)
      PROVE  DataOK'
  <2>1. /\ IsFiniteSet(subscribers \union {s})
        /\ Cardinality(subscribers \union {s}) =
              IF s \in subscribers THEN Cardinality(subscribers) ELSE Cardinality(subscribers) + 1
    BY FS_AddElement DEF DataOK
  <2>2. Cardinality(subscribers) \in Nat
    BY FS_CardinalityType DEF DataOK
  <2>3. Cardinality(subscribers \union {s}) <= MaxSubscribers
    BY <1>5, <2>1, <2>2 DEF DataOK, Subscribe
  <2> QED
    BY <1>5, <2>1, <2>3 DEF DataOK, Subscribe
<1>6. ASSUME NEW S \in SUBSET Subscriptions, Retain(S) PROVE in_flight' \in [Subscriptions -> Nat]
  BY <1>6 DEF Retain, DataOK
<1>7. ASSUME NEW p \in Processes, NEW e \in Events, PublishSync(p, e) PROVE DataOK'
  <2>1. Matching(e) \in SUBSET Subscriptions
    BY DEF Matching, DataOK
  <2>2. in_flight' \in [Subscriptions -> Nat]
    BY <1>6, <1>7, <2>1 DEF PublishSync
  <2> QED
    BY <1>7, <2>2 DEF DataOK, PublishSync
<1>8. ASSUME NEW p \in Processes, NEW e \in Events, PublishAsync(p, e) PROVE DataOK'
  <2>1. Matching(e) \in SUBSET Subscriptions
    BY DEF Matching, DataOK
  <2>2. in_flight' \in [Subscriptions -> Nat]
    BY <1>6, <1>8, <2>1 DEF PublishAsync
  <2>3. queue' \in Seq(SUBSET Subscriptions) /\ Len(queue') <= QueueCapacity
    BY <1>8, <2>1 DEF DataOK, PublishAsync, QueueHasRoom
  <2> QED
    BY <1>8, <2>2, <2>3 DEF DataOK, PublishAsync
<1>9. ASSUME NEW p \in Processes, FinishCallback(p) PROVE DataOK'
  <2>1. Innermost(p) \in Call /\ Innermost(p) = Last(calls[p])
    BY <1>9, FinishDelivers
  <2>2. Innermost(p).running \in Subscriptions
    BY <2>1 DEF Call
  <2>3. in_flight' \in [Subscriptions -> Nat]
    BY <1>9, <2>1, <2>2 DEF DataOK, FinishCallback
  <2> QED
    BY <1>9, <2>3 DEF DataOK, FinishCallback
<1>10. ASSUME WorkerTake PROVE DataOK'
  BY <1>10 DEF DataOK, WorkerTake
<1>11. ASSUME NEW p \in Processes, WorkerBlock \/ WorkerExit \/ WakeSpuriously(p) PROVE DataOK'
  BY <1>11 DEF DataOK, WorkerBlock, WorkerExit, WakeSpuriously
<1> QED
  BY <1>1, <1>2, <1>3, <1>4, <1>5, <1>7, <1>8, <1>9, <1>10, <1>11, <1>12
  DEF Next, ClientCall, ClientStep, WorkerStep, Use

(* Every step keeps the types.                                             *)
LEMMA TypesStep == ASSUME Types, DeliveriesOK, TargetsOK, Next PROVE Types'
<1>1. TypeOK
  BY DEF Types
<1>2. DataOK' /\ calls' \in [Processes -> Seq(Call)] /\ PointsOK'
  BY <1>1, DataType, CallsType, PointsType, TypesParts
<1>3. (Types <=> DataOK /\ PointsOK /\ calls \in [Processes -> Seq(Call)])'
  BY TypesParts, PTL
<1> QED
  BY <1>2, <1>3

-----------------------------------------------------------------------------
(* What the return of a callback does to the points of the processes.      *)
LEMMA FinishPoints ==
    ASSUME Types, DeliveriesOK, NEW p \in Processes, FinishCallback(p)
    PROVE  /\ pc[p] = "callback"
           /\ \A q \in Processes \ {p} :
                \/ pc'[q] = pc[q]
                \/ pc[q] = "unsubscribe_sleep" /\ pc'[q] = "unsubscribe_woken"
                \/ pc[q] = "stop_sleep" /\ pc'[q] = "stop_woken"
           /\ IF Innermost(p).left # {} \/ Len(calls[p]) > 1 THEN pc'[p] = "callback"
              ELSE pc'[p] = IF p = Worker THEN "loop" ELSE "ready"
           /\ in_flight'[Innermost(p).running] = 0 =>
                \A q \in Processes : pc'[q] \notin {"unsubscribe_sleep", "stop_sleep"}
<1>1. /\ Len(calls[p]) > 0 /\ Innermost(p) = Last(calls[p])
      /\ Len(Front(calls[p])) = Len(calls[p]) - 1
  BY FinishDelivers DEF Types
<1>2. Front(calls[p]) \in Seq(Call) /\ calls[p] \in Seq(Call)
  BY <1>1, FrontPlaces, CallIsSet DEF Types
<1>3. Front(calls[p]) # <<>> <=> Len(calls[p]) > 1
  BY <1>1, <1>2
<1> DEFINE after == IF Innermost(p).left # {} \/ Len(calls[p]) > 1 THEN "callback"
                    ELSE IF p = Worker THEN "loop" ELSE "ready"
<1>4. /\ pc[p] = "callback"
      /\ pc' = WakeWaiters(in_flight'[Innermost(p).running], [pc EXCEPT ![p] = after])
  BY <1>1, <1>3 DEF FinishCallback
<1>5. pc \in [Processes -> ClientPCs \union WorkerPCs]
  BY DEF Types, TypeOK
<1>6. after \in {"callback", "loop", "ready"}
  OBVIOUS
<1> DEFINE stepped == [pc EXCEPT ![p] = after]
<1>7. stepped[p] = after /\ \A q \in Processes \ {p} : stepped[q] = pc[q]
  BY <1>5
<1>8. \A q \in Processes : pc'[q] = IF in_flight'[Innermost(p).running] # 0 THEN stepped[q]
                         ELSE IF stepped[q] = "unsubscribe_sleep" THEN "unsubscribe_woken"
                         ELSE IF stepped[q] = "stop_sleep" THEN "stop_woken"
                         ELSE stepped[q]
  BY <1>4 DEF WakeWaiters
<1> HIDE DEF stepped
<1>9. pc'[p] = after
  BY <1>6, <1>7, <1>8
<1> QED
  BY <1>4, <1>7, <1>8, <1>9

(* Which process is in a callback changes with its deliveries only.        *)
LEMMA DeliveriesStep ==
    ASSUME Types, DeliveriesOK, LifecycleOK, Next
    PROVE  DeliveriesOK'
<1>1. TypeOK /\ PointsOK /\ calls \in [Processes -> Seq(Call)]
  BY TypesParts DEF Types
<1> DEFINE SameCallbacks == \A q \in Processes : pc'[q] = "callback" <=> pc[q] = "callback"
<1>2. ASSUME UNCHANGED calls, SameCallbacks PROVE DeliveriesOK'
  BY <1>2 DEF DeliveriesOK
<1> USE DEF PointsOK, ClientPCs, WorkerPCs, UnsubscribePCs, StopPCs
<1>3. ASSUME NEW t \in Threads, ClientCall(t) PROVE DeliveriesOK'
  <2>1. UNCHANGED calls
    BY <1>3 DEF ClientCall, Unsubscribe, AwaitCallbacks, Start, Stop
  <2>2. SameCallbacks
    BY <1>1, <1>3 DEF ClientCall, Unsubscribe, AwaitCallbacks, Start, Stop, WakeWorker
  <2> QED
    BY <2>1, <2>2, <1>2
<1>4. ASSUME NEW t \in Threads,
             UnsubscribeResume(t) \/ StartWorker(t) \/ StartFails(t) \/ FinishStop(t)
      PROVE  DeliveriesOK'
  <2>1. UNCHANGED calls
    BY <1>4 DEF UnsubscribeResume, AwaitCallbacks, StartWorker, StartFails, FinishStop
  <2>2. CASE UnsubscribeResume(t)
    BY <2>1, <1>1, <1>2, <2>2 DEF UnsubscribeResume, AwaitCallbacks
  <2>3. CASE FinishStop(t)
    BY <2>1, <1>1, <1>2, <2>3 DEF FinishStop
  <2>4. CASE StartFails(t)
    BY <2>1, <1>1, <1>2, <2>4 DEF StartFails
  <2>5. CASE StartWorker(t)
    BY <2>1, <1>1, <1>2, <2>5 DEF StartWorker, LifecycleOK
  <2> QED
    BY <2>2, <2>3, <2>4, <2>5, <1>4
<1>5. ASSUME NEW p \in Processes, NEW outer \in Seq(Call), NEW S, Delivers(p, outer, S),
             pc'[p] = "callback", SameCallbacks \/ \A q \in Processes \ {p} : pc'[q] = pc[q],
             \A i \in 1..Len(outer) : outer[i].running \notin outer[i].left
      PROVE  DeliveriesOK'
  <2>1. ASSUME NEW q \in Processes \ {p}
        PROVE  /\ pc'[q] = "callback" <=> Len(calls'[q]) > 0
               /\ \A i \in 1..Len(calls'[q]) : calls'[q][i].running \notin calls'[q][i].left
    BY <1>5 DEF Delivers, DeliveriesOK
  <2>2. /\ Len(calls'[p]) > 0
        /\ \A i \in 1..Len(calls'[p]) : calls'[p][i].running \notin calls'[p][i].left
    BY <1>5 DEF Delivers
  <2> QED
    BY <2>1, <2>2, <1>5 DEF DeliveriesOK
<1>6. ASSUME NEW p \in Processes, NEW e \in Events, PublishSync(p, e) PROVE DeliveriesOK'
  <2>1. Delivers(p, calls[p], Matching(e)) /\ calls[p] \in Seq(Call)
    BY <1>1, <1>6, PublishSyncDelivers
  <2>2. pc'[p] = "callback" /\ \A q \in Processes \ {p} : pc'[q] = pc[q]
    BY <1>1, <1>6 DEF PublishSync
  <2>3. \A i \in 1..Len(calls[p]) : calls[p][i].running \notin calls[p][i].left
    BY DEF DeliveriesOK
  <2> QED
    BY <2>1, <2>2, <2>3, <1>5
<1>7. CASE WorkerTake
  <2>1. Delivers(Worker, <<>>, queue[1])
    BY <1>1, <1>7, WorkerTakeDelivers
  <2>2. <<>> \in Seq(Call) /\ \A i \in 1..Len(<<>>) : <<>>[i].running \notin <<>>[i].left
    OBVIOUS
  <2>3. pc'[Worker] = "callback" /\ \A q \in Processes \ {Worker} : pc'[q] = pc[q]
    BY <1>1, <1>7 DEF WorkerTake
  <2> QED
    BY <2>1, <2>2, <2>3, <1>5
<1>8. ASSUME NEW p \in Processes, NEW e \in Events, PublishAsync(p, e) PROVE DeliveriesOK'
  <2>1. UNCHANGED calls /\ SameCallbacks
    BY <1>1, <1>8 DEF PublishAsync, WakeWorker
  <2> QED
    BY <2>1, <1>2
<1>9. ASSUME NEW p \in Processes, NEW e \in Events, NEW s \in Subscriptions, Subscribe(p, s, e)
      PROVE  DeliveriesOK'
  <2>1. UNCHANGED calls /\ SameCallbacks
    BY <1>9 DEF Subscribe
  <2> QED
    BY <2>1, <1>2
<1>10. ASSUME NEW p \in Processes, WorkerBlock \/ WorkerExit \/ WakeSpuriously(p) PROVE DeliveriesOK'
  <2>1. UNCHANGED calls
    BY <1>10 DEF WorkerBlock, WorkerExit, WakeSpuriously
  <2>2. CASE WorkerBlock
    BY <2>1, <2>2, <1>1, <1>2 DEF WorkerBlock
  <2>3. CASE WorkerExit
    BY <2>1, <2>3, <1>1, <1>2 DEF WorkerExit
  <2>4. CASE WakeSpuriously(p)
    BY <2>1, <2>4, <1>1, <1>2 DEF WakeSpuriously
  <2> QED
    BY <2>2, <2>3, <2>4, <1>10
<1>11. ASSUME NEW p \in Processes, FinishCallback(p) PROVE DeliveriesOK'
  <2> DEFINE outer == Front(calls[p])
  <2>1. /\ Len(calls[p]) > 0 /\ Len(outer) = Len(calls[p]) - 1
        /\ \A i \in 1..Len(calls[p]) - 1 : outer[i] = calls[p][i]
        /\ Innermost(p).left # {} => Delivers(p, outer, Innermost(p).left)
        /\ Innermost(p).left = {} =>
             /\ \A q \in Processes \ {p} : calls'[q] = calls[q]
             /\ calls'[p] = outer
    BY <1>1, <1>11, FinishDelivers
  <2>2. outer \in Seq(Call)
    BY <1>1, <2>1, FrontPlaces
  <2> HIDE DEF outer
  <2>3. ASSUME NEW i \in 1..Len(outer) PROVE outer[i].running \notin outer[i].left
    <3>1. i \in 1..Len(calls[p]) /\ outer[i] = calls[p][i]
      BY <2>1, <2>2, <1>1
    <3> QED
      BY <3>1 DEF DeliveriesOK
  <2>4. \A q \in Processes \ {p} : pc'[q] = "callback" <=> pc[q] = "callback"
    BY <1>11, FinishPoints
  <2>5. /\ pc[p] = "callback"
        /\ IF Innermost(p).left # {} \/ Len(calls[p]) > 1 THEN pc'[p] = "callback"
           ELSE pc'[p] = IF p = Worker THEN "loop" ELSE "ready"
    BY <1>11, FinishPoints
  <2>6. CASE Innermost(p).left # {}
    BY <2>1, <2>2, <2>3, <2>4, <2>5, <2>6, <1>5
  <2>7. CASE Innermost(p).left = {}
    <3>1. pc'[p] = "callback" <=> Len(outer) > 0
      BY <2>1, <2>5, <2>7, <1>1
    <3>2. ASSUME NEW q \in Processes \ {p}
          PROVE  /\ pc'[q] = "callback" <=> Len(calls'[q]) > 0
                 /\ \A i \in 1..Len(calls'[q]) : calls'[q][i].running \notin calls'[q][i].left
      BY <2>1, <2>4, <2>7 DEF DeliveriesOK
    <3> QED
      BY <3>1, <3>2, <2>1, <2>3, <2>7 DEF DeliveriesOK
  <2> QED
    BY <2>6, <2>7
<1> QED
  BY <1>3, <1>4, <1>6, <1>7, <1>8, <1>9, <1>10, <1>11
  DEF Next, ClientStep, WorkerStep, Use

-----------------------------------------------------------------------------
(* Which threads unsubscribe what.                                         *)
LEMMA TargetsStep ==
    ASSUME Types, DeliveriesOK, TargetsOK, LifecycleOK, NoUseAfterFree, Next
    PROVE  TargetsOK'
<1>1. DataOK /\ PointsOK
  BY TypesParts
<1> USE DEF PointsOK, ClientPCs, WorkerPCs, UnsubscribePCs, StopPCs
<1>2. ASSUME UNCHANGED <<allocated, subscribers, target>>,
             \A t \in Threads : pc'[t] \in UnsubscribePCs <=> pc[t] \in UnsubscribePCs
      PROVE  TargetsOK'
  BY <1>2 DEF TargetsOK
<1>3. ASSUME NEW t \in Threads, NEW s \in Subscriptions, Unsubscribe(t, s) PROVE TargetsOK'
  <2>1. target[t] = NULL /\ s \in subscribers /\ s # NULL
    BY <1>1, <1>3 DEF Unsubscribe, TargetsOK
  <2>2. CASE MustWaitFor(s)
    <3>1. /\ target' = [target EXCEPT ![t] = s] /\ pc' = [pc EXCEPT ![t] = "unsubscribe_sleep"]
          /\ subscribers' = subscribers \ {s} /\ allocated' = allocated /\ pc[t] = "ready"
      BY <1>3, <2>2 DEF Unsubscribe, AwaitCallbacks
    <3>2. /\ target'[t] = s /\ pc'[t] \in UnsubscribePCs
          /\ \A u \in Threads \ {t} : target'[u] = target[u] /\ pc'[u] = pc[u]
      BY <1>1, <3>1 DEF DataOK
    <3> QED
      BY <1>1, <2>1, <3>1, <3>2 DEF TargetsOK, DataOK
  <2>3. CASE ~MustWaitFor(s)
    BY <1>1, <1>3, <2>1, <2>3 DEF Unsubscribe, AwaitCallbacks, TargetsOK, DataOK
  <2> QED
    BY <2>2, <2>3
<1>4. ASSUME NEW t \in Threads, UnsubscribeResume(t) PROVE TargetsOK'
  <2>1. pc[t] = "unsubscribe_woken" /\ target[t] # NULL
    BY <1>4 DEF UnsubscribeResume, TargetsOK
  <2>2. CASE MustWaitFor(target[t])
    <3>1. UNCHANGED <<allocated, subscribers, target>>
      BY <1>1, <1>4, <2>2 DEF UnsubscribeResume, AwaitCallbacks, DataOK
    <3> QED
      BY <3>1, <2>1, <2>2, <1>1, <1>2, <1>4 DEF UnsubscribeResume, AwaitCallbacks
  <2>3. CASE ~MustWaitFor(target[t])
    <3>1. /\ allocated' = allocated \ {target[t]} /\ subscribers' = subscribers
          /\ target'[t] = NULL /\ \A u \in Threads \ {t} : target'[u] = target[u]
          /\ pc'[t] = "ready" /\ \A u \in Threads \ {t} : pc'[u] = pc[u]
      BY <1>1, <1>4, <2>3 DEF UnsubscribeResume, AwaitCallbacks, DataOK
    <3>2. \A u \in Threads : target'[u] # NULL <=> pc'[u] \in UnsubscribePCs
      BY <3>1 DEF TargetsOK
    <3>3. NULL \notin subscribers
      BY <1>1 DEF DataOK
    <3>4. \A u \in Threads : target'[u] \notin subscribers
      BY <3>1, <3>3 DEF TargetsOK
    <3>5. \A u, v \in Threads : target'[u] = target'[v] => u = v \/ target'[u] = NULL
      BY <3>1 DEF TargetsOK
    <3>6. \A s \in allocated' \ subscribers : \E u \in Threads : target'[u] = s
      BY <3>1 DEF TargetsOK
    <3> QED
      BY <3>1, <3>2, <3>4, <3>5, <3>6 DEF TargetsOK
  <2> QED
    BY <2>2, <2>3
<1>5. ASSUME NEW t \in Threads, Start(t) \/ StartWorker(t) \/ StartFails(t) \/ Stop(t)
      PROVE  TargetsOK'
  BY <1>1, <1>2, <1>5 DEF Start, StartWorker, StartFails, Stop, WakeWorker
<1>6. ASSUME NEW t \in Threads, FinishStop(t) PROVE TargetsOK'
  <2>1. CASE HasInFlight
    BY <1>1, <1>2, <1>6, <2>1 DEF FinishStop
  <2>2. CASE ~HasInFlight
    BY <1>1, <1>6, <2>2 DEF FinishStop, TargetsOK
  <2> QED
    BY <2>1, <2>2
<1>7. ASSUME NEW p \in Processes, NEW e \in Events, NEW s \in Subscriptions, Subscribe(p, s, e)
      PROVE  TargetsOK'
  <2>1. /\ s \notin allocated /\ allocated' = allocated \union {s}
        /\ subscribers' = subscribers \union {s} /\ UNCHANGED <<pc, target>>
    BY <1>7 DEF Subscribe
  <2>2. \A t \in Threads : target[t] # s
    BY <2>1 DEF NoUseAfterFree
  <2> QED
    BY <2>1, <2>2 DEF TargetsOK
<1>8. ASSUME NEW p \in Processes, NEW e \in Events, PublishSync(p, e) \/ PublishAsync(p, e)
      PROVE  TargetsOK'
  BY <1>1, <1>2, <1>8 DEF PublishSync, PublishAsync, WakeWorker
<1>9. ASSUME NEW p \in Processes, FinishCallback(p) PROVE TargetsOK'
  <2>1. UNCHANGED <<allocated, subscribers, target>>
    BY <1>9 DEF FinishCallback
  <2>2. \A t \in Threads : pc'[t] \in UnsubscribePCs <=> pc[t] \in UnsubscribePCs
    BY <1>9, FinishPoints
  <2> QED
    BY <2>1, <2>2, <1>2
<1>10. ASSUME NEW p \in Processes, WorkerTake \/ WorkerBlock \/ WorkerExit \/ WakeSpuriously(p)
       PROVE  TargetsOK'
  BY <1>1, <1>2, <1>10 DEF WorkerTake, WorkerBlock, WorkerExit, WakeSpuriously
<1> QED
  BY <1>3, <1>4, <1>5, <1>6, <1>7, <1>8, <1>9, <1>10
  DEF Next, ClientCall, ClientStep, WorkerStep, Use

(* Starting and stopping.                                                  *)
LEMMA LifecycleStep ==
    ASSUME Types, DeliveriesOK, LifecycleOK, Next
    PROVE  LifecycleOK'
<1>1. DataOK /\ PointsOK
  BY TypesParts
<1> USE DEF PointsOK, ClientPCs, WorkerPCs, UnsubscribePCs, StopPCs, LifecyclePCs
<1>2. ASSUME UNCHANGED <<running, accepting>>,
             pc'[Worker] = "none" <=> pc[Worker] = "none",
             \A t \in Threads : \/ pc'[t] = pc[t]
                                \/ pc'[t] \notin LifecyclePCs /\ pc[t] \notin LifecyclePCs
                                \/ pc[t] = "stop_sleep" /\ pc'[t] = "stop_woken"
      PROVE  LifecycleOK'
  BY <1>2 DEF LifecycleOK
<1>3. ASSUME NEW t \in Threads, NEW s \in Subscriptions, Unsubscribe(t, s) PROVE LifecycleOK'
  BY <1>1, <1>2, <1>3 DEF Unsubscribe, AwaitCallbacks
<1>4. ASSUME NEW t \in Threads, UnsubscribeResume(t) PROVE LifecycleOK'
  BY <1>1, <1>2, <1>4 DEF UnsubscribeResume, AwaitCallbacks
<1>5. ASSUME NEW t \in Threads, Start(t) PROVE LifecycleOK'
  BY <1>1, <1>5 DEF Start, LifecycleOK, At
<1>6. ASSUME NEW t \in Threads, StartWorker(t) PROVE LifecycleOK'
  BY <1>1, <1>6 DEF StartWorker, LifecycleOK
<1>7. ASSUME NEW t \in Threads, StartFails(t) PROVE LifecycleOK'
  BY <1>1, <1>7 DEF StartFails, LifecycleOK
<1>8. ASSUME NEW t \in Threads, Stop(t) PROVE LifecycleOK'
  BY <1>1, <1>8 DEF Stop, LifecycleOK, At, WakeWorker
<1>9. ASSUME NEW t \in Threads, FinishStop(t) PROVE LifecycleOK'
  BY <1>1, <1>9 DEF FinishStop, LifecycleOK
<1>10. ASSUME NEW p \in Processes, NEW e \in Events, NEW s \in Subscriptions, Subscribe(p, s, e)
       PROVE  LifecycleOK'
  <2>1. UNCHANGED <<pc, running>> /\ accepting /\ accepting' = accepting
    BY <1>10 DEF Subscribe
  <2> QED
    BY <2>1, <1>2
<1>11. ASSUME NEW p \in Processes, NEW e \in Events, PublishSync(p, e) PROVE LifecycleOK'
  BY <1>1, <1>2, <1>11 DEF PublishSync
<1>12. ASSUME NEW p \in Processes, NEW e \in Events, PublishAsync(p, e) PROVE LifecycleOK'
  BY <1>1, <1>2, <1>12 DEF PublishAsync, WakeWorker
<1>13. ASSUME NEW p \in Processes, FinishCallback(p) PROVE LifecycleOK'
  <2>1. UNCHANGED <<running, accepting>>
    BY <1>13 DEF FinishCallback
  <2> QED
    BY <2>1, <1>1, <1>2, <1>13, FinishPoints
<1>14. CASE WorkerTake
  BY <1>1, <1>2, <1>14 DEF WorkerTake
<1>15. CASE WorkerBlock
  BY <1>1, <1>2, <1>15 DEF WorkerBlock
<1>16. CASE WorkerExit
  BY <1>1, <1>16 DEF WorkerExit, WorkerMayExit, LifecycleOK
<1>17. ASSUME NEW p \in Processes, WakeSpuriously(p) PROVE LifecycleOK'
  BY <1>1, <1>2, <1>17 DEF WakeSpuriously
<1> QED
  BY <1>3, <1>4, <1>5, <1>6, <1>7, <1>8, <1>9, <1>10, <1>11, <1>12, <1>13, <1>14, <1>15, <1>16, <1>17
  DEF Next, ClientCall, ClientStep, WorkerStep, Use

-----------------------------------------------------------------------------
(* Counting: a queue, and the deliveries of all processes, as data.        *)
Places(q, s) == {i \in DOMAIN q : s \in q[i]}
Holds(c, s, p, i) == i \in 1..Len(c[p]) /\ s \in Callees(c[p][i])
Held(c, s) == UNION {{p} \X {i \in DOMAIN c[p] : s \in Callees(c[p][i])} : p \in Processes}
Member(s, S) == IF s \in S THEN 1 ELSE 0

(* The places of a queue that hold s are finitely many.                    *)
LEMMA PlacesFinite ==
    ASSUME NEW q \in Seq(SUBSET Subscriptions), NEW s
    PROVE  IsFiniteSet(Places(q, s)) /\ Cardinality(Places(q, s)) \in Nat
<1>1. Places(q, s) \in SUBSET (1..Len(q)) /\ Len(q) \in Int /\ 1 \in Int
  BY DEF Places
<1>2. IsFiniteSet(1..Len(q))
  BY <1>1, FS_Interval
<1>3. IsFiniteSet(Places(q, s))
  BY <1>1, <1>2, FS_Subset
<1> QED
  BY <1>3, FS_CardinalityType

(* Appending S adds a place that holds s when S does.                      *)
LEMMA PlacesAppend ==
    ASSUME NEW q \in Seq(SUBSET Subscriptions), NEW S \in SUBSET Subscriptions, NEW s
    PROVE  Cardinality(Places(Append(q, S), s)) = Cardinality(Places(q, s)) + Member(s, S)
<1> DEFINE n == Len(q) + 1
<1>1. /\ DOMAIN q = 1..Len(q) /\ DOMAIN Append(q, S) = 1..n /\ Len(q) \in Nat
      /\ \A i \in 1..Len(q) : Append(q, S)[i] = q[i]
      /\ Append(q, S)[n] = S
  BY AppendPlaces
<1>2. IsFiniteSet(Places(q, s)) /\ Cardinality(Places(q, s)) \in Nat
  BY PlacesFinite
<1>3. n \notin Places(q, s)
  BY <1>1 DEF Places
<1>4. Places(Append(q, S), s) = IF s \in S THEN Places(q, s) \union {n} ELSE Places(q, s)
  BY <1>1 DEF Places
<1> HIDE DEF n
<1>5. Cardinality(Places(q, s) \union {n}) = Cardinality(Places(q, s)) + 1
  BY <1>2, <1>3, FS_AddElement
<1> QED
  BY <1>2, <1>4, <1>5 DEF Member

(* Removing the first event removes a place that holds s when that event   *)
(* does.                                                                   *)
LEMMA PlacesTail ==
    ASSUME NEW q \in Seq(SUBSET Subscriptions), Len(q) > 0, NEW s
    PROVE  Cardinality(Places(q, s)) = Cardinality(Places(Tail(q), s)) + Member(s, q[1])
<1> DEFINE later == Places(q, s) \ {1}
           shift == [i \in Places(Tail(q), s) |-> i + 1]
<1>1. /\ DOMAIN q = 1..Len(q) /\ DOMAIN Tail(q) = 1..Len(q) - 1 /\ Len(q) \in Nat
      /\ \A i \in 1..Len(q) - 1 : Tail(q)[i] = q[i + 1]
      /\ Tail(q) \in Seq(SUBSET Subscriptions)
  BY TailPlaces
<1>2. IsFiniteSet(Places(q, s)) /\ Cardinality(Places(q, s)) \in Nat
  BY PlacesFinite
<1>3. IsFiniteSet(Places(Tail(q), s)) /\ Cardinality(Places(Tail(q), s)) \in Nat
  BY <1>1, PlacesFinite
<1>4. 1 \in Places(q, s) <=> s \in q[1]
  BY <1>1 DEF Places
<1>5. shift \in Bijection(Places(Tail(q), s), later)
  <2>1. ASSUME NEW i \in Places(Tail(q), s) PROVE i \in 1..Len(q) - 1 /\ i + 1 \in later
    BY <1>1 DEF Places
  <2>2. ASSUME NEW j \in later PROVE j - 1 \in Places(Tail(q), s) /\ shift[j - 1] = j
    <3>1. j \in 2..Len(q) /\ s \in q[j]
      BY <1>1 DEF Places
    <3>2. j - 1 \in 1..Len(q) - 1 /\ (j - 1) + 1 = j
      BY <3>1, <1>1
    <3>3. j - 1 \in Places(Tail(q), s)
      BY <3>1, <3>2, <1>1 DEF Places
    <3> QED
      BY <3>2, <3>3
  <2>3. shift \in [Places(Tail(q), s) -> later]
    BY <2>1
  <2>4. ASSUME NEW i \in Places(Tail(q), s), NEW j \in Places(Tail(q), s), shift[i] = shift[j]
        PROVE  i = j
    BY <2>1, <2>4
  <2> HIDE DEF shift, later
  <2> QED
    BY <2>2, <2>3, <2>4 DEF Bijection, Injection, IsInjective, Surjection
<1>6. Cardinality(later) = Cardinality(Places(Tail(q), s))
  BY <1>3, <1>5, FS_Bijection DEF ExistsBijection
<1>7. Cardinality(later) = IF 1 \in Places(q, s) THEN Cardinality(Places(q, s)) - 1
                           ELSE Cardinality(Places(q, s))
  BY <1>2, FS_RemoveElement
<1> HIDE DEF later, shift
<1> QED
  BY <1>2, <1>3, <1>4, <1>6, <1>7 DEF Member

(* The members of Held are the deliveries that hold s.                     *)
Members(c, s) ==
    /\ \A p \in Processes : \A i : <<p, i>> \in Held(c, s) <=> Holds(c, s, p, i)
    /\ \A d \in Held(c, s) : \E p \in Processes, i \in Nat : d = <<p, i>>

(* A delivery that holds s, as a process and a depth.                      *)
LEMMA HeldMember ==
    ASSUME NEW c \in [Processes -> Seq(Call)], NEW s
    PROVE  Members(c, s)
<1>1. ASSUME NEW p \in Processes PROVE DOMAIN c[p] = 1..Len(c[p])
  OBVIOUS
<1>2. ASSUME NEW p \in Processes, NEW i PROVE <<p, i>> \in Held(c, s) <=> Holds(c, s, p, i)
  BY <1>1 DEF Held, Holds
<1>3. ASSUME NEW d \in Held(c, s) PROVE \E p \in Processes, i \in Nat : d = <<p, i>>
  BY <1>1 DEF Held
<1> QED
  BY <1>2, <1>3 DEF Members

(* Two states of the deliveries that hold s at the same places.            *)
LEMMA HeldSame ==
    ASSUME NEW f \in [Processes -> Seq(Call)], NEW g \in [Processes -> Seq(Call)], NEW s,
           \A p \in Processes, i \in Nat : Holds(g, s, p, i) <=> Holds(f, s, p, i)
    PROVE  Held(g, s) = Held(f, s)
<1> HIDE DEF Call, Processes
<1>1. Members(f, s) /\ Members(g, s)
  BY HeldMember
<1>2. Held(g, s) \subseteq Held(f, s)
  BY <1>1 DEF Members
<1>3. Held(f, s) \subseteq Held(g, s)
  BY <1>1 DEF Members
<1> QED
  BY <1>2, <1>3

(* g holds s at one place more than f.                                     *)
OneMore(f, g, s, p, n) ==
    /\ ~Holds(f, s, p, n)
    /\ \A q \in Processes, i \in Nat :
           Holds(g, s, q, i) <=> Holds(f, s, q, i) \/ (q = p /\ i = n)

(* One more place is one more in the count.                                *)
LEMMA HeldMore ==
    ASSUME NEW f \in [Processes -> Seq(Call)], NEW g \in [Processes -> Seq(Call)], NEW s,
           NEW p \in Processes, NEW n \in Nat, OneMore(f, g, s, p, n)
    PROVE  /\ IsFiniteSet(Held(f, s)) <=> IsFiniteSet(Held(g, s))
           /\ IsFiniteSet(Held(f, s)) => Cardinality(Held(g, s)) = Cardinality(Held(f, s)) + 1
<1> HIDE DEF Call, Processes
<1>1. /\ \A q \in Processes : \A i : <<q, i>> \in Held(f, s) <=> Holds(f, s, q, i)
      /\ \A d \in Held(f, s) : \E q \in Processes, i \in Nat : d = <<q, i>>
  <2>1. Members(f, s)
    BY HeldMember
  <2> QED
    BY <2>1 DEF Members
<1>2. /\ \A q \in Processes : \A i : <<q, i>> \in Held(g, s) <=> Holds(g, s, q, i)
      /\ \A d \in Held(g, s) : \E q \in Processes, i \in Nat : d = <<q, i>>
  <2>1. Members(g, s)
    BY HeldMember
  <2> QED
    BY <2>1 DEF Members
<1>3. <<p, n>> \notin Held(f, s) /\ <<p, n>> \in Held(g, s)
  BY <1>1, <1>2 DEF OneMore
<1>4. \A q \in Processes, i \in Nat :
          <<q, i>> \in Held(g, s) <=> <<q, i>> \in Held(f, s) \/ (q = p /\ i = n)
  BY <1>1, <1>2 DEF OneMore
<1>5. Held(g, s) = Held(f, s) \union {<<p, n>>}
  <2>1. ASSUME NEW d \in Held(f, s) PROVE d \in Held(g, s)
    BY <1>1, <1>4, <2>1
  <2>2. ASSUME NEW d \in Held(g, s) PROVE d \in Held(f, s) \union {<<p, n>>}
    BY <1>2, <1>4, <2>2
  <2> QED
    BY <1>3, <2>1, <2>2
<1>6. IsFiniteSet(Held(g, s)) => IsFiniteSet(Held(f, s))
  BY <1>5, FS_Subset
<1>7. IsFiniteSet(Held(f, s)) =>
          /\ IsFiniteSet(Held(g, s))
          /\ Cardinality(Held(g, s)) = Cardinality(Held(f, s)) + 1
  BY <1>3, <1>5, FS_AddElement
<1> QED
  BY <1>6, <1>7

-----------------------------------------------------------------------------
(* Counting: the steps that deliver and return.                            *)
LEMMA CallsCount ==
    ASSUME Types, Covered, NEW s \in Subscriptions
    PROVE  /\ IsFiniteSet(InDelivery(s)) /\ Cardinality(InDelivery(s)) \in Nat
           /\ Cardinality(Queued(s)) \in Nat /\ Calls(s) \in Nat
<1>1. IsFiniteSet(InDelivery(s)) /\ Cardinality(InDelivery(s)) \in Nat
  BY FS_CardinalityType DEF Covered
<1>2. Cardinality(Places(queue, s)) \in Nat
  BY PlacesFinite DEF Types, TypeOK
<1> QED
  BY <1>1, <1>2 DEF Calls, Queued, Places

(* InDelivery is Held of the variable calls.                               *)
LEMMA InDeliveryIsHeld == \A s : InDelivery(s) = Held(calls, s)
  BY DEF InDelivery, Held, DeliveriesOf

(* The same in the next state.                                             *)
LEMMA InDeliveryIsHeldPrimed == \A s : InDelivery(s)' = Held(calls', s)
  BY DEF InDelivery, Held, DeliveriesOf

(* A delivery to S: one more call of each member of S.                     *)
LEMMA DeliverCounts ==
    ASSUME Types, Covered, NEW p \in Processes, NEW S \in SUBSET Subscriptions,
           Delivers(p, calls[p], S), NEW s \in Subscriptions
    PROVE  /\ IsFiniteSet(InDelivery(s)')
           /\ Cardinality(InDelivery(s)') = Cardinality(InDelivery(s)) + Member(s, S)
<1> DEFINE n == Len(calls[p]) + 1
<1>1. calls \in [Processes -> Seq(Call)] /\ calls' \in [Processes -> Seq(Call)] /\ n \in Nat
  BY TypesParts DEF Delivers
<1>2. IsFiniteSet(Held(calls, s)) /\ Cardinality(Held(calls, s)) \in Nat
  BY CallsCount, InDeliveryIsHeld
<1>3. \A q \in Processes \ {p}, i \in Nat : Holds(calls', s, q, i) <=> Holds(calls, s, q, i)
  BY DEF Delivers, Holds
<1>4. \A i \in Nat : Holds(calls', s, p, i) <=> Holds(calls, s, p, i) \/ (i = n /\ s \in S)
  BY <1>1 DEF Delivers, Holds
<1>5. ~Holds(calls, s, p, n)
  BY <1>1 DEF Holds
<1> HIDE DEF n, Call, Processes
<1>6. CASE s \in S
  <2>1. OneMore(calls, calls', s, p, n)
    BY <1>3, <1>4, <1>5, <1>6 DEF OneMore
  <2>2. /\ IsFiniteSet(Held(calls', s))
        /\ Cardinality(Held(calls', s)) = Cardinality(Held(calls, s)) + 1
    BY <2>1, <1>1, <1>2, HeldMore
  <2> QED
    BY <2>2, <1>6, InDeliveryIsHeld, InDeliveryIsHeldPrimed DEF Member
<1>7. CASE s \notin S
  <2>1. \A q \in Processes, i \in Nat : Holds(calls', s, q, i) <=> Holds(calls, s, q, i)
    BY <1>3, <1>4, <1>7
  <2>2. Held(calls', s) = Held(calls, s)
    BY <2>1, <1>1, HeldSame
  <2> QED
    BY <2>2, <1>2, <1>7, InDeliveryIsHeld, InDeliveryIsHeldPrimed DEF Member
<1> QED
  BY <1>6, <1>7

(* A callback of Innermost(p).running returns: one call of it less.        *)
LEMMA FinishCounts ==
    ASSUME Types, Covered, DeliveriesOK, NEW p \in Processes, FinishCallback(p),
           NEW s \in Subscriptions
    PROVE  /\ IsFiniteSet(InDelivery(s)')
           /\ Cardinality(InDelivery(s)) =
                 Cardinality(InDelivery(s)') + Member(s, {Innermost(p).running})
<1> DEFINE n == Len(calls[p])
           r == Innermost(p).running
           left == Innermost(p).left
<1>1. /\ calls \in [Processes -> Seq(Call)] /\ n \in Nat /\ n > 0
      /\ r \notin left /\ Callees(calls[p][n]) = {r} \union left
  BY TypesParts, FinishDelivers DEF Callees, Innermost, Types
<1>2. IsFiniteSet(Held(calls, s)) /\ Cardinality(Held(calls, s)) \in Nat
  BY CallsCount, InDeliveryIsHeld
<1>3. /\ calls' \in [Processes -> Seq(Call)] /\ \A q \in Processes \ {p} : calls'[q] = calls[q]
      /\ \A i \in 1..n - 1 : calls'[p][i] = calls[p][i]
      /\ IF left # {} THEN Len(calls'[p]) = n /\ Callees(calls'[p][n]) = left
                      ELSE Len(calls'[p]) = n - 1
  <2>1. /\ Len(Front(calls[p])) = n - 1 /\ \A i \in 1..n - 1 : Front(calls[p])[i] = calls[p][i]
    BY FinishDelivers DEF Types
  <2>2. CASE left # {}
    <3>1. Delivers(p, Front(calls[p]), left)
      BY <2>2, FinishDelivers DEF Types
    <3> HIDE DEF left, n
    <3> QED
      BY <2>1, <2>2, <3>1, <1>1 DEF Delivers
  <2>3. CASE left = {}
    <3>1. /\ calls' \in [Processes -> Seq(Call)] /\ calls'[p] = Front(calls[p])
          /\ \A q \in Processes \ {p} : calls'[q] = calls[q]
      BY <2>3, FinishDelivers DEF Types
    <3> HIDE DEF left, n
    <3> QED
      BY <2>1, <2>3, <3>1
  <2> QED
    BY <2>2, <2>3
<1>9. n = Len(calls[p])
  OBVIOUS
<1> HIDE DEF n, r, left, Call
<1>4. \A q \in Processes \ {p}, i \in Nat : Holds(calls', s, q, i) <=> Holds(calls, s, q, i)
  BY <1>3 DEF Holds
<1>5. ASSUME NEW i \in Nat
      PROVE  Holds(calls, s, p, i) <=> Holds(calls', s, p, i) \/ (i = n /\ s = r)
  <2>1. CASE i \in 1..n - 1
    BY <1>1, <1>3, <1>9, <2>1 DEF Holds
  <2>2. CASE i = n /\ left # {}
    BY <1>1, <1>3, <1>9, <2>2 DEF Holds
  <2>3. CASE i = n /\ left = {}
    BY <1>1, <1>3, <1>9, <2>3 DEF Holds
  <2>4. CASE i = 0 \/ i > n
    BY <1>1, <1>3, <1>9, <2>4 DEF Holds
  <2> QED
    BY <2>1, <2>2, <2>3, <2>4, <1>1
<1>6. s = r => ~Holds(calls', s, p, n)
  BY <1>1, <1>3, <1>9 DEF Holds
<1> HIDE DEF Processes
<1>7. CASE s = r
  <2>1. OneMore(calls', calls, s, p, n)
    BY <1>4, <1>5, <1>6, <1>7 DEF OneMore
  <2>2. /\ IsFiniteSet(Held(calls', s))
        /\ Cardinality(Held(calls, s)) = Cardinality(Held(calls', s)) + 1
    BY <2>1, <1>1, <1>2, <1>3, HeldMore
  <2> QED
    BY <2>2, <1>7, InDeliveryIsHeld, InDeliveryIsHeldPrimed DEF Member, r
<1>8. CASE s # r
  <2>1. \A q \in Processes, i \in Nat : Holds(calls', s, q, i) <=> Holds(calls, s, q, i)
    BY <1>4, <1>5, <1>8
  <2>2. Held(calls', s) = Held(calls, s)
    BY <2>1, <1>1, <1>3, HeldSame
  <2> QED
    BY <2>2, <1>2, <1>8, InDeliveryIsHeld, InDeliveryIsHeldPrimed DEF Member, r
<1> QED
  BY <1>7, <1>8

-----------------------------------------------------------------------------
(* Every step keeps the account of a subscription s that it leaves         *)
(* allocated, but for Start, which forgets the queue.                      *)
Even(s) == in_flight'[s] + Calls(s) = in_flight[s] + Calls(s)'

(* A step that touches none of what is counted.                            *)
LEMMA EvenWhenUnchanged ==
    ASSUME Types, Covered, UNCHANGED <<in_flight, queue, calls>>, NEW s \in Subscriptions
    PROVE  IsFiniteSet(InDelivery(s)') /\ Even(s)
<1>1. InDelivery(s)' = InDelivery(s) /\ Calls(s)' = Calls(s)
  BY DEF InDelivery, DeliveriesOf, Calls, Queued
<1>2. IsFiniteSet(InDelivery(s))
  BY DEF Covered
<1> QED
  BY <1>1, <1>2 DEF Even

(* A new subscription starts with an empty account; the others keep        *)
(* theirs.                                                                 *)
LEMMA EvenSubscribe ==
    ASSUME Types, Covered, NoUseAfterFree, NEW p \in Processes, NEW e \in Events,
           NEW new \in Subscriptions, Subscribe(p, new, e), NEW s \in Subscriptions
    PROVE  /\ IsFiniteSet(InDelivery(s)')
           /\ IF s = new THEN s \notin allocated /\ in_flight'[s] = 0 /\ Calls(s)' = 0 ELSE Even(s)
<1>1. /\ new \notin allocated /\ UNCHANGED <<queue, calls>>
      /\ in_flight' = [in_flight EXCEPT ![new] = 0]
  BY DEF Subscribe
<1>2. InDelivery(s)' = InDelivery(s) /\ Queued(s)' = Queued(s) /\ Calls(s)' = Calls(s)
  BY <1>1 DEF InDelivery, DeliveriesOf, Calls, Queued
<1>3. IsFiniteSet(InDelivery(s))
  BY DEF Covered
<1>4. in_flight \in [Subscriptions -> Nat]
  BY DEF Types, TypeOK
<1>5. CASE s # new
  BY <1>1, <1>2, <1>3, <1>4, <1>5 DEF Even
<1>6. CASE s = new
  <2>1. Queued(s) = {}
    BY <1>1, <1>6 DEF Queued, NoUseAfterFree
  <2>2. InDelivery(s) = {}
    BY <1>1, <1>6 DEF InDelivery, DeliveriesOf, NoUseAfterFree
  <2>3. Calls(s) = 0
    BY <2>1, <2>2, FS_EmptySet DEF Calls
  <2> QED
    BY <2>3, <1>1, <1>2, <1>3, <1>4, <1>6
<1> QED
  BY <1>5, <1>6

(* Retain counts each member of S once more.                               *)
LEMMA RetainAdds ==
    ASSUME Types, NEW S \in SUBSET Subscriptions, Retain(S), NEW s \in Subscriptions
    PROVE  in_flight'[s] = in_flight[s] + Member(s, S)
  BY DEF Retain, Member, Types, TypeOK

(* A synchronous publish counts each callback it is about to run.          *)
LEMMA EvenPublishSync ==
    ASSUME Types, Covered, NEW p \in Processes, NEW e \in Events, PublishSync(p, e),
           NEW s \in Subscriptions
    PROVE  IsFiniteSet(InDelivery(s)') /\ Even(s)
<1>1. /\ Delivers(p, calls[p], Matching(e)) /\ Matching(e) \in SUBSET Subscriptions
      /\ Retain(Matching(e)) /\ UNCHANGED queue
  BY PublishSyncDelivers DEF PublishSync, Types, TypeOK
<1>2. /\ IsFiniteSet(InDelivery(s)')
      /\ Cardinality(InDelivery(s)') = Cardinality(InDelivery(s)) + Member(s, Matching(e))
  BY <1>1, DeliverCounts
<1>3. in_flight'[s] = in_flight[s] + Member(s, Matching(e))
  BY <1>1, RetainAdds
<1>4. Cardinality(InDelivery(s)) \in Nat /\ Cardinality(Queued(s)) \in Nat /\ in_flight[s] \in Nat
  BY CallsCount DEF Types, TypeOK
<1>5. Queued(s)' = Queued(s) /\ Member(s, Matching(e)) \in {0, 1}
  BY <1>1 DEF Queued, Member
<1> QED
  BY <1>2, <1>3, <1>4, <1>5 DEF Even, Calls

(* An asynchronous publish counts each callback it queues.                 *)
LEMMA EvenPublishAsync ==
    ASSUME Types, Covered, NEW p \in Processes, NEW e \in Events, PublishAsync(p, e),
           NEW s \in Subscriptions
    PROVE  IsFiniteSet(InDelivery(s)') /\ Even(s)
<1>1. /\ Matching(e) \in SUBSET Subscriptions /\ queue \in Seq(SUBSET Subscriptions)
      /\ Retain(Matching(e)) /\ queue' = Append(queue, Matching(e)) /\ UNCHANGED calls
  BY DEF PublishAsync, Types, TypeOK, Matching
<1>2. Cardinality(Queued(s)') = Cardinality(Queued(s)) + Member(s, Matching(e))
  <2>1. Queued(s) = Places(queue, s) /\ Queued(s)' = Places(queue', s)
    BY DEF Queued, Places
  <2> QED
    BY <2>1, <1>1, PlacesAppend
<1>3. in_flight'[s] = in_flight[s] + Member(s, Matching(e))
  BY <1>1, RetainAdds
<1>4. /\ Cardinality(InDelivery(s)) \in Nat /\ Cardinality(Queued(s)) \in Nat /\ in_flight[s] \in Nat
      /\ IsFiniteSet(InDelivery(s))
  BY CallsCount DEF Types, TypeOK
<1>5. InDelivery(s)' = InDelivery(s) /\ Member(s, Matching(e)) \in {0, 1}
  BY <1>1 DEF InDelivery, DeliveriesOf, Member
<1> QED
  BY <1>2, <1>3, <1>4, <1>5 DEF Even, Calls

(* The worker moves calls from the queue to a delivery.                    *)
LEMMA EvenWorkerTake ==
    ASSUME Types, Covered, DeliveriesOK, LifecycleOK, WorkerTake, NEW s \in Subscriptions
    PROVE  IsFiniteSet(InDelivery(s)') /\ Even(s)
<1>1. /\ Len(queue) > 0 /\ queue[1] \in SUBSET Subscriptions
      /\ Delivers(Worker, <<>>, queue[1])
  BY WorkerTakeDelivers DEF Types
<1>2. calls[Worker] = <<>>
  <2>1. ~(Len(calls[Worker]) > 0) /\ calls[Worker] \in Seq(Call)
    BY TypesParts DEF DeliveriesOK, WorkerTake
  <2> QED
    BY <2>1
<1>3. /\ IsFiniteSet(InDelivery(s)')
      /\ Cardinality(InDelivery(s)') = Cardinality(InDelivery(s)) + Member(s, queue[1])
  BY <1>1, <1>2, DeliverCounts
<1>4. /\ queue \in Seq(SUBSET Subscriptions) /\ queue' = Tail(queue) /\ UNCHANGED in_flight
  BY DEF WorkerTake, Types, TypeOK
<1>5. Cardinality(Queued(s)) = Cardinality(Queued(s)') + Member(s, queue[1])
  <2>1. Queued(s) = Places(queue, s) /\ Queued(s)' = Places(queue', s)
    BY DEF Queued, Places
  <2> QED
    BY <2>1, <1>1, <1>4, PlacesTail
<1>6. Cardinality(Queued(s)') \in Nat
  <2>1. queue' \in Seq(SUBSET Subscriptions) /\ Queued(s)' = Places(queue', s)
    BY <1>1, <1>4, TailPlaces DEF Queued, Places
  <2> QED
    BY <2>1, PlacesFinite
<1>7. /\ Cardinality(InDelivery(s)) \in Nat /\ Cardinality(Queued(s)) \in Nat /\ in_flight[s] \in Nat
      /\ Member(s, queue[1]) \in {0, 1}
  BY CallsCount DEF Types, TypeOK, Member
<1> QED
  BY <1>3, <1>4, <1>5, <1>6, <1>7 DEF Even, Calls

(* A callback that returns is counted once less, and only it.              *)
LEMMA EvenFinish ==
    ASSUME Types, Covered, DeliveriesOK, NoUseAfterFree, NEW p \in Processes, FinishCallback(p),
           NEW s \in allocated
    PROVE  /\ Even(s)
           /\ in_flight[s] = in_flight'[s] + Member(s, {Innermost(p).running})
<1> DEFINE r == Innermost(p).running
<1>1. /\ Innermost(p) \in Call /\ Innermost(p) = Last(calls[p]) /\ Len(calls[p]) > 0
  BY FinishDelivers DEF Types
<1>2. r \in allocated /\ r \in Callees(Innermost(p))
  <2>1. Len(calls[p]) \in DOMAIN calls[p] /\ r \in Callees(Innermost(p))
    BY <1>1, TypesParts DEF Callees
  <2> QED
    BY <2>1 DEF NoUseAfterFree, Innermost
<1>3. in_flight \in [Subscriptions -> Nat] /\ allocated \subseteq Subscriptions
  BY DEF Types, TypeOK
<1>4. in_flight' = [in_flight EXCEPT ![r] = IF @ > 0 THEN @ - 1 ELSE @] /\ UNCHANGED queue
  BY <1>1 DEF FinishCallback
<1>5. \A x \in Subscriptions : /\ IsFiniteSet(InDelivery(x)')
                              /\ Cardinality(InDelivery(x)) = Cardinality(InDelivery(x)') + Member(x, {r})
  BY FinishCounts
<1>6. \A x \in Subscriptions : /\ Cardinality(InDelivery(x)) \in Nat /\ Cardinality(Queued(x)) \in Nat
                              /\ Cardinality(InDelivery(x)') \in Nat /\ Queued(x)' = Queued(x)
                              /\ Member(x, {r}) \in {0, 1}
  BY <1>4, <1>5, CallsCount, FS_CardinalityType DEF Queued, Member
<1> HIDE DEF r
<1>7. in_flight[r] > 0
  <2>1. in_flight[r] >= Cardinality(Queued(r)) + Cardinality(InDelivery(r))
    BY <1>2 DEF Covered, Calls
  <2>2. Cardinality(InDelivery(r)) >= 1
    BY <1>2, <1>3, <1>5, <1>6 DEF Member
  <2> QED
    BY <2>1, <2>2, <1>2, <1>3, <1>6
<1>8. in_flight[s] = in_flight'[s] + Member(s, {r})
  BY <1>2, <1>3, <1>4, <1>7 DEF Member
<1>9. in_flight'[s] \in Nat /\ in_flight[s] \in Nat
  BY <1>3, <1>4, <1>7
<1>10. /\ Cardinality(InDelivery(s)) = Cardinality(InDelivery(s)') + Member(s, {r})
       /\ Cardinality(InDelivery(s)') \in Nat /\ Queued(s)' = Queued(s)
       /\ Cardinality(Queued(s)) \in Nat /\ Member(s, {r}) \in {0, 1}
  BY <1>3, <1>5, <1>6
<1>11. Even(s)
  BY <1>8, <1>9, <1>10 DEF Even, Calls
<1> QED
  BY <1>8, <1>11 DEF r

(* What a step does to the account of s.                                   *)
Accounted(s) ==
    /\ IsFiniteSet(InDelivery(s)')
    /\ s \in allocated =>
         \/ Even(s)
         \/ /\ \E t \in Threads : Start(t)
            /\ in_flight'[s] = in_flight[s] /\ Calls(s)' = Cardinality(InDelivery(s))
    /\ s \in allocated' \ allocated => in_flight'[s] = 0 /\ Calls(s)' = 0

(* Every step keeps the accounts.                                          *)
LEMMA StepIsAccounted ==
    ASSUME Types, Covered, DeliveriesOK, LifecycleOK, NoUseAfterFree, Next,
           NEW s \in Subscriptions
    PROVE  Accounted(s)
<1>1. ASSUME UNCHANGED <<in_flight, queue, calls>>, allocated' \subseteq allocated
      PROVE  Accounted(s)
  BY <1>1, EvenWhenUnchanged DEF Accounted
<1>2. ASSUME NEW t \in Threads, NEW x \in Subscriptions, Unsubscribe(t, x) PROVE Accounted(s)
  BY <1>2, <1>1 DEF Unsubscribe, AwaitCallbacks
<1>3. ASSUME NEW t \in Threads,
             UnsubscribeResume(t) \/ StartWorker(t) \/ StartFails(t) \/ Stop(t) \/ FinishStop(t)
      PROVE  Accounted(s)
  BY <1>3, <1>1 DEF UnsubscribeResume, AwaitCallbacks, StartWorker, StartFails, Stop, FinishStop
<1>4. ASSUME NEW p \in Processes, WorkerBlock \/ WorkerExit \/ WakeSpuriously(p)
      PROVE  Accounted(s)
  BY <1>4, <1>1 DEF WorkerBlock, WorkerExit, WakeSpuriously
<1>5. ASSUME NEW t \in Threads, Start(t) PROVE Accounted(s)
  <2>1. UNCHANGED <<in_flight, calls, allocated>> /\ queue' = <<>>
    BY <1>5 DEF Start
  <2>2. InDelivery(s)' = InDelivery(s) /\ Queued(s)' = {}
    BY <2>1 DEF InDelivery, DeliveriesOf, Queued
  <2>3. Cardinality(Queued(s)') = 0 /\ IsFiniteSet(InDelivery(s)) /\ Cardinality(InDelivery(s)) \in Nat
    BY <2>2, FS_EmptySet, CallsCount
  <2> QED
    BY <2>1, <2>2, <2>3, <1>5 DEF Accounted, Calls
<1>6. ASSUME NEW p \in Processes, NEW e \in Events, NEW x \in Subscriptions, Subscribe(p, x, e)
      PROVE  Accounted(s)
  <2>1. allocated' = allocated \union {x}
    BY <1>6 DEF Subscribe
  <2> QED
    BY <2>1, <1>6, EvenSubscribe DEF Accounted
<1>7. ASSUME NEW p \in Processes, NEW e \in Events, PublishSync(p, e) \/ PublishAsync(p, e)
      PROVE  Accounted(s)
  <2>1. allocated' = allocated
    BY <1>7 DEF PublishSync, PublishAsync
  <2> QED
    BY <2>1, <1>7, EvenPublishSync, EvenPublishAsync DEF Accounted
<1>8. CASE WorkerTake
  <2>1. allocated' = allocated
    BY <1>8 DEF WorkerTake
  <2> QED
    BY <2>1, <1>8, EvenWorkerTake DEF Accounted
<1>9. ASSUME NEW p \in Processes, FinishCallback(p) PROVE Accounted(s)
  <2>1. allocated' = allocated
    BY <1>9 DEF FinishCallback
  <2> QED
    BY <2>1, <1>9, EvenFinish, FinishCounts DEF Accounted
<1> QED
  BY <1>2, <1>3, <1>4, <1>5, <1>6, <1>7, <1>8, <1>9
  DEF Next, ClientCall, ClientStep, WorkerStep, Use

(* in_flight stays at least the number of calls to come.                   *)
LEMMA CoveredStep ==
    ASSUME Types, Covered, DeliveriesOK, LifecycleOK, NoUseAfterFree, Next, Types'
    PROVE  Covered'
<1>1. ASSUME NEW s \in Subscriptions PROVE IsFiniteSet(InDelivery(s)')
  BY StepIsAccounted DEF Accounted
<1>2. ASSUME NEW s \in allocated' PROVE in_flight'[s] >= Calls(s)'
  <2>1. s \in Subscriptions
    BY DEF Types, TypeOK
  <2>2. Accounted(s)
    BY <2>1, StepIsAccounted
  <2>3. /\ in_flight[s] \in Nat /\ in_flight'[s] \in Nat /\ Calls(s) \in Nat
        /\ Cardinality(InDelivery(s)) \in Nat /\ Cardinality(Queued(s)) \in Nat
    BY <2>1, CallsCount DEF Types, TypeOK
  <2>4. Calls(s)' \in Nat
    <3>1. IsFiniteSet(InDelivery(s)') /\ Cardinality(InDelivery(s)') \in Nat
      BY <2>1, <1>1, FS_CardinalityType
    <3>2. Queued(s)' = Places(queue', s) /\ queue' \in Seq(SUBSET Subscriptions)
      BY DEF Queued, Places, Types, TypeOK
    <3>3. Cardinality(Queued(s)') \in Nat
      BY <3>2, PlacesFinite
    <3> QED
      BY <3>1, <3>3 DEF Calls
  <2>5. CASE s \in allocated
    <3>1. in_flight[s] >= Calls(s)
      BY <2>5 DEF Covered
    <3>2. Even(s) \/ (in_flight'[s] = in_flight[s] /\ Calls(s)' = Cardinality(InDelivery(s)))
      BY <2>2, <2>5 DEF Accounted
    <3> QED
      BY <3>1, <3>2, <2>3, <2>4 DEF Even, Calls
  <2>6. CASE s \notin allocated
    BY <2>2, <2>6, <2>3 DEF Accounted
  <2> QED
    BY <2>5, <2>6
<1> QED
  BY <1>1, <1>2 DEF Covered

-----------------------------------------------------------------------------
(* A subscription that is not in flight is called from nowhere.            *)
LEMMA Unreferenced ==
    ASSUME Types, Covered, NEW s \in allocated, in_flight[s] = 0
    PROVE  /\ \A i \in DOMAIN queue : s \notin queue[i]
           /\ \A p \in Processes : \A i \in DOMAIN calls[p] : s \notin Callees(calls[p][i])
<1>1. s \in Subscriptions
  BY DEF Types, TypeOK
<1>2. /\ Cardinality(Queued(s)) \in Nat /\ Cardinality(InDelivery(s)) \in Nat
      /\ IsFiniteSet(InDelivery(s))
  BY <1>1, CallsCount
<1>3. Cardinality(Queued(s)) + Cardinality(InDelivery(s)) <= 0
  BY DEF Covered, Calls
<1>4. Cardinality(Queued(s)) = 0 /\ Cardinality(InDelivery(s)) = 0
  BY <1>2, <1>3
<1>5. Queued(s) = {}
  <2>1. IsFiniteSet(Places(queue, s)) /\ Queued(s) = Places(queue, s)
    BY PlacesFinite DEF Types, TypeOK, Queued, Places
  <2> QED
    BY <2>1, <1>4, FS_EmptySet
<1>6. InDelivery(s) = {}
  BY <1>2, <1>4, FS_EmptySet
<1>7. ASSUME NEW p \in Processes, NEW i \in DOMAIN calls[p], s \in Callees(calls[p][i])
      PROVE  FALSE
  <2>1. <<p, i>> \in InDelivery(s)
    BY <1>7 DEF InDelivery, DeliveriesOf
  <2> QED
    BY <2>1, <1>6
<1> QED
  BY <1>5, <1>7 DEF Queued

(* NoUseAfterFree, part by part.                                           *)
QueueAlive == \A i \in DOMAIN queue : queue[i] \subseteq allocated
CallsAlive == \A p \in Processes : \A i \in DOMAIN calls[p] : Callees(calls[p][i]) \subseteq allocated
TargetsAlive == subscribers \subseteq allocated /\ \A t \in Threads : target[t] # NULL => target[t] \in allocated

(* Freeing what is not in flight leaves the queue and the deliveries       *)
(* alive.                                                                  *)
LEMMA FreeKeepsAlive ==
    ASSUME Types, Covered, NoUseAfterFree, UNCHANGED <<queue, calls>>,
           allocated' \subseteq allocated,
           \A s \in allocated \ allocated' : in_flight[s] = 0
    PROVE  QueueAlive' /\ CallsAlive'
<1>1. ASSUME NEW i \in DOMAIN queue, NEW s \in queue[i] PROVE s \in allocated'
  BY Unreferenced DEF NoUseAfterFree
<1>2. ASSUME NEW p \in Processes, NEW i \in DOMAIN calls[p], NEW s \in Callees(calls[p][i])
      PROVE  s \in allocated'
  BY Unreferenced DEF NoUseAfterFree
<1> QED
  BY <1>1, <1>2 DEF QueueAlive, CallsAlive

(* A delivery to allocated subscriptions leaves the deliveries alive.      *)
LEMMA DeliverKeepsAlive ==
    ASSUME Types, NoUseAfterFree, NEW p \in Processes, NEW outer \in Seq(Call), NEW S \in SUBSET allocated,
           Delivers(p, outer, S), UNCHANGED allocated,
           \A i \in 1..Len(outer) : Callees(outer[i]) \subseteq allocated
    PROVE  CallsAlive'
<1>1. calls' \in [Processes -> Seq(Call)]
  BY DEF Delivers
<1>2. ASSUME NEW i \in DOMAIN calls'[p] PROVE Callees(calls'[p][i]) \subseteq allocated
  <2>1. DOMAIN calls'[p] = 1..Len(outer) + 1 /\ Len(outer) \in Nat
    BY <1>1 DEF Delivers
  <2>2. CASE i \in 1..Len(outer)
    BY <2>2 DEF Delivers
  <2>3. CASE i = Len(outer) + 1
    BY <2>3 DEF Delivers
  <2> QED
    BY <2>1, <2>2, <2>3
<1>3. ASSUME NEW q \in Processes \ {p}, NEW i \in DOMAIN calls'[q]
      PROVE  Callees(calls'[q][i]) \subseteq allocated
  BY DEF Delivers, NoUseAfterFree
<1> QED
  BY <1>2, <1>3 DEF CallsAlive

(* The deliveries c call nothing outside X.                                *)
CallsWithin(c, X) == \A p \in Processes : \A i \in DOMAIN c[p] : Callees(c[p][i]) \subseteq X

(* A callback that returns leaves no callee but those there were.          *)
LEMMA FinishShrinks ==
    ASSUME Types, DeliveriesOK, NEW p \in Processes, FinishCallback(p), NEW X, CallsWithin(calls, X)
    PROVE  CallsWithin(calls', X)
<1> DEFINE outer == Front(calls[p])
<1>1. calls \in [Processes -> Seq(Call)]
  BY TypesParts
<1>2. /\ Len(calls[p]) > 0 /\ Len(outer) = Len(calls[p]) - 1
      /\ \A i \in 1..Len(calls[p]) - 1 : outer[i] = calls[p][i]
      /\ Innermost(p).left # {} => Delivers(p, outer, Innermost(p).left)
      /\ Innermost(p).left = {} =>
           /\ \A q \in Processes \ {p} : calls'[q] = calls[q]
           /\ calls'[p] = outer
  BY FinishDelivers DEF Types
<1>3. /\ outer \in Seq(Call) /\ DOMAIN outer = 1..Len(outer)
      /\ DOMAIN calls[p] = 1..Len(calls[p]) /\ Len(calls[p]) \in Nat
  <2>1. calls[p] \in Seq(Call)
    BY <1>1
  <2> HIDE DEF Call, Processes
  <2>2. outer \in Seq(Call)
    BY <2>1, <1>2, FrontPlaces
  <2> HIDE DEF outer
  <2> QED
    BY <2>1, <2>2
<1> HIDE DEF outer
<1>4. Innermost(p).left \subseteq X
  <2>1. Len(calls[p]) \in DOMAIN calls[p]
    BY <1>2, <1>3, <1>1
  <2> QED
    BY <2>1 DEF CallsWithin, Callees, Innermost
<1>5. ASSUME NEW i \in 1..Len(outer) PROVE Callees(outer[i]) \subseteq X
  <2>1. i \in DOMAIN calls[p] /\ outer[i] = calls[p][i]
    BY <1>2, <1>3
  <2> QED
    BY <2>1 DEF CallsWithin
<1>6. CASE Innermost(p).left # {}
  <2>1. Delivers(p, outer, Innermost(p).left) /\ calls' \in [Processes -> Seq(Call)]
    BY <1>2, <1>6 DEF Delivers
  <2>2. ASSUME NEW i \in DOMAIN calls'[p] PROVE Callees(calls'[p][i]) \subseteq X
    <3>1. DOMAIN calls'[p] = 1..Len(outer) + 1 /\ Len(outer) \in Nat
      BY <2>1, <1>3 DEF Delivers
    <3>2. CASE i \in 1..Len(outer)
      BY <3>2, <2>1, <1>5 DEF Delivers
    <3>3. CASE i = Len(outer) + 1
      BY <3>3, <2>1, <1>4 DEF Delivers
    <3> QED
      BY <3>1, <3>2, <3>3
  <2>3. ASSUME NEW q \in Processes \ {p}, NEW i \in DOMAIN calls'[q]
        PROVE  Callees(calls'[q][i]) \subseteq X
    BY <2>1 DEF Delivers, CallsWithin
  <2> QED
    BY <2>2, <2>3 DEF CallsWithin
<1>7. CASE Innermost(p).left = {}
  BY <1>2, <1>3, <1>5, <1>7 DEF CallsWithin
<1> QED
  BY <1>6, <1>7

(* Every step keeps NoUseAfterFree.                                        *)
LEMMA MemoryStep ==
    ASSUME Types, Covered, DeliveriesOK, TargetsOK, LifecycleOK, NoUseAfterFree, Next
    PROVE  NoUseAfterFree'
<1>1. DataOK /\ PointsOK /\ calls \in [Processes -> Seq(Call)]
  BY TypesParts
<1>2. ASSUME QueueAlive', CallsAlive', TargetsAlive' PROVE NoUseAfterFree'
  BY <1>2 DEF NoUseAfterFree, QueueAlive, CallsAlive, TargetsAlive
<1>3. ASSUME UNCHANGED <<allocated, subscribers, target>> PROVE TargetsAlive'
  BY <1>3 DEF TargetsAlive, NoUseAfterFree
<1>4. ASSUME UNCHANGED queue, allocated \subseteq allocated' PROVE QueueAlive'
  BY <1>4 DEF QueueAlive, NoUseAfterFree
<1>5. ASSUME UNCHANGED calls, allocated \subseteq allocated' PROVE CallsAlive'
  BY <1>5 DEF CallsAlive, NoUseAfterFree
<1>6. ASSUME NEW t \in Threads, NEW s \in Subscriptions, Unsubscribe(t, s) PROVE NoUseAfterFree'
  <2>1. /\ UNCHANGED <<queue, calls, in_flight>> /\ subscribers' = subscribers \ {s}
        /\ IF MustWaitFor(s) THEN allocated' = allocated /\ target' = [target EXCEPT ![t] = s]
                             ELSE allocated' = allocated \ {s} /\ target' = [target EXCEPT ![t] = NULL]
        /\ s \in subscribers /\ s \in allocated
    BY <1>6 DEF Unsubscribe, AwaitCallbacks, NoUseAfterFree
  <2>2. QueueAlive' /\ CallsAlive'
    BY <2>1, <1>1, FreeKeepsAlive DEF MustWaitFor, DataOK
  <2>3. \A u \in Threads \ {t} : target[u] # s
    BY <2>1 DEF TargetsOK
  <2>4. subscribers' \subseteq allocated'
    BY <2>1 DEF NoUseAfterFree
  <2>5. \A u \in Threads : target'[u] # NULL => target'[u] \in allocated'
    <3>1. CASE MustWaitFor(s)
      BY <3>1, <2>1, <1>1 DEF NoUseAfterFree, DataOK
    <3>2. CASE ~MustWaitFor(s)
      BY <3>2, <2>1, <2>3, <1>1 DEF NoUseAfterFree, DataOK
    <3> QED
      BY <3>1, <3>2
  <2>6. TargetsAlive'
    BY <2>4, <2>5 DEF TargetsAlive
  <2> QED
    BY <2>2, <2>6, <1>2
<1>7. ASSUME NEW t \in Threads, UnsubscribeResume(t) PROVE NoUseAfterFree'
  <2> DEFINE s == target[t]
  <2>1. /\ UNCHANGED <<queue, calls, in_flight, subscribers>>
        /\ IF MustWaitFor(s) THEN allocated' = allocated /\ target' = [target EXCEPT ![t] = s]
                             ELSE allocated' = allocated \ {s} /\ target' = [target EXCEPT ![t] = NULL]
        /\ pc[t] = "unsubscribe_woken"
    BY <1>7 DEF UnsubscribeResume, AwaitCallbacks
  <2>2. s # NULL /\ s \in allocated /\ s \notin subscribers
    BY <2>1 DEF TargetsOK, NoUseAfterFree, UnsubscribePCs
  <2>3. \A u \in Threads \ {t} : target[u] # s
    BY <2>2 DEF TargetsOK
  <2> HIDE DEF s
  <2>4. QueueAlive' /\ CallsAlive'
    BY <2>1, <2>2, <1>1, FreeKeepsAlive DEF MustWaitFor, DataOK
  <2>5. subscribers' \subseteq allocated'
    BY <2>1, <2>2 DEF NoUseAfterFree
  <2>6. \A u \in Threads : target'[u] # NULL => target'[u] \in allocated'
    <3>1. CASE MustWaitFor(s)
      <4>1. allocated' = allocated /\ target' = [target EXCEPT ![t] = s]
        BY <3>1, <2>1
      <4>2. target'[t] = s /\ \A u \in Threads \ {t} : target'[u] = target[u]
        BY <4>1, <1>1 DEF DataOK
      <4> QED
        BY <4>1, <4>2, <2>2 DEF NoUseAfterFree
    <3>2. CASE ~MustWaitFor(s)
      BY <3>2, <2>1, <2>3, <1>1 DEF NoUseAfterFree, DataOK
    <3> QED
      BY <3>1, <3>2
  <2>7. TargetsAlive'
    BY <2>5, <2>6 DEF TargetsAlive
  <2> QED
    BY <2>4, <2>7, <1>2
<1>8. ASSUME NEW t \in Threads, FinishStop(t) PROVE NoUseAfterFree'
  <2>1. UNCHANGED <<queue, calls, in_flight, target>>
    BY <1>8 DEF FinishStop
  <2>2. CASE HasInFlight
    <3>1. UNCHANGED <<allocated, subscribers>>
      BY <1>8, <2>2 DEF FinishStop
    <3> QED
      BY <3>1, <2>1, <1>2, <1>3, <1>4, <1>5
  <2>3. CASE ~HasInFlight
    <3>1. allocated' = allocated \ subscribers /\ subscribers' = {}
      BY <1>8, <2>3 DEF FinishStop
    <3>2. QueueAlive' /\ CallsAlive'
      BY <3>1, <2>1, <2>3, FreeKeepsAlive DEF HasInFlight
    <3>3. TargetsAlive'
      BY <3>1, <2>1 DEF TargetsAlive, NoUseAfterFree, TargetsOK
    <3> QED
      BY <3>2, <3>3, <1>2
  <2> QED
    BY <2>2, <2>3
<1>9. ASSUME NEW t \in Threads, StartWorker(t) \/ StartFails(t) \/ Stop(t) PROVE NoUseAfterFree'
  <2>1. UNCHANGED <<allocated, subscribers, target, queue, calls>>
    BY <1>9 DEF StartWorker, StartFails, Stop
  <2> QED
    BY <2>1, <1>2, <1>3, <1>4, <1>5
<1>10. ASSUME NEW t \in Threads, Start(t) PROVE NoUseAfterFree'
  <2>1. UNCHANGED <<allocated, subscribers, target, calls>> /\ queue' = <<>>
    BY <1>10 DEF Start
  <2>2. QueueAlive'
    BY <2>1 DEF QueueAlive
  <2> QED
    BY <2>1, <2>2, <1>2, <1>3, <1>5
<1>11. ASSUME NEW p \in Processes, NEW e \in Events, NEW s \in Subscriptions, Subscribe(p, s, e)
       PROVE  NoUseAfterFree'
  <2>1. /\ allocated' = allocated \union {s} /\ subscribers' = subscribers \union {s}
        /\ UNCHANGED <<target, queue, calls>>
    BY <1>11 DEF Subscribe
  <2>2. TargetsAlive'
    BY <2>1 DEF TargetsAlive, NoUseAfterFree
  <2> QED
    BY <2>1, <2>2, <1>2, <1>4, <1>5
<1>12. ASSUME NEW p \in Processes, NEW e \in Events, PublishSync(p, e) PROVE NoUseAfterFree'
  <2>1. UNCHANGED <<allocated, subscribers, target, queue>>
    BY <1>12 DEF PublishSync
  <2>2. Delivers(p, calls[p], Matching(e)) /\ Matching(e) \in SUBSET allocated
    BY <1>12, PublishSyncDelivers DEF Types, NoUseAfterFree
  <2>3. calls[p] \in Seq(Call) /\ \A i \in 1..Len(calls[p]) : Callees(calls[p][i]) \subseteq allocated
    BY <1>1 DEF NoUseAfterFree
  <2>4. CallsAlive'
    BY <2>1, <2>2, <2>3, DeliverKeepsAlive
  <2> QED
    BY <2>1, <2>4, <1>2, <1>3, <1>4
<1>13. ASSUME NEW p \in Processes, NEW e \in Events, PublishAsync(p, e) PROVE NoUseAfterFree'
  <2>1. UNCHANGED <<allocated, subscribers, target, calls>> /\ queue' = Append(queue, Matching(e))
    BY <1>13 DEF PublishAsync
  <2>2. Matching(e) \in SUBSET Subscriptions /\ Matching(e) \subseteq allocated
    BY <1>1 DEF Matching, DataOK, NoUseAfterFree
  <2>3. queue \in Seq(SUBSET Subscriptions)
    BY <1>1 DEF DataOK
  <2>4. /\ DOMAIN queue' = 1..Len(queue) + 1 /\ DOMAIN queue = 1..Len(queue) /\ Len(queue) \in Nat
        /\ \A i \in 1..Len(queue) : queue'[i] = queue[i]
        /\ queue'[Len(queue) + 1] = Matching(e)
    BY <2>1, <2>2, <2>3, AppendPlaces
  <2>5. QueueAlive'
    BY <2>1, <2>2, <2>4 DEF QueueAlive, NoUseAfterFree
  <2> QED
    BY <2>1, <2>5, <1>2, <1>3, <1>5
<1>14. CASE WorkerTake
  <2>1. UNCHANGED <<allocated, subscribers, target>> /\ queue' = Tail(queue)
    BY <1>14 DEF WorkerTake
  <2>2. Delivers(Worker, <<>>, queue[1]) /\ Len(queue) > 0
    BY <1>14, WorkerTakeDelivers DEF Types
  <2>3. /\ DOMAIN queue' = 1..Len(queue) - 1 /\ DOMAIN queue = 1..Len(queue) /\ Len(queue) \in Nat
        /\ \A i \in 1..Len(queue) - 1 : queue'[i] = queue[i + 1]
    BY <2>1, <2>2, <1>1, TailPlaces DEF DataOK
  <2>4. QueueAlive'
    BY <2>1, <2>3 DEF QueueAlive, NoUseAfterFree
  <2>5. queue[1] \in SUBSET allocated
    BY <2>2, <2>3 DEF NoUseAfterFree
  <2>6. <<>> \in Seq(Call) /\ \A i \in 1..Len(<<>>) : Callees(<<>>[i]) \subseteq allocated
    OBVIOUS
  <2>7. CallsAlive'
    BY <2>1, <2>2, <2>5, <2>6, DeliverKeepsAlive
  <2> QED
    BY <2>1, <2>4, <2>7, <1>2, <1>3
<1>15. ASSUME NEW p \in Processes, FinishCallback(p) PROVE NoUseAfterFree'
  <2>1. UNCHANGED <<allocated, subscribers, target, queue>>
    BY <1>15 DEF FinishCallback
  <2>2. CallsWithin(calls, allocated)
    BY DEF CallsWithin, NoUseAfterFree
  <2>3. CallsWithin(calls', allocated)
    BY <2>2, <1>15, FinishShrinks
  <2>4. CallsAlive'
    BY <2>1, <2>3 DEF CallsAlive, CallsWithin
  <2> QED
    BY <2>1, <2>4, <1>2, <1>3, <1>4
<1>16. ASSUME NEW p \in Processes, WorkerBlock \/ WorkerExit \/ WakeSpuriously(p)
       PROVE  NoUseAfterFree'
  <2>1. UNCHANGED <<allocated, subscribers, target, queue, calls>>
    BY <1>16 DEF WorkerBlock, WorkerExit, WakeSpuriously
  <2> QED
    BY <2>1, <1>2, <1>3, <1>4, <1>5
<1> QED
  BY <1>6, <1>7, <1>8, <1>9, <1>10, <1>11, <1>12, <1>13, <1>14, <1>15, <1>16
  DEF Next, ClientCall, ClientStep, WorkerStep, Use

-----------------------------------------------------------------------------
(* NoLostWakeup, sleeper by sleeper.                                       *)
Sleepers ==
    /\ \A t \in Threads : pc[t] = "unsubscribe_sleep" => in_flight[target[t]] > 0
    /\ \A t \in Threads : pc[t] = "stop_sleep" => \E s \in allocated : in_flight[s] > 0
    /\ pc[Worker] = "sleep" => queue = <<>> /\ running

(* Sleepers is NoLostWakeup.                                               *)
LEMMA SleepersIffAwake == PointsOK => (NoLostWakeup <=> Sleepers)
  BY DEF NoLostWakeup, Sleepers, At, PointsOK, WorkerPCs

(* Every step keeps every sleeper's reason to sleep.                       *)
LEMMA SleepersStep ==
    ASSUME Invariant, Next
    PROVE  Sleepers'
<1>1. /\ DataOK /\ PointsOK /\ Types /\ DeliveriesOK /\ TargetsOK /\ LifecycleOK
      /\ NoUseAfterFree /\ Covered /\ Sleepers
  BY TypesParts, SleepersIffAwake DEF Invariant
<1> USE DEF PointsOK, ClientPCs, WorkerPCs, UnsubscribePCs, StopPCs
(* No sleeper, and nothing that it waits for, is new.                      *)
<1>2. ASSUME \A t \in Threads : /\ pc'[t] = "unsubscribe_sleep" => pc[t] = "unsubscribe_sleep"
                                /\ pc'[t] = "stop_sleep" => pc[t] = "stop_sleep",
             UNCHANGED target,
             \A s \in allocated : in_flight[s] > 0 => s \in allocated' /\ in_flight'[s] > 0,
             pc'[Worker] = "sleep" => queue' = <<>> /\ running'
      PROVE  Sleepers'
  <2>1. \A t \in Threads : pc[t] = "unsubscribe_sleep" => target[t] \in allocated
    BY <1>1 DEF TargetsOK, NoUseAfterFree
  <2> QED
    BY <2>1, <1>1, <1>2 DEF Sleepers
<1>3. ASSUME NEW t \in Threads, NEW s \in Subscriptions, s \in allocated, s # NULL,
             \A u \in Threads \ {t} : target[u] # s, AwaitCallbacks(t, s)
      PROVE  Sleepers'
  <2>1. UNCHANGED <<in_flight, queue, running>> /\ in_flight[s] \in Nat
    BY <1>1, <1>3 DEF AwaitCallbacks, DataOK
  <2>2. CASE MustWaitFor(s)
    <3>1. /\ UNCHANGED allocated /\ target'[t] = s /\ in_flight[s] > 0
          /\ \A u \in Threads \ {t} : target'[u] = target[u] /\ pc'[u] = pc[u]
          /\ pc'[Worker] = pc[Worker] /\ pc'[t] = "unsubscribe_sleep"
      BY <1>1, <1>3, <2>2 DEF AwaitCallbacks, MustWaitFor, DataOK
    <3> QED
      BY <3>1, <2>1, <1>1 DEF Sleepers
  <2>3. CASE ~MustWaitFor(s)
    <3>1. /\ allocated' = allocated \ {s} /\ ~(in_flight[s] > 0)
          /\ \A u \in Threads \ {t} : target'[u] = target[u] /\ pc'[u] = pc[u]
          /\ pc'[Worker] = pc[Worker] /\ pc'[t] = "ready"
      BY <1>1, <1>3, <2>3 DEF AwaitCallbacks, MustWaitFor, DataOK
    <3> QED
      BY <3>1, <2>1, <1>1 DEF Sleepers
  <2> QED
    BY <2>2, <2>3
<1>4. ASSUME NEW t \in Threads, NEW s \in Subscriptions, Unsubscribe(t, s) PROVE Sleepers'
  <2>1. s \in subscribers /\ s \in allocated /\ s # NULL /\ \A u \in Threads : target[u] # s
    BY <1>1, <1>4 DEF Unsubscribe, NoUseAfterFree, TargetsOK
  <2> QED
    BY <2>1, <1>3, <1>4 DEF Unsubscribe
<1>5. ASSUME NEW t \in Threads, UnsubscribeResume(t) PROVE Sleepers'
  <2>1. target[t] # NULL /\ target[t] \in allocated /\ target[t] \in Subscriptions
    BY <1>1, <1>5 DEF UnsubscribeResume, TargetsOK, NoUseAfterFree, DataOK
  <2>2. \A u \in Threads \ {t} : target[u] # target[t]
    BY <2>1, <1>1 DEF TargetsOK
  <2> QED
    BY <2>1, <2>2, <1>3, <1>5 DEF UnsubscribeResume
<1>6. ASSUME NEW t \in Threads, Start(t) PROVE Sleepers'
  BY <1>1, <1>2, <1>6 DEF Start
<1>7. ASSUME NEW t \in Threads, StartWorker(t) PROVE Sleepers'
  BY <1>1, <1>2, <1>7 DEF StartWorker
<1>8. ASSUME NEW t \in Threads, StartFails(t) PROVE Sleepers'
  BY <1>1, <1>2, <1>8 DEF StartFails, LifecycleOK
<1>9. ASSUME NEW t \in Threads, Stop(t) PROVE Sleepers'
  <2>1. pc'[Worker] # "sleep" /\ UNCHANGED <<in_flight, allocated, target>>
    BY <1>1, <1>9 DEF Stop, WakeWorker
  <2>2. \A u \in Threads : pc'[u] \in {pc[u], "stop_join"}
    BY <1>1, <1>9 DEF Stop, WakeWorker
  <2> QED
    BY <2>1, <2>2, <1>2
<1>10. ASSUME NEW t \in Threads, FinishStop(t) PROVE Sleepers'
  <2>1. UNCHANGED <<in_flight, target, queue, running>>
    BY <1>10 DEF FinishStop
  <2>2. CASE HasInFlight
    <3>1. UNCHANGED allocated /\ pc' = [pc EXCEPT ![t] = "stop_sleep"]
      BY <1>10, <2>2 DEF FinishStop
    <3>2. PICK s \in subscribers : in_flight[s] # 0
      BY <2>2 DEF HasInFlight
    <3>3. s \in allocated /\ in_flight[s] > 0
      BY <3>2, <1>1 DEF NoUseAfterFree, DataOK
    <3> QED
      BY <3>1, <3>3, <2>1, <1>1 DEF Sleepers
  <2>3. CASE ~HasInFlight
    <3>1. allocated' = allocated \ subscribers /\ pc' = [pc EXCEPT ![t] = "ready"]
      BY <1>10, <2>3 DEF FinishStop
    <3>2. \A s \in allocated : in_flight[s] > 0 => s \in allocated'
      BY <3>1, <2>3 DEF HasInFlight
    <3> QED
      BY <3>1, <3>2, <2>1, <1>1, <1>2 DEF Sleepers
  <2> QED
    BY <2>2, <2>3
<1>11. ASSUME NEW p \in Processes, NEW e \in Events, NEW s \in Subscriptions, Subscribe(p, s, e)
       PROVE  Sleepers'
  BY <1>1, <1>2, <1>11 DEF Subscribe, DataOK, Sleepers
<1>12. ASSUME NEW S \in SUBSET Subscriptions, Retain(S), UNCHANGED allocated
       PROVE  \A s \in allocated : in_flight[s] > 0 => s \in allocated' /\ in_flight'[s] > 0
  BY <1>1, <1>12 DEF Retain, DataOK
<1>13. ASSUME NEW p \in Processes, NEW e \in Events, PublishSync(p, e) PROVE Sleepers'
  <2>1. Matching(e) \in SUBSET Subscriptions
    BY <1>1 DEF Matching, DataOK
  <2> QED
    BY <2>1, <1>1, <1>2, <1>12, <1>13 DEF PublishSync, Sleepers
<1>14. ASSUME NEW p \in Processes, NEW e \in Events, PublishAsync(p, e) PROVE Sleepers'
  <2>1. Matching(e) \in SUBSET Subscriptions
    BY <1>1 DEF Matching, DataOK
  <2>2. pc'[Worker] # "sleep" /\ \A t \in Threads : pc'[t] = pc[t]
    BY <1>1, <1>14 DEF PublishAsync, WakeWorker
  <2> QED
    BY <2>1, <2>2, <1>2, <1>12, <1>14 DEF PublishAsync
<1>15. CASE WorkerTake
  BY <1>1, <1>2, <1>15 DEF WorkerTake
<1>16. CASE WorkerBlock
  BY <1>1, <1>2, <1>16 DEF WorkerBlock
<1>17. CASE WorkerExit
  BY <1>1, <1>2, <1>17 DEF WorkerExit
<1>18. ASSUME NEW p \in Processes, WakeSpuriously(p) PROVE Sleepers'
  BY <1>1, <1>2, <1>18 DEF WakeSpuriously, Sleepers
<1>19. ASSUME NEW p \in Processes, FinishCallback(p) PROVE Sleepers'
  <2> DEFINE r == Innermost(p).running
  <2>1. UNCHANGED <<allocated, target, queue, running>>
    BY <1>19 DEF FinishCallback
  <2>2. \A q \in Processes \ {p} :
           \/ pc'[q] = pc[q]
           \/ pc[q] = "unsubscribe_sleep" /\ pc'[q] = "unsubscribe_woken"
           \/ pc[q] = "stop_sleep" /\ pc'[q] = "stop_woken"
    BY <1>1, <1>19, FinishPoints
  <2>3. pc'[p] \in {"callback", "loop", "ready"}
    BY <1>1, <1>19, FinishPoints
  <2>4. in_flight'[r] = 0 => \A q \in Processes : pc'[q] \notin {"unsubscribe_sleep", "stop_sleep"}
    BY <1>1, <1>19, FinishPoints
  <2>5. pc'[Worker] = "sleep" => queue' = <<>> /\ running'
    BY <2>1, <2>2, <2>3, <1>1 DEF Sleepers
  <2>6. CASE in_flight'[r] = 0
    BY <2>4, <2>5, <2>6 DEF Sleepers
  <2>7. CASE in_flight'[r] # 0
    <3>1. ASSUME NEW s \in allocated, in_flight[s] > 0 PROVE in_flight'[s] > 0
      <4>1. in_flight[s] = in_flight'[s] + Member(s, {r})
        BY <1>1, <1>19, EvenFinish
      <4>2. in_flight'[s] \in Nat
        <5>1. DataOK'
          BY <1>1, DataType
        <5> QED
          BY <5>1, <1>1 DEF DataOK
      <4>3. s # r => Member(s, {r}) = 0
        BY DEF Member
      <4> HIDE DEF r
      <4> QED
        BY <4>1, <4>2, <4>3, <3>1, <2>7
    <3> HIDE DEF r
    <3> QED
      BY <3>1, <2>1, <2>2, <2>3, <2>5, <1>2
  <2> QED
    BY <2>6, <2>7
<1> QED
  BY <1>4, <1>5, <1>6, <1>7, <1>8, <1>9, <1>10, <1>11, <1>13, <1>14, <1>15, <1>16, <1>17, <1>18, <1>19
  DEF Next, ClientCall, ClientStep, WorkerStep, Use

-----------------------------------------------------------------------------
(* The invariant, for every value of the constants.                        *)
LEMMA InitInvariant == Init => Invariant
<1> SUFFICES ASSUME Init PROVE Invariant
  OBVIOUS
<1> USE DEF Init
<1>1. Types
  <2>1. IsFiniteSet({}) /\ Cardinality({}) = 0
    BY FS_EmptySet
  <2>4. queue \in Seq(SUBSET Subscriptions) /\ Len(queue) <= QueueCapacity
    OBVIOUS
  <2>5. IsFiniteSet(subscribers) /\ Cardinality(subscribers) <= MaxSubscribers
    BY <2>1
  <2>6. /\ in_flight \in [Subscriptions -> Nat] /\ publishes \in 0..MaxPublishes
        /\ target \in [Threads -> Subscriptions \union {NULL}]
    OBVIOUS
  <2>2. DataOK
    BY <2>4, <2>5, <2>6 DEF DataOK
  <2>3. PointsOK /\ calls \in [Processes -> Seq(Call)]
    BY DEF PointsOK, ClientPCs, WorkerPCs
  <2> QED
    BY <2>2, <2>3, TypesParts
<1>2. DeliveriesOK
  BY DEF DeliveriesOK
<1>3. TargetsOK
  BY DEF TargetsOK, UnsubscribePCs
<1>4. LifecycleOK
  BY DEF LifecycleOK, StopPCs, LifecyclePCs
<1>5. NoUseAfterFree
  BY DEF NoUseAfterFree
<1>6. Covered
  <2>1. ASSUME NEW s \in Subscriptions PROVE InDelivery(s) = {}
    BY DEF InDelivery, DeliveriesOf
  <2> QED
    BY <2>1, FS_EmptySet DEF Covered
<1>7. NoLostWakeup
  BY <1>1, TypesParts, SleepersIffAwake DEF Sleepers
<1> QED
  BY <1>1, <1>2, <1>3, <1>4, <1>5, <1>6, <1>7 DEF Invariant

(* Every step keeps the invariant.                                         *)
LEMMA InvariantStep == Invariant /\ [Next]_vars => Invariant'
<1> SUFFICES ASSUME Invariant, [Next]_vars PROVE Invariant'
  OBVIOUS
<1> USE DEF Invariant
<1>1. CASE Next
  <2>1. Types'
    BY <1>1, TypesStep
  <2>2. PointsOK' /\ Sleepers'
    BY <1>1, TypesParts, PointsType, SleepersStep
  <2>3. (PointsOK => (NoLostWakeup <=> Sleepers))'
    BY SleepersIffAwake, PTL
  <2>4. DeliveriesOK' /\ TargetsOK' /\ LifecycleOK' /\ NoUseAfterFree'
    BY <1>1, DeliveriesStep, TargetsStep, LifecycleStep, MemoryStep
  <2>5. Covered'
    BY <1>1, <2>1, CoveredStep
  <2> QED
    BY <2>1, <2>2, <2>3, <2>4, <2>5
<1>2. CASE UNCHANGED vars
  <2> USE <1>2 DEF vars
  <2>1. Types' /\ DeliveriesOK' /\ TargetsOK'
    BY DEF Types, TypeOK, DeliveriesOK, TargetsOK
  <2>2. LifecycleOK' /\ NoUseAfterFree'
    BY DEF LifecycleOK, NoUseAfterFree
  <2>3. Covered'
    BY DEF Covered, Calls, Queued, InDelivery, DeliveriesOf
  <2>4. NoLostWakeup'
    BY DEF NoLostWakeup, At
  <2> QED
    BY <2>1, <2>2, <2>3, <2>4
<1> QED
  BY <1>1, <1>2

(* The inductive invariant holds in every reachable state, with or         *)
(* without the client rule.                                                *)
THEOREM InvariantHolds == Spec => []Invariant
  BY InitInvariant, InvariantStep, PTL DEF Spec

(* Type correctness, the bounds of the array and the queue included.       *)
THEOREM TypeCorrect == Spec => []TypeOK
<1>1. Invariant => TypeOK
  BY DEF Invariant, Types
<1> QED
  BY <1>1, InvariantHolds, PTL

(* A callback runs, is queued or is waited for only while its subscription *)
(* is allocated; also when clients use the bus during a start.             *)
THEOREM CalledIsAllocated == Spec => []NoUseAfterFree
<1>1. Invariant => NoUseAfterFree
  BY DEF Invariant
<1> QED
  BY <1>1, InvariantHolds, PTL

(* Whoever waits for callbacks still has one to wait for, and the worker   *)
(* sleeps on an empty queue of a running bus.                              *)
THEOREM WakeupsAreNotLost == Spec => []NoLostWakeup
<1>1. Invariant => NoLostWakeup
  BY DEF Invariant
<1> QED
  BY <1>1, InvariantHolds, PTL

-----------------------------------------------------------------------------
(* With the client rule of ExclusiveStart, a bus that is stopped, or about *)
(* to start, has an empty array and an empty queue, and runs only the      *)
(* callbacks that an unsubscribe waits for.                                *)
Idle == (~running /\ \A t \in Threads : pc[t] \notin StopPCs) \/ \E t \in Threads : pc[t] = "start"

Targets == {target[t] : t \in Threads}

Settled ==
    /\ pc[Worker] = "none" => queue = <<>>
    /\ Idle => subscribers = {} /\ CallsWithin(calls, Targets)

(* A bus that is stopped or about to start has no worker.                  *)
LEMMA IdleWithoutWorker == LifecycleOK /\ Idle => pc[Worker] = "none"
  BY DEF LifecycleOK, Idle

(* A client that uses the bus finds it running.                            *)
LEMMA NotIdleInUse == ExclusiveStart /\ MayUse /\ accepting /\ LifecycleOK => ~Idle
  BY DEF MayUse, LifecycleOK, Idle, At

(* Every step of clients that follow the rule keeps the bus settled.       *)
LEMMA SettledStep ==
    ASSUME ExclusiveStart, Invariant, Settled, Next
    PROVE  Settled'
<1>1. /\ DataOK /\ PointsOK /\ Types /\ DeliveriesOK /\ TargetsOK /\ LifecycleOK
      /\ NoUseAfterFree /\ Covered
  BY TypesParts DEF Invariant
<1> USE DEF PointsOK, ClientPCs, WorkerPCs, UnsubscribePCs, StopPCs, LifecyclePCs
<1>2. ASSUME UNCHANGED <<queue, subscribers, calls, target>>, pc'[Worker] = "none" => pc[Worker] = "none",
             Idle' => Idle
      PROVE  Settled'
  BY <1>2 DEF Settled, Targets
<1>3. ASSUME ~Idle', pc'[Worker] = "none" => queue' = <<>> PROVE Settled'
  BY <1>3 DEF Settled
<1>4. ASSUME NEW t \in Threads, NEW s \in Subscriptions, Unsubscribe(t, s) PROVE Settled'
  <2>1. ~Idle
    BY <1>4 DEF Unsubscribe, Settled
  <2>2. ~Idle' /\ UNCHANGED queue /\ pc'[Worker] = pc[Worker]
    BY <2>1, <1>1, <1>4 DEF Unsubscribe, AwaitCallbacks, Idle
  <2> QED
    BY <2>2, <1>3 DEF Settled
<1>5. ASSUME NEW t \in Threads, UnsubscribeResume(t) PROVE Settled'
  <2>1. /\ UNCHANGED <<queue, subscribers, calls, running>> /\ pc'[Worker] = pc[Worker]
        /\ pc[t] = "unsubscribe_woken" /\ pc'[t] \in {"unsubscribe_sleep", "ready"}
        /\ \A u \in Threads \ {t} : pc'[u] = pc[u]
    BY <1>1, <1>5 DEF UnsubscribeResume, AwaitCallbacks
  <2>2. Idle' => Idle
    BY <2>1 DEF Idle
  <2>3. CASE MustWaitFor(target[t])
    <3>1. UNCHANGED target
      BY <1>1, <1>5, <2>3 DEF UnsubscribeResume, AwaitCallbacks, DataOK
    <3> QED
      BY <3>1, <2>1, <2>2, <1>2
  <2>4. CASE ~MustWaitFor(target[t])
    <3>1. target[t] \in allocated /\ in_flight[target[t]] = 0
      BY <1>1, <2>1, <2>4 DEF TargetsOK, NoUseAfterFree, MustWaitFor, DataOK
    <3>2. ASSUME NEW p \in Processes, NEW i \in DOMAIN calls[p]
          PROVE  target[t] \notin Callees(calls[p][i])
      BY <3>1, <1>1, Unreferenced
    <3>3. \A u \in Threads \ {t} : target'[u] = target[u]
      BY <1>1, <1>5, <2>4 DEF UnsubscribeResume, AwaitCallbacks, DataOK
    <3>4. CallsWithin(calls, Targets) => CallsWithin(calls, Targets')
      BY <3>2, <3>3 DEF CallsWithin, Targets
    <3> QED
      BY <3>4, <2>1, <2>2 DEF Settled
  <2> QED
    BY <2>3, <2>4
<1>6. ASSUME NEW t \in Threads, Start(t) PROVE Settled'
  <2>1. Idle /\ queue' = <<>> /\ UNCHANGED <<subscribers, calls, target>>
    BY <1>6 DEF Start, Idle, At
  <2> QED
    BY <2>1 DEF Settled, Targets
<1>7. ASSUME NEW t \in Threads, StartWorker(t) PROVE Settled'
  <2>1. pc'[Worker] = "loop" /\ ~Idle'
    BY <1>1, <1>7 DEF StartWorker, LifecycleOK, Idle
  <2> QED
    BY <2>1, <1>3
<1>8. ASSUME NEW t \in Threads, StartFails(t) PROVE Settled'
  <2>1. Idle /\ UNCHANGED <<queue, subscribers, calls, target>> /\ pc'[Worker] = pc[Worker]
    BY <1>1, <1>8 DEF StartFails, Idle
  <2> QED
    BY <2>1, <1>2
<1>9. ASSUME NEW t \in Threads, Stop(t) PROVE Settled'
  <2>1. /\ UNCHANGED queue /\ ~running' /\ pc'[t] = "stop_join"
        /\ \A u \in Threads : u # t => pc'[u] = pc[u]
        /\ \A u \in Threads : pc[u] # "start"
        /\ pc'[Worker] = "none" => pc[Worker] = "none"
    BY <1>1, <1>9 DEF Stop, WakeWorker, At
  <2>2. ~Idle'
    BY <2>1 DEF Idle
  <2> QED
    BY <2>1, <2>2, <1>3 DEF Settled
<1>10. ASSUME NEW t \in Threads, FinishStop(t) PROVE Settled'
  <2>1. /\ UNCHANGED <<queue, calls, target, running, in_flight>> /\ pc[t] \in StopPCs /\ ~running
        /\ pc'[Worker] = pc[Worker]
    BY <1>1, <1>10 DEF FinishStop, LifecycleOK
  <2>2. CASE HasInFlight
    <3>1. pc' = [pc EXCEPT ![t] = "stop_sleep"]
      BY <1>10, <2>2 DEF FinishStop
    <3>2. ~Idle'
      BY <3>1, <2>1, <1>1 DEF Idle, LifecycleOK
    <3> QED
      BY <3>2, <2>1, <1>3 DEF Settled
  <2>3. CASE ~HasInFlight
    <3>1. subscribers' = {}
      BY <1>10, <2>3 DEF FinishStop
    <3>2. ASSUME NEW p \in Processes, NEW i \in DOMAIN calls[p], NEW s \in Callees(calls[p][i])
          PROVE  s \in Targets
      <4>1. s \in allocated
        BY <1>1 DEF NoUseAfterFree
      <4>2. s \notin subscribers
        BY <4>1, <2>3, <1>1, Unreferenced DEF HasInFlight
      <4> QED
        BY <4>1, <4>2, <1>1 DEF TargetsOK, Targets
    <3>3. CallsWithin(calls, Targets)
      BY <3>2 DEF CallsWithin
    <3> QED
      BY <3>1, <3>3, <2>1 DEF Settled, Targets
  <2> QED
    BY <2>2, <2>3
<1>11. ASSUME NEW p \in Processes, NEW e \in Events, NEW s \in Subscriptions, Subscribe(p, s, e)
       PROVE  Settled'
  <2>1. ~Idle /\ UNCHANGED <<pc, running, queue>>
    BY <1>1, <1>11, NotIdleInUse DEF Subscribe
  <2>2. ~Idle'
    BY <2>1 DEF Idle
  <2> QED
    BY <2>1, <2>2, <1>3 DEF Settled
<1>12. ASSUME NEW p \in Processes, NEW e \in Events, PublishSync(p, e) PROVE Settled'
  <2>1. ~Idle /\ UNCHANGED <<running, queue>>
    BY <1>1, <1>12, NotIdleInUse DEF PublishSync
  <2>2. ~Idle' /\ (pc'[Worker] = "none" => pc[Worker] = "none")
    BY <2>1, <1>1, <1>12 DEF Idle, PublishSync
  <2> QED
    BY <2>1, <2>2, <1>3 DEF Settled
<1>13. ASSUME NEW p \in Processes, NEW e \in Events, PublishAsync(p, e) PROVE Settled'
  <2>1. ~Idle /\ UNCHANGED running
    BY <1>1, <1>13, NotIdleInUse DEF PublishAsync
  <2>2. ~Idle' /\ (pc'[Worker] = "none" => pc[Worker] = "none")
    BY <2>1, <1>1, <1>13 DEF Idle, PublishAsync, WakeWorker
  <2>3. pc[Worker] # "none"
    BY <2>1, <1>1, <1>13 DEF PublishAsync, LifecycleOK, Idle
  <2> QED
    BY <2>2, <2>3, <1>3
<1>14. CASE WorkerTake \/ WorkerBlock \/ WorkerExit
  <2>1. ~Idle /\ UNCHANGED running /\ \A t \in Threads : pc'[t] = pc[t]
    BY <1>1, <1>14, IdleWithoutWorker DEF WorkerTake, WorkerBlock, WorkerExit
  <2>2. pc'[Worker] = "none" => queue' = <<>>
    BY <1>1, <1>14 DEF WorkerTake, WorkerBlock, WorkerExit, WorkerMayExit
  <2>3. ~Idle'
    BY <2>1 DEF Idle
  <2> QED
    BY <2>2, <2>3, <1>3
<1>15. ASSUME NEW p \in Processes, WakeSpuriously(p) PROVE Settled'
  <2>1. UNCHANGED <<queue, subscribers, calls, target, running>>
    BY <1>15 DEF WakeSpuriously
  <2>2. /\ pc'[Worker] = "none" => pc[Worker] = "none"
        /\ \A t \in Threads : pc'[t] = "start" <=> pc[t] = "start"
        /\ \A t \in Threads : pc'[t] \in StopPCs <=> pc[t] \in StopPCs
    BY <1>1, <1>15 DEF WakeSpuriously
  <2>3. Idle' => Idle
    BY <2>1, <2>2 DEF Idle
  <2> QED
    BY <2>1, <2>2, <2>3, <1>2
<1>16. ASSUME NEW p \in Processes, FinishCallback(p) PROVE Settled'
  <2>1. UNCHANGED <<queue, subscribers, target, running>>
    BY <1>16 DEF FinishCallback
  <2>2. /\ pc[p] = "callback" /\ pc'[p] \in {"callback", "loop", "ready"}
        /\ \A q \in Processes \ {p} :
             \/ pc'[q] = pc[q]
             \/ pc[q] = "unsubscribe_sleep" /\ pc'[q] = "unsubscribe_woken"
             \/ pc[q] = "stop_sleep" /\ pc'[q] = "stop_woken"
    BY <1>1, <1>16, FinishPoints
  <2>3. (Idle' => Idle) /\ (pc'[Worker] = "none" => pc[Worker] = "none")
    BY <2>1, <2>2 DEF Idle
  <2>4. CallsWithin(calls, Targets) => CallsWithin(calls', Targets)
    BY <1>1, <1>16, FinishShrinks
  <2> QED
    BY <2>1, <2>3, <2>4 DEF Settled, Targets
<1> QED
  BY <1>4, <1>5, <1>6, <1>7, <1>8, <1>9, <1>10, <1>11, <1>12, <1>13, <1>14, <1>15, <1>16
  DEF Next, ClientCall, ClientStep, WorkerStep, Use

(* Every step of a settled bus keeps in_flight exact: a start forgets an   *)
(* empty queue.                                                            *)
LEMMA ExactStep ==
    ASSUME Invariant, Settled, InFlightExact, Next, Types'
    PROVE  InFlightExact'
<1>1. ASSUME NEW s \in allocated' PROVE in_flight'[s] = Calls(s)'
  <2>1. s \in Subscriptions
    BY DEF Types, TypeOK
  <2>2. Accounted(s)
    BY <2>1, StepIsAccounted DEF Invariant
  <2>3. /\ in_flight[s] \in Nat /\ in_flight'[s] \in Nat /\ Calls(s) \in Nat
        /\ Cardinality(InDelivery(s)) \in Nat /\ Cardinality(Queued(s)) \in Nat
    BY <2>1, CallsCount DEF Types, TypeOK, Invariant
  <2>4. Calls(s)' \in Nat
    <3>1. IsFiniteSet(InDelivery(s)')
      BY <2>2 DEF Accounted
    <3>2. Cardinality(InDelivery(s)') \in Nat
      BY <3>1, FS_CardinalityType
    <3>3. Queued(s)' = Places(queue', s) /\ queue' \in Seq(SUBSET Subscriptions)
      BY DEF Queued, Places, Types, TypeOK
    <3>4. Cardinality(Queued(s)') \in Nat
      BY <3>3, PlacesFinite
    <3> QED
      BY <3>2, <3>4 DEF Calls
  <2>5. CASE s \in allocated
    <3>1. in_flight[s] = Calls(s)
      BY <2>5 DEF InFlightExact, Calls
    <3>2. CASE Even(s)
      BY <3>1, <3>2, <2>3, <2>4 DEF Even
    <3>3. ASSUME NEW t \in Threads, Start(t), in_flight'[s] = in_flight[s],
                 Calls(s)' = Cardinality(InDelivery(s))
          PROVE  in_flight'[s] = Calls(s)'
      <4>1. queue = <<>>
        <5>1. Idle /\ LifecycleOK
          BY <3>3 DEF Start, Idle, At, Invariant
        <5> QED
          BY <5>1, IdleWithoutWorker DEF Settled
      <4>2. Queued(s) = {}
        BY <4>1 DEF Queued
      <4>3. Calls(s) = Cardinality(InDelivery(s))
        BY <4>2, <2>3, FS_EmptySet DEF Calls
      <4> QED
        BY <4>3, <3>1, <3>3
    <3> QED
      BY <2>2, <2>5, <3>2, <3>3 DEF Accounted
  <2>6. CASE s \notin allocated
    BY <2>2, <2>6 DEF Accounted
  <2> QED
    BY <2>5, <2>6
<1> QED
  BY <1>1 DEF InFlightExact, Calls

(* The bus starts settled.                                                 *)
LEMMA InitSettled == Init => Settled /\ InFlightExact
  BY DEF Init, Settled, Idle, CallsWithin, InFlightExact

(* Stuttering keeps it settled.                                            *)
LEMMA SettledUnchanged ==
    Settled /\ InFlightExact /\ UNCHANGED vars => Settled' /\ InFlightExact'
<1> SUFFICES ASSUME Settled, InFlightExact, UNCHANGED vars
             PROVE  Settled' /\ InFlightExact'
  OBVIOUS
<1> USE DEF vars
<1>1. Settled'
  BY DEF Settled, Idle, CallsWithin, Targets
<1>2. InFlightExact'
  <2>1. allocated' = allocated /\ in_flight' = in_flight
    OBVIOUS
  <2>2. ASSUME NEW s PROVE Queued(s)' = Queued(s) /\ InDelivery(s)' = InDelivery(s)
    <3>1. Queued(s)' = Queued(s)
      BY DEF Queued
    <3>2. ASSUME NEW p PROVE DeliveriesOf(s, p)' = DeliveriesOf(s, p)
      BY DEF DeliveriesOf
    <3> QED
      BY <3>1, <3>2 DEF InDelivery
  <2> QED
    BY <2>1, <2>2 DEF InFlightExact
<1> QED
  BY <1>1, <1>2

(* With the client rule, the bus is settled and in_flight exact in every   *)
(* reachable state.                                                        *)
LEMMA SettledHolds == ASSUME ExclusiveStart PROVE Spec => [](Invariant /\ Settled /\ InFlightExact)
<1>1. Init => Invariant /\ Settled /\ InFlightExact
  BY InitInvariant, InitSettled
<1>2. Invariant /\ Settled /\ InFlightExact /\ [Next]_vars
        => (Invariant /\ Settled /\ InFlightExact)'
  <2> SUFFICES ASSUME Invariant, Settled, InFlightExact, [Next]_vars
               PROVE  Invariant' /\ Settled' /\ InFlightExact'
    OBVIOUS
  <2>1. Invariant' /\ Types'
    BY InvariantStep DEF Invariant
  <2>2. CASE Next
    BY <2>1, <2>2, SettledStep, ExactStep
  <2>3. CASE UNCHANGED vars
    BY <2>1, <2>3, SettledUnchanged
  <2> QED
    BY <2>2, <2>3
<1> QED
  BY <1>1, <1>2, PTL DEF Spec

(* With the client rule: in_flight is the number of calls of a             *)
(* subscription that are queued, about to run or running, exactly.         *)
THEOREM InFlightIsExact == ExclusiveStart => (Spec => []InFlightExact)
<1> SUFFICES ASSUME ExclusiveStart PROVE Spec => []InFlightExact
  OBVIOUS
<1>1. Spec => [](Invariant /\ Settled /\ InFlightExact)
  BY SettledHolds
<1> QED
  BY <1>1, PTL

(* With the client rule: a stopped bus has delivered what it accepted and  *)
(* has no worker; it runs callbacks only of subscriptions whose            *)
(* unsubscribe still waits for them, so none when no thread unsubscribes.  *)
THEOREM StoppedBusIsQuiet ==
    ExclusiveStart =>
        (Spec => [](/\ StoppedIsQuiet
                    /\ Stopped /\ At(UnsubscribePCs) = {} => \A p \in Processes : calls[p] = <<>>))
<1> SUFFICES ASSUME ExclusiveStart
             PROVE  Spec => [](/\ StoppedIsQuiet
                               /\ Stopped /\ At(UnsubscribePCs) = {} =>
                                      \A p \in Processes : calls[p] = <<>>)
  OBVIOUS
<1>1. Spec => [](Invariant /\ Settled /\ InFlightExact)
  BY SettledHolds
<1>2. ASSUME Invariant, Settled, Stopped
      PROVE  /\ StopAwaitsOthers /\ StoppedIsDrained
             /\ At(UnsubscribePCs) = {} => \A p \in Processes : calls[p] = <<>>
  <2>1. PointsOK /\ LifecycleOK /\ TargetsOK /\ calls \in [Processes -> Seq(Call)]
    BY <1>2, TypesParts DEF Invariant
  <2>2. Idle
    BY <1>2, <2>1 DEF Stopped, At, Idle, StopPCs
  <2>3. pc[Worker] = "none"
    BY <2>1, <2>2, IdleWithoutWorker
  <2>4. StoppedIsDrained
    BY <1>2, <2>3 DEF Settled, StoppedIsDrained
  <2>5. ASSUME NEW p \in Processes, NEW i \in DOMAIN calls[p]
        PROVE  /\ Callees(calls[p][i]) \subseteq {target[t] : t \in At(UnsubscribePCs)}
               /\ calls[p][i].running \in Callees(calls[p][i])
    <3>1. calls[p][i] \in Call
      BY <2>1, <2>5
    <3>2. Callees(calls[p][i]) \subseteq Subscriptions
      BY <3>1 DEF Callees, Call
    <3>3. Callees(calls[p][i]) \subseteq Targets
      BY <1>2, <2>2, <2>5 DEF Settled, CallsWithin
    <3>4. ASSUME NEW s \in Callees(calls[p][i]) PROVE s \in {target[t] : t \in At(UnsubscribePCs)}
      <4>1. PICK t \in Threads : s = target[t]
        BY <3>3, <3>4 DEF Targets
      <4>2. target[t] # NULL
        BY <3>2, <3>4, <4>1, EventAssumption
      <4>3. t \in At(UnsubscribePCs)
        BY <2>1, <4>2 DEF TargetsOK, At, Processes
      <4> QED
        BY <4>1, <4>3
    <3> QED
      BY <3>4 DEF Callees
  <2>6. StopAwaitsOthers
    BY <2>5 DEF StopAwaitsOthers
  <2>7. ASSUME At(UnsubscribePCs) = {}, NEW p \in Processes PROVE calls[p] = <<>>
    <3>1. calls[p] \in Seq(Call)
      BY <2>1
    <3>2. \A i \in DOMAIN calls[p] : FALSE
      BY <2>5, <2>7
    <3>3. Len(calls[p]) \in Nat /\ DOMAIN calls[p] = 1..Len(calls[p])
      BY <3>1, LenProperties
    <3>4. Len(calls[p]) = 0
      <4>1. Len(calls[p]) > 0 => 1 \in DOMAIN calls[p]
        BY <3>3
      <4> QED
        BY <3>2, <3>3, <4>1
    <3> QED
      BY <3>1, <3>4, EmptySeq
  <2> QED
    BY <2>4, <2>6, <2>7
<1>3. Invariant /\ Settled =>
          /\ StoppedIsQuiet
          /\ Stopped /\ At(UnsubscribePCs) = {} => \A p \in Processes : calls[p] = <<>>
  BY <1>2 DEF StoppedIsQuiet, StopAwaitsOthers, StoppedIsDrained
<1> QED
  BY <1>1, <1>3, PTL
=============================================================================
