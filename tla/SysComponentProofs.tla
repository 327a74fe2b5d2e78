------------------------- MODULE SysComponentProofs --------------------------
(***************************************************************************)
(* Proofs about SysComponent, for every link section.  The inductive       *)
(* invariant says of each point of start_all and stop_all what the two     *)
(* orders, the flags and the states are; the properties follow because the *)
(* orders name each component once, after what it depends on.              *)
(***************************************************************************)
EXTENDS SysComponent, SequenceTheorems, WellFoundedInduction, TLAPS

USE ComponentAssumption

(* The two orders as sets, and the component whose callback runs at a      *)
(* point.                                                                  *)
Order == ToSet(initialized_order)
Started == ToSet(started_order)
CurrentIn(at) == IF pc = at THEN {subject} ELSE {}

(* A list of components names each once, after what it depends on.         *)
Distinct(s) == \A i, j \in DOMAIN s : s[i] = s[j] => i = j
Sorted(s) == \A i \in DOMAIN s : \A d \in Dependencies(s[i]) :
                 \E j \in DOMAIN s : j < i /\ s[j] = d

CallPCs == {"init", "start", "discard", "stop", "deinit"}

(* The lifecycle works on a valid section, and on what stands in it.       *)
Scope ==
    /\ pc # "down" => Valid
    /\ pc \in CallPCs => subject \in Registered
    /\ Order \subseteq Registered

(* Whatever fails, both orders stay fit to be taken down in reverse.       *)
Lists ==
    /\ Distinct(initialized_order) /\ Sorted(initialized_order)
    /\ Distinct(started_order) /\ Sorted(started_order)

(* The flags and the two orders account for what the callbacks have built. *)
Flags ==
    /\ alive = initialized
    /\ active = Started \union CurrentIn("stop")
    /\ Started \subseteq initialized
    /\ initialized \subseteq Order \union CurrentIn("deinit")
    /\ \A c \in Order : c \in initialized \/ (Lost(c) /\ ~Desc(c).required)

(* A component is RUNNING while it is in the started order; one is SKIPPED *)
(* only for a dependency that is lost.                                     *)
States ==
    /\ \A c \in Components : state[c] = "running" <=> c \in Started
    /\ \A c \in Registered : state[c] = "skipped" => \E d \in Dependencies(c) : Lost(d)

(* Phase by phase: what is not DISCOVERED any more is initialized or lost. *)
Building ==
    pc \in {"initialize_next", "init"} =>
        /\ started_order = <<>> /\ index = 1
        /\ \A c \in Registered :
              /\ \/ state[c] \in {"discovered", "initialized", "failed", "skipped"}
                 \/ pc = "init" /\ c = subject
              /\ state[c] = "initialized" <=> c \in Order
              /\ state[c] = "discovered" => phase <= Desc(c).phase
              /\ Lost(c) => ~Desc(c).required
        /\ pc = "init" => /\ state[subject] = "initializing"
                          /\ Dependencies(subject) \subseteq initialized

(* The start loop: behind index components run or are lost, and what is    *)
(* ahead of it waits.                                                      *)
Starting ==
    pc \in {"start_next", "start", "discard", "up"} =>
        /\ \A i \in DOMAIN initialized_order :
              /\ i < index => \/ state[initialized_order[i]] = "running"
                              \/ Lost(initialized_order[i])
              /\ i > index => state[initialized_order[i]] = "initialized"
        /\ \A c \in Registered : Lost(c) => ~Desc(c).required
        /\ \A c \in Registered : c \in Order \/ Lost(c)
        /\ \A c \in initialized : Lost(c) => pc = "discard" /\ c = subject
        /\ pc \in {"start", "discard"} => /\ index \in DOMAIN initialized_order
                                          /\ subject = initialized_order[index]
        /\ pc = "start_next" /\ index \in DOMAIN initialized_order =>
               state[initialized_order[index]] = "initialized"
        /\ pc = "start" => /\ state[subject] = "starting"
                           /\ Dependencies(subject) \subseteq Started
        /\ pc = "discard" => Lost(subject) /\ subject \in initialized
        /\ pc = "up" => index > Len(initialized_order)

(* What is stopped or deinitialized is off its list; its dependencies are  *)
(* on.                                                                     *)
TakingDown ==
    /\ pc = "stop" => /\ state[subject] = "stopping" /\ subject \notin Started
                      /\ Dependencies(subject) \subseteq Started
    /\ pc = "deinit" => /\ subject \in initialized /\ subject \notin Order
                        /\ Dependencies(subject) \subseteq Order
    /\ pc \in {"down", "deinit_next", "deinit"} => started_order = <<>>
    /\ pc = "down" => initialized_order = <<>>

(* The inductive invariant.                                                *)
Invariant ==
    TypeOK /\ Scope /\ Lists /\ Flags /\ States /\ Building /\ Starting /\ TakingDown

-----------------------------------------------------------------------------
(* The descriptor of a registered id is an element of the section. *)
LEMMA DescType ==
    ASSUME section \in Seq(Descriptors), NEW c \in Registered
    PROVE  /\ Desc(c) \in Descriptors /\ c \in Components
           /\ \E i \in DOMAIN section : Desc(c) = section[i] /\ section[i].id = c
<1>1. PICK i \in DOMAIN section : section[i].id = c  BY DEF Registered
<1>2. /\ (CHOOSE k \in DOMAIN section : section[k].id = c) \in DOMAIN section
      /\ section[CHOOSE k \in DOMAIN section : section[k].id = c].id = c
  BY <1>1
<1>3. \A k \in DOMAIN section : section[k] \in Descriptors  OBVIOUS
<1>4. Desc(c) \in Descriptors  BY <1>2, <1>3 DEF Desc
<1>5. Desc(c).id = c  BY <1>2 DEF Desc
<1> QED  BY <1>2, <1>4, <1>5 DEF Desc, Descriptors

(* Validation: what a component depends on is registered. *)
LEMMA DependenciesRegistered ==
    ASSUME section \in Seq(Descriptors), Valid, NEW c \in Registered
    PROVE  Dependencies(c) \subseteq Registered
BY DEF Valid

(* The section is read only. *)
LEMMA SectionFixed ==
    ASSUME section' = section
    PROVE  /\ Registered' = Registered /\ (Valid' <=> Valid)
           /\ \A c : Desc(c)' = Desc(c) /\ Dependencies(c)' = Dependencies(c)
BY DEF Registered, Valid, Desc, Dependencies

(* Ready for S: every dependency is in S. *)
LEMMA ReadyMeans ==
    ASSUME NEW c, NEW S
    PROVE  DependenciesReady(c, S) <=> Dependencies(c) \subseteq S
BY DEF DependenciesReady, Unsatisfied, Dependencies, ToSet

(* Failed: some dependency is lost. *)
LEMMA FailedMeans ==
    ASSUME NEW c, NEW S, NEW L, DependenciesFailed(c, S, L)
    PROVE  /\ ~DependenciesReady(c, S)
           /\ \E d \in Dependencies(c) : d \in L
BY DEF DependenciesFailed, DependenciesReady, Unsatisfied, Dependencies, ToSet

(* A set of natural numbers that is not empty has a least element. *)
LEMMA LeastOf ==
    ASSUME NEW T, T \subseteq Nat, T # {}
    PROVE  \E c \in T : \A d \in T : c <= d
<1>1. PICK c \in T : \A d \in T : ~(<<d, c>> \in OpToRel(<, Nat))
  BY WFMin, NatLessThanWellFounded
<1>2. ASSUME NEW d \in T PROVE c <= d
  <2>1. ~(<<d, c>> \in OpToRel(<, Nat))  BY <1>1
  <2>2. <<d, c>> \in Nat \X Nat  OBVIOUS
  <2>3. ~(d < c)  BY <2>1, <2>2 DEF OpToRel
  <2> QED  BY <2>3
<1> QED  BY <1>2

(* The candidate is one of the components that are ready. *)
LEMMA CandidateIsReady ==
    ASSUME Ready # {}, section \in Seq(Descriptors)
    PROVE  Candidate \in Ready
<1>1. Ready \subseteq Nat  BY DescType DEF Ready, Pending
<1>2. \E c \in Ready : \A d \in Ready : c <= d  BY <1>1, LeastOf
<1> QED  BY <1>2 DEF Candidate

(* A pass over the first k descriptors. *)
Seen(k) == {section[j].id : j \in 1..k}
PassOver(k, S) ==
    /\ S \subseteq Pending /\ S \subseteq Seen(k)
    /\ \A i \in 1..k : section[i].id \in S <=> Skips(i, S)

(* What the pass skips later does not change what it has skipped before. *)
LEMMA SkipsLocal ==
    ASSUME NEW i, NEW S, NEW T, S \intersect Seen(i - 1) = T \intersect Seen(i - 1)
    PROVE  Skips(i, S) <=> Skips(i, T)
<1>1. Before(i, S) = Before(i, T)  BY DEF Before, Seen
<1> QED  BY <1>1 DEF Skips

(* A pass goes on with one more descriptor. *)
LEMMA PassGoesOn ==
    ASSUME section \in Seq(Descriptors), Valid, NEW k \in Nat, k + 1 <= Len(section),
           NEW S, PassOver(k, S)
    PROVE  \E T : PassOver(k + 1, T)
<1> DEFINE new == section[k + 1].id
           T == IF Skips(k + 1, S) THEN S \union {new} ELSE S
<1>1. \A i, j \in DOMAIN section : section[i].id = section[j].id => i = j
  BY DEF Valid, IsInjective
<1>2. \A i \in 1..(k + 1) : i \in DOMAIN section  OBVIOUS
<1>3. \A i \in 1..k : new # section[i].id  BY <1>1, <1>2
<1>4. T \subseteq Pending  BY DEF PassOver, Skips
<1>5. T \subseteq Seen(k + 1)
  <2>1. Seen(k) \subseteq Seen(k + 1) /\ new \in Seen(k + 1)  BY DEF Seen
  <2> QED  BY <2>1 DEF PassOver
<1>6. ASSUME NEW i \in 1..(k + 1) PROVE section[i].id \in T <=> Skips(i, T)
  <2>1. new \notin Seen(i - 1)  BY <1>3 DEF Seen
  <2>2. S \intersect Seen(i - 1) = T \intersect Seen(i - 1)  BY <2>1
  <2>3. Skips(i, S) <=> Skips(i, T)
    <3> HIDE DEF T
    <3> QED  BY <2>2, SkipsLocal
  <2>4. CASE i \in 1..k
    BY <2>3, <2>4, <1>3 DEF PassOver
  <2>5. CASE i = k + 1
    <3>1. new \notin S  BY <1>3 DEF PassOver, Seen
    <3> QED  BY <2>3, <2>5, <3>1
  <2> QED  BY <2>4, <2>5
<1> HIDE DEF T
<1> QED  BY <1>4, <1>5, <1>6 DEF PassOver

(* A pass of initialize_phase has an outcome: of the prefixes of the       *)
(* section without one, none would be the shortest.                        *)
LEMMA PassExists ==
    ASSUME section \in Seq(Descriptors), Valid
    PROVE  \E S : PassOver(Len(section), S)
<1> DEFINE Bad == {k \in 0..Len(section) : ~\E S : PassOver(k, S)}
<1>1. ASSUME Bad # {} PROVE FALSE
  <2>1. Bad \subseteq Nat  OBVIOUS
  <2>2. PICK k \in Bad : \A m \in Bad : k <= m
    <3> HIDE DEF Bad
    <3> QED  BY <1>1, <2>1, LeastOf
  <2>3. PassOver(0, {})  BY DEF PassOver
  <2>4. k # 0  BY <2>2, <2>3
  <2>5. k \in Nat /\ k <= Len(section) /\ ~\E S : PassOver(k, S)  BY <2>2
  <2>6. k - 1 \in 0..Len(section) /\ k - 1 \notin Bad  BY <2>2, <2>4, <2>5
  <2>7. PICK S : PassOver(k - 1, S)  BY <2>6
  <2>8. \E T : PassOver((k - 1) + 1, T)  BY <2>4, <2>5, <2>7, PassGoesOn
  <2> QED  BY <2>4, <2>5, <2>8
<1>2. Len(section) \in 0..Len(section)  OBVIOUS
<1> QED  BY <1>1, <1>2

(* What a pass skips is pending and has a dependency that is lost. *)
LEMMA SkippedAreLost ==
    ASSUME section \in Seq(Descriptors), Valid
    PROVE  /\ Skipped \subseteq Pending
           /\ \A c \in Skipped : /\ ~DependenciesReady(c, Usable)
                                 /\ \E d \in Dependencies(c) : d \in LostIds \union Skipped
<1>1. PICK S : PassOver(Len(section), S)  BY PassExists
<1>2. DOMAIN section = 1..Len(section)  OBVIOUS
<1>3. \E P \in SUBSET Pending : \A i \in DOMAIN section : section[i].id \in P <=> Skips(i, P)
  BY <1>1, <1>2 DEF PassOver
<1>4. /\ Skipped \subseteq Pending
      /\ \A i \in DOMAIN section : section[i].id \in Skipped <=> Skips(i, Skipped)
  BY <1>3 DEF Skipped
<1>5. ASSUME NEW c \in Skipped
      PROVE  ~DependenciesReady(c, Usable) /\ \E d \in Dependencies(c) : d \in LostIds \union Skipped
  <2>1. PICK i \in DOMAIN section : section[i].id = c  BY <1>4 DEF Pending, Registered
  <2>2. DependenciesFailed(c, Usable, LostIds \union Before(i, Skipped))
    BY <1>4, <2>1 DEF Skips
  <2>3. /\ ~DependenciesReady(c, Usable)
        /\ \E d \in Dependencies(c) : d \in LostIds \union Before(i, Skipped)
    BY <2>2, FailedMeans
  <2> QED  BY <2>3 DEF Before
<1> QED  BY <1>4, <1>5

-----------------------------------------------------------------------------
(* Appending a component keeps a list sorted if the list has what the      *)
(* component depends on.                                                   *)
LEMMA AppendList ==
    ASSUME NEW s \in Seq(Components), NEW c \in Components, c \notin ToSet(s),
           Distinct(s), Sorted(s), Dependencies(c) \subseteq ToSet(s)
    PROVE  /\ Append(s, c) \in Seq(Components)
           /\ Distinct(Append(s, c)) /\ Sorted(Append(s, c))
           /\ ToSet(Append(s, c)) = ToSet(s) \union {c}
<1> DEFINE t == Append(s, c)
<1>1. /\ t \in Seq(Components) /\ Len(t) = Len(s) + 1
      /\ DOMAIN s = 1..Len(s) /\ DOMAIN t = 1..(Len(s) + 1)
      /\ \A i \in 1..Len(s) : t[i] = s[i]
      /\ t[Len(s) + 1] = c
  OBVIOUS
<1> HIDE DEF t
<1>2. ToSet(t) = ToSet(s) \union {c}
  BY <1>1 DEF ToSet
<1>3. Distinct(t)
  BY <1>1 DEF Distinct, ToSet
<1>4. ASSUME NEW i \in DOMAIN t, NEW d \in Dependencies(t[i])
      PROVE  \E j \in DOMAIN t : j < i /\ t[j] = d
  <2>1. CASE i \in 1..Len(s)
    <3>1. d \in Dependencies(s[i]) /\ i \in DOMAIN s  BY <1>1, <2>1
    <3>2. PICK j \in DOMAIN s : j < i /\ s[j] = d  BY <3>1 DEF Sorted
    <3> QED  BY <1>1, <3>2
  <2>2. CASE i = Len(s) + 1
    <3>1. d \in ToSet(s)  BY <1>1, <2>2
    <3>2. PICK j \in DOMAIN s : s[j] = d  BY <3>1 DEF ToSet
    <3> QED  BY <1>1, <2>2, <3>2
  <2> QED  BY <1>1, <2>1, <2>2
<1>5. Sorted(t)  BY <1>4 DEF Sorted
<1> QED  BY <1>1, <1>2, <1>3, <1>5 DEF t

(* The last component of a sorted list may be taken off. *)
LEMMA FrontList ==
    ASSUME NEW s \in Seq(Components), s # <<>>, Distinct(s), Sorted(s)
    PROVE  /\ Front(s) \in Seq(Components) /\ Distinct(Front(s)) /\ Sorted(Front(s))
           /\ Last(s) \in Components /\ Last(s) \in ToSet(s)
           /\ ToSet(Front(s)) = ToSet(s) \ {Last(s)}
           /\ Dependencies(Last(s)) \subseteq ToSet(Front(s))
<1> DEFINE t == Front(s)
           n == Len(s)
<1>1. n \in Nat /\ n > 0 /\ DOMAIN s = 1..n  OBVIOUS
<1>2. /\ t \in Seq(Components) /\ DOMAIN t = 1..(n - 1)
      /\ \A i \in 1..(n - 1) : t[i] = s[i]
  BY <1>1 DEF Front
<1>3. Last(s) = s[n]  BY DEF Last
<1>4. s[n] \in Components /\ s[n] \in ToSet(s)  BY <1>1 DEF ToSet
<1> HIDE DEF t, n
<1>5. Distinct(t)  BY <1>1, <1>2 DEF Distinct
<1>6. ToSet(t) = ToSet(s) \ {s[n]}  BY <1>1, <1>2 DEF ToSet, Distinct
<1>7. ASSUME NEW i \in DOMAIN s, NEW d \in Dependencies(s[i])
      PROVE  \E j \in DOMAIN t : j < i /\ t[j] = d
  <2>1. PICK j \in DOMAIN s : j < i /\ s[j] = d  BY <1>7 DEF Sorted
  <2> QED  BY <1>1, <1>2, <2>1
<1>8. Sorted(t)  BY <1>1, <1>2, <1>7 DEF Sorted
<1>9. Dependencies(s[n]) \subseteq ToSet(t)  BY <1>1, <1>7 DEF ToSet
<1> QED  BY <1>2, <1>3, <1>4, <1>5, <1>6, <1>8, <1>9 DEF t

-----------------------------------------------------------------------------
(* Types are kept. *)
LEMMA TypeStep ==
    ASSUME Invariant, [Next]_vars
    PROVE  TypeOK'
<1> USE DEF Invariant, TypeOK, Phases
<1>1. CASE StartAll  BY <1>1 DEF StartAll, world
<1>2. CASE StopAll  BY <1>2 DEF StopAll, orders, world
<1>3. CASE PhaseDone  BY <1>3 DEF PhaseDone, MorePhases, orders, world
<1>4. CASE InitializeCandidate
  <2>1. Candidate \in Components
    BY <1>4, CandidateIsReady, DescType DEF InitializeCandidate, Ready, Pending
  <2> QED  BY <1>4, <2>1 DEF InitializeCandidate, Skipping, orders, world
<1>5. CASE InitializeNone
  BY <1>5 DEF InitializeNone, Skipping, Repeats, orders, world
<1>6. CASE InitSucceeds
  <2>1. subject \in Components  BY <1>6, DescType DEF InitSucceeds, Scope, CallPCs
  <2> QED  BY <1>6, <2>1 DEF InitSucceeds
<1>7. CASE InitFails  BY <1>7 DEF InitFails, AfterFailure, orders, world
<1>8. CASE StartNext
  <2>1. initialized_order[index] \in Components  BY <1>8 DEF StartNext
  <2> QED  BY <1>8, <2>1 DEF StartNext, AfterFailure, orders, world
<1>9. CASE StartSucceeds
  <2>1. subject \in Components  BY <1>9, DescType DEF StartSucceeds, Scope, CallPCs
  <2> QED  BY <1>9, <2>1 DEF StartSucceeds
<1>10. CASE StartFails  BY <1>10 DEF StartFails, AfterFailure, orders, world
<1>11. CASE DiscardReturns  BY <1>11 DEF DiscardReturns
<1>12. CASE StartDone  BY <1>12 DEF StartDone, orders, world
<1>13. CASE StopNext
  <2>1. Last(started_order) \in Components /\ Front(started_order) \in Seq(Components)
    BY <1>13, FrontList DEF StopNext, Lists
  <2> QED  BY <1>13, <2>1 DEF StopNext, NextToStop, world
<1>14. CASE StopReturns  BY <1>14 DEF StopReturns, orders
<1>15. CASE StopDone  BY <1>15 DEF StopDone, orders, world
<1>16. CASE DeinitNext
  <2>1. Last(initialized_order) \in Components /\ Front(initialized_order) \in Seq(Components)
    BY <1>16, FrontList DEF DeinitNext, Lists
  <2> QED  BY <1>16, <2>1 DEF DeinitNext, world
<1>17. CASE DeinitReturns  BY <1>17 DEF DeinitReturns, FinalState
<1>18. CASE DeinitDone  BY <1>18 DEF DeinitDone, orders, world
<1>19. CASE UNCHANGED vars  BY <1>19 DEF vars, orders, world
<1> QED
  BY <1>1, <1>2, <1>3, <1>4, <1>5, <1>6, <1>7, <1>8, <1>9, <1>10, <1>11, <1>12, <1>13,
     <1>14, <1>15, <1>16, <1>17, <1>18, <1>19 DEF Next, Lifecycle

-----------------------------------------------------------------------------
Others == Scope /\ Lists /\ Flags /\ States /\ Building /\ Starting /\ TakingDown

(* What refers to the section and to variables a step leaves alone is kept. *)
LEMMA UntouchedOrders ==
    ASSUME section' = section, Lists,
           initialized_order' = initialized_order, started_order' = started_order
    PROVE  Lists' /\ Order' = Order /\ Started' = Started
BY SectionFixed DEF Lists, Order, Started, Sorted, Distinct

(* The states are kept by a step that leaves them and the started list     *)
(* alone.                                                                  *)
LEMMA UntouchedStates ==
    ASSUME section' = section, States, state' = state, Started' = Started
    PROVE  States'
BY SectionFixed DEF States, Lost

(* collect_components starts from nothing built.                           *)
LEMMA StartAllStep ==
    ASSUME Invariant, StartAll
    PROVE  Others'
<1> USE DEF Invariant, StartAll
<1>1. section' = section /\ Registered \subseteq Components /\ Registered' = Registered
  BY SectionFixed, DescType DEF TypeOK
<1>2. /\ initialized' = {} /\ initialized_order' = <<>> /\ started_order' = <<>>
      /\ alive' = {} /\ active' = {} /\ index' = 1 /\ phase' = 0
      /\ pc' \in {"initialize_next", "down"} /\ pc' = "initialize_next" => Valid
      /\ \A c \in Components : state'[c] = "discovered"
  BY DEF Flags, TakingDown, world, CurrentIn, Order, Started, ToSet
<1>3. Order' = {} /\ Started' = {}  BY <1>2 DEF Order, Started, ToSet
<1>4. Scope'  BY <1>1, <1>2, <1>3, SectionFixed DEF Scope, CallPCs
<1>5. Lists'  BY <1>2 DEF Lists, Distinct, Sorted
<1>6. Flags'  BY <1>2, <1>3 DEF Flags, CurrentIn
<1>7. States'  BY <1>1, <1>2, <1>3 DEF States
<1>8. Building'
  <2>1. ASSUME NEW c \in Registered PROVE 0 <= Desc(c).phase
    BY DescType DEF TypeOK, Descriptors, Phases
  <2> QED  BY <1>1, <1>2, <1>3, <2>1, SectionFixed DEF Building, Lost
<1>9. Starting'  BY <1>2 DEF Starting
<1>10. TakingDown'  BY <1>2 DEF TakingDown
<1> QED  BY <1>4, <1>5, <1>6, <1>7, <1>8, <1>9, <1>10 DEF Others

(* A phase ends when nothing of it is DISCOVERED; after the last one       *)
(* every component is initialized or lost.                                 *)
LEMMA PhaseDoneStep ==
    ASSUME Invariant, PhaseDone
    PROVE  Others'
<1> USE DEF Invariant, PhaseDone
<1>1. /\ section' = section /\ Registered \subseteq Components /\ Registered' = Registered
      /\ \A c : Desc(c)' = Desc(c) /\ Dependencies(c)' = Dependencies(c)
      /\ Valid' <=> Valid
  BY SectionFixed, DescType DEF TypeOK
<1>2. /\ pc' \in {"initialize_next", "start_next"}
      /\ state' = state /\ initialized' = initialized /\ alive' = alive /\ active' = active
      /\ initialized_order' = initialized_order /\ started_order' = started_order
      /\ index' = index
  BY DEF orders, world
<1>3. Lists' /\ Order' = Order /\ Started' = Started  BY <1>1, <1>2, UntouchedOrders
<1>4. \A c \in Registered : state[c] = "discovered" => phase < Desc(c).phase
  <2>1. ASSUME NEW c \in Registered, state[c] = "discovered" PROVE phase < Desc(c).phase
    <3>1. phase <= Desc(c).phase /\ Desc(c).phase # phase  BY <2>1 DEF Building, Pending
    <3>2. phase \in Nat /\ Desc(c).phase \in Nat  BY DescType DEF TypeOK, Descriptors, Phases
    <3> QED  BY <3>1, <3>2
  <2> QED  BY <2>1
<1>5. Scope'  BY <1>1, <1>2, <1>3 DEF Scope, CallPCs
<1>6. Flags'  BY <1>1, <1>2, <1>3 DEF Flags, CurrentIn, Lost
<1>7. States'  BY <1>1, <1>2, <1>3, UntouchedStates
<1>8. Building'
  <2>1. ASSUME NEW c \in Registered, state[c] = "discovered", pc' = "initialize_next"
        PROVE  phase' <= Desc(c).phase
    <3>1. phase \in Nat /\ Desc(c).phase \in Nat  BY DescType DEF TypeOK, Descriptors, Phases
    <3> QED  BY <1>4, <2>1, <3>1
  <2> QED  BY <1>1, <1>2, <1>3, <2>1 DEF Building, Lost
<1>9. Starting'
  <2>1. ASSUME pc' = "start_next", NEW c \in Registered PROVE state[c] # "discovered"
    <3>1. phase = LastPhase  BY <2>1 DEF MorePhases, TypeOK, Phases
    <3>2. Desc(c).phase \in 0..LastPhase  BY DescType DEF TypeOK, Descriptors, Phases
    <3> QED  BY <1>4, <3>1, <3>2
  <2>2. \A i \in DOMAIN initialized_order : initialized_order[i] \in Order  BY DEF Order, ToSet
  <2>3. \A c \in Order : state[c] = "initialized"  BY DEF Building, Scope
  <2>4. \A c \in initialized : state[c] = "initialized"  BY <2>3 DEF Flags, CurrentIn
  <2>5. ASSUME pc' = "start_next", NEW c \in Registered PROVE c \in Order \/ Lost(c)
    BY <2>1, <2>5 DEF Building, Lost
  <2> QED
    BY <1>1, <1>2, <1>3, <2>1, <2>2, <2>3, <2>4, <2>5 DEF Building, Starting, Lost, TypeOK
<1>10. TakingDown'  BY <1>2 DEF TakingDown
<1> QED  BY <1>3, <1>5, <1>6, <1>7, <1>8, <1>9, <1>10 DEF Others

(* A pass that finds a component whose dependencies are initialized.       *)
LEMMA InitializeCandidateStep ==
    ASSUME Invariant, InitializeCandidate
    PROVE  Others'
<1> USE DEF Invariant, InitializeCandidate
<1>1. /\ section' = section /\ Registered \subseteq Components /\ Registered' = Registered
      /\ \A c : Desc(c)' = Desc(c) /\ Dependencies(c)' = Dependencies(c)
      /\ Valid /\ Valid'
  BY SectionFixed, DescType DEF TypeOK, Scope
<1>2. /\ pc' = "init" /\ subject' = Candidate
      /\ initialized' = initialized /\ alive' = alive /\ active' = active
      /\ initialized_order' = initialized_order /\ started_order' = started_order
      /\ index' = index /\ phase' = phase
  BY DEF orders, world
<1>3. Lists' /\ Order' = Order /\ Started' = Started  BY <1>1, <1>2, UntouchedOrders
<1>4. /\ Skipped \subseteq Pending
      /\ \A c \in Skipped : /\ ~DependenciesReady(c, Usable)
                            /\ \E d \in Dependencies(c) : d \in LostIds \union Skipped
  BY <1>1, SkippedAreLost DEF TypeOK
<1>5. /\ Candidate \in Pending /\ Dependencies(Candidate) \subseteq Usable
      /\ Candidate \in Registered /\ Candidate \notin Skipped
  BY <1>4, CandidateIsReady, ReadyMeans DEF Ready, Pending, TypeOK
<1>6. /\ \A c \in Pending : c \in Registered /\ state[c] = "discovered"
      /\ \A c \in Components : c \notin Pending => state'[c] = state[c]
      /\ state'[Candidate] = "initializing"
      /\ \A c \in Skipped : state'[c] = "skipped" /\ ~Desc(c).required
      /\ \A c \in Pending : c = Candidate \/ c \in Skipped \/ state'[c] = "discovered"
  BY <1>1, <1>4, <1>5 DEF TypeOK, Skipping, Pending
<1>7. /\ \A c \in Components : state[c] \notin {"running", "skipped", "failed", "initialized"}
                               \/ state'[c] = state[c]
      /\ \A c \in Components : state'[c] = "running" => state[c] = "running"
      /\ \A c \in Registered : Lost(c)' => Lost(c) \/ c \in Skipped
      /\ \A c \in Registered : Lost(c) \/ c \in Skipped => Lost(c)'
  BY <1>1, <1>4, <1>5, <1>6 DEF Lost
<1> HIDE DEF InitializeCandidate
<1>8. Scope'  BY <1>1, <1>2, <1>3, <1>5 DEF Scope
<1>9. Flags'
  BY <1>1, <1>2, <1>3, <1>7, InitializeCandidate DEF InitializeCandidate, Flags, Scope, CurrentIn
<1>10. States'
  <2>1. ASSUME NEW c \in Registered, state'[c] = "skipped"
        PROVE  \E d \in Dependencies(c) : Lost(d)'
    <3>1. Dependencies(c) \subseteq Registered  BY <1>1, DependenciesRegistered DEF TypeOK
    <3>2. CASE c \in Skipped
      BY <1>4, <1>7, <3>1, <3>2 DEF LostIds
    <3>3. CASE state[c] = "skipped"
      BY <1>7, <3>1, <3>3 DEF States
    <3> QED  BY <1>1, <1>4, <1>6, <2>1, <3>2, <3>3
  <2>2. \A c \in Components : state'[c] = "running" <=> c \in Started
    BY <1>7 DEF States
  <2> QED  BY <1>1, <1>3, <2>1, <2>2 DEF States
<1>11. Building'
  <2>1. \A c \in Registered : ~Lost(c)  \/ ~Desc(c).required
    BY InitializeCandidate DEF InitializeCandidate, Building
  <2>2. ASSUME NEW c \in Registered
        PROVE  /\ \/ state'[c] \in {"discovered", "initialized", "failed", "skipped"}
                  \/ c = Candidate
               /\ state'[c] = "initialized" <=> c \in Order
               /\ state'[c] = "discovered" => phase <= Desc(c).phase
    BY <1>1, <1>4, <1>5, <1>6, InitializeCandidate DEF InitializeCandidate, Building
  <2>3. \A c \in Registered : Lost(c)' => ~Desc(c).required
    BY <1>6, <1>7, <2>1
  <2>4. started_order = <<>> /\ index = 1
    BY InitializeCandidate DEF InitializeCandidate, Building
  <2> QED  BY <1>1, <1>2, <1>3, <1>5, <1>6, <2>2, <2>3, <2>4 DEF Building, Usable
<1>12. Starting'  BY <1>2 DEF Starting
<1>13. TakingDown'  BY <1>2 DEF TakingDown
<1> QED  BY <1>3, <1>8, <1>9, <1>10, <1>11, <1>12, <1>13 DEF Others

(* A pass that only skips components, or gives up.                         *)
LEMMA InitializeNoneStep ==
    ASSUME Invariant, InitializeNone
    PROVE  Others'
<1> USE DEF Invariant, InitializeNone
<1>1. /\ section' = section /\ Registered \subseteq Components /\ Registered' = Registered
      /\ \A c : Desc(c)' = Desc(c) /\ Dependencies(c)' = Dependencies(c)
      /\ Valid /\ Valid'
  BY SectionFixed, DescType DEF TypeOK, Scope
<1>2. /\ pc' \in {"initialize_next", "stop_next"}
      /\ pc' = "initialize_next" => \A c \in Skipped : ~Desc(c).required
      /\ initialized' = initialized /\ alive' = alive /\ active' = active
      /\ initialized_order' = initialized_order /\ started_order' = started_order
      /\ index' = index /\ phase' = phase
  BY DEF orders, world, Repeats
<1>3. Lists' /\ Order' = Order /\ Started' = Started  BY <1>1, <1>2, UntouchedOrders
<1>4. /\ Skipped \subseteq Pending
      /\ \A c \in Skipped : \E d \in Dependencies(c) : d \in LostIds \union Skipped
  BY <1>1, SkippedAreLost DEF TypeOK
<1>5. /\ \A c \in Skipped : state[c] = "discovered" /\ state'[c] = "skipped"
      /\ \A c \in Components : c \in Skipped \/ state'[c] = state[c]
  BY <1>1, <1>4 DEF TypeOK, Skipping, Pending
<1>6. /\ \A c \in Components : state[c] \notin {"running", "skipped", "failed", "initialized"}
                               \/ state'[c] = state[c]
      /\ \A c \in Components : state'[c] = "running" => state[c] = "running"
      /\ \A c \in Registered : Lost(c)' <=> Lost(c) \/ c \in Skipped
  BY <1>1, <1>4, <1>5 DEF Lost
<1> HIDE DEF InitializeNone
<1>7. Scope'  BY <1>1, <1>2, <1>3 DEF Scope, CallPCs
<1>8. Flags'
  BY <1>1, <1>2, <1>3, <1>6, InitializeNone DEF InitializeNone, Flags, Scope, CurrentIn
<1>9. States'
  <2>1. ASSUME NEW c \in Registered, state'[c] = "skipped"
        PROVE  \E d \in Dependencies(c) : Lost(d)'
    <3>1. Dependencies(c) \subseteq Registered  BY <1>1, DependenciesRegistered DEF TypeOK
    <3>2. CASE c \in Skipped
      BY <1>4, <1>6, <3>1, <3>2 DEF LostIds
    <3>3. CASE state[c] = "skipped"
      BY <1>6, <3>1, <3>3 DEF States
    <3> QED  BY <1>1, <1>5, <2>1, <3>2, <3>3
  <2>2. \A c \in Components : state'[c] = "running" <=> c \in Started
    BY <1>6 DEF States
  <2> QED  BY <1>1, <1>3, <2>1, <2>2 DEF States
<1>10. Building'
  BY <1>1, <1>2, <1>3, <1>5, <1>6, InitializeNone DEF InitializeNone, Building
<1>11. Starting'  BY <1>2 DEF Starting
<1>12. TakingDown'  BY <1>2 DEF TakingDown
<1> QED  BY <1>3, <1>7, <1>8, <1>9, <1>10, <1>11, <1>12 DEF Others

(* A component whose init succeeds comes last in the order.                *)
LEMMA InitSucceedsStep ==
    ASSUME Invariant, InitSucceeds
    PROVE  Others'
<1> USE DEF Invariant, InitSucceeds
<1>1. /\ section' = section /\ Registered \subseteq Components /\ Registered' = Registered
      /\ \A c : Desc(c)' = Desc(c) /\ Dependencies(c)' = Dependencies(c)
      /\ Valid /\ Valid'
  BY SectionFixed, DescType DEF TypeOK, Scope
<1>2. /\ subject \in Registered /\ state[subject] = "initializing" /\ subject \notin Order
      /\ Dependencies(subject) \subseteq Order
      /\ started_order = <<>> /\ index = 1
  BY DEF Scope, CallPCs, Building, Flags, CurrentIn
<1>3. /\ pc' = "initialize_next" /\ subject' = subject /\ index' = index /\ phase' = phase
      /\ initialized' = initialized \union {subject} /\ alive' = alive \union {subject}
      /\ active' = active /\ started_order' = started_order
      /\ initialized_order' = Append(initialized_order, subject)
  OBVIOUS
<1>4. /\ state'[subject] = "initialized"
      /\ \A c \in Components : c # subject => state'[c] = state[c]
  BY <1>1, <1>2 DEF TypeOK
<1>5. /\ Order' = Order \union {subject} /\ Started' = Started
      /\ Distinct(initialized_order') /\ Sorted(initialized_order')
  BY <1>1, <1>2, <1>3, AppendList DEF Order, Started, Lists, TypeOK
<1>6. Lists'  BY <1>1, <1>3, <1>5 DEF Lists, Distinct, Sorted
<1>7. \A c \in Registered : Lost(c)' <=> Lost(c)  BY <1>1, <1>2, <1>4 DEF Lost
<1>8. \A c \in Components : state'[c] = "running" <=> state[c] = "running"
  BY <1>2, <1>4
<1>9. Scope'  BY <1>1, <1>2, <1>3, <1>5 DEF Scope, CallPCs
<1>10. Flags'  BY <1>1, <1>2, <1>3, <1>5, <1>7 DEF Flags, CurrentIn, Scope
<1>11. States'
  <2>1. ASSUME NEW c \in Registered, state'[c] = "skipped"
        PROVE  \E d \in Dependencies(c) : Lost(d)'
    <3>1. Dependencies(c) \subseteq Registered  BY <1>1, DependenciesRegistered DEF TypeOK
    <3> QED  BY <1>1, <1>4, <1>7, <2>1, <3>1 DEF States
  <2> QED  BY <1>1, <1>5, <1>8, <2>1 DEF States
<1>12. Building'  BY <1>1, <1>2, <1>3, <1>4, <1>5, <1>7 DEF Building
<1>13. Starting'  BY <1>3 DEF Starting
<1>14. TakingDown'  BY <1>3 DEF TakingDown
<1> QED  BY <1>6, <1>9, <1>10, <1>11, <1>12, <1>13, <1>14 DEF Others

(* A component whose init fails is lost.                                   *)
LEMMA InitFailsStep ==
    ASSUME Invariant, InitFails
    PROVE  Others'
<1> USE DEF Invariant, InitFails
<1>1. /\ section' = section /\ Registered \subseteq Components /\ Registered' = Registered
      /\ \A c : Desc(c)' = Desc(c) /\ Dependencies(c)' = Dependencies(c)
      /\ Valid /\ Valid'
  BY SectionFixed, DescType DEF TypeOK, Scope
<1>2. subject \in Registered /\ state[subject] = "initializing" /\ subject \notin Order
  BY DEF Scope, CallPCs, Building
<1>3. /\ pc' \in {"initialize_next", "stop_next"}
      /\ pc' = "initialize_next" => ~Desc(subject).required
      /\ initialized' = initialized /\ alive' = alive /\ active' = active
      /\ initialized_order' = initialized_order /\ started_order' = started_order
      /\ index' = index /\ phase' = phase
  BY DEF orders, world, AfterFailure
<1>4. Lists' /\ Order' = Order /\ Started' = Started  BY <1>1, <1>3, UntouchedOrders
<1>5. /\ state'[subject] = "failed"
      /\ \A c \in Components : c # subject => state'[c] = state[c]
  BY <1>1, <1>2 DEF TypeOK
<1>6. \A c \in Registered : Lost(c)' <=> Lost(c) \/ c = subject
  BY <1>1, <1>2, <1>5 DEF Lost
<1>7. \A c \in Components : state'[c] = "running" <=> state[c] = "running"
  BY <1>2, <1>5
<1>8. Scope'  BY <1>1, <1>3, <1>4 DEF Scope, CallPCs
<1>9. Flags'  BY <1>1, <1>3, <1>4, <1>6 DEF Flags, CurrentIn, Scope
<1>10. States'
  <2>1. ASSUME NEW c \in Registered, state'[c] = "skipped"
        PROVE  \E d \in Dependencies(c) : Lost(d)'
    <3>1. Dependencies(c) \subseteq Registered  BY <1>1, DependenciesRegistered DEF TypeOK
    <3> QED  BY <1>1, <1>5, <1>6, <2>1, <3>1 DEF States
  <2> QED  BY <1>1, <1>4, <1>7, <2>1 DEF States
<1>11. Building'  BY <1>1, <1>2, <1>3, <1>4, <1>5, <1>6 DEF Building
<1>12. Starting'  BY <1>3 DEF Starting
<1>13. TakingDown'  BY <1>3 DEF TakingDown
<1> QED  BY <1>4, <1>8, <1>9, <1>10, <1>11, <1>12, <1>13 DEF Others

(* The next component is started if what it depends on runs; else          *)
(* something it depends on is lost.                                        *)
LEMMA StartNextStep ==
    ASSUME Invariant, StartNext
    PROVE  Others'
<1> USE DEF Invariant, StartNext
<1>1. /\ section' = section /\ Registered \subseteq Components /\ Registered' = Registered
      /\ \A e : Desc(e)' = Desc(e) /\ Dependencies(e)' = Dependencies(e)
      /\ Valid /\ Valid'
  BY SectionFixed, DescType DEF TypeOK, Scope
<1>2. index \in DOMAIN initialized_order  BY DEF TypeOK
<1>0. PICK c \in Registered : c = initialized_order[index]
  BY <1>2 DEF Order, ToSet, Scope
<1>3. c \in Order /\ state[c] = "initialized"
  BY <1>0, <1>2 DEF Order, ToSet, Starting
<1>4. /\ pc' \in {"start", "discard", "stop_next"} /\ subject' = c
      /\ initialized' = initialized /\ alive' = alive /\ active' = active
      /\ initialized_order' = initialized_order /\ started_order' = started_order
      /\ index' = index
  BY <1>0 DEF orders, world, AfterFailure
<1>5. \/ /\ DependenciesReady(c, Running) /\ pc' = "start"
         /\ state' = [state EXCEPT ![c] = "starting"]
      \/ /\ ~DependenciesReady(c, Running) /\ pc' \in {"discard", "stop_next"}
         /\ pc' = "discard" => ~Desc(c).required
         /\ state' = [state EXCEPT ![c] = "skipped"]
  BY <1>0 DEF AfterFailure
<1>6. /\ \A e \in Components : e # c => state'[e] = state[e]
      /\ state'[c] = IF pc' = "start" THEN "starting" ELSE "skipped"
  BY <1>1, <1>3, <1>5 DEF TypeOK
<1>7. Lists' /\ Order' = Order /\ Started' = Started  BY <1>1, <1>4, UntouchedOrders
<1>8. /\ \A e \in Registered : Lost(e)' <=> Lost(e) \/ (e = c /\ pc' # "start")
      /\ ~Lost(c)
  BY <1>1, <1>3, <1>6 DEF Lost
<1>9. \A e \in Components : state'[e] = "running" <=> state[e] = "running"
  BY <1>3, <1>6
<1>10. /\ \A i \in DOMAIN initialized_order : i # index => initialized_order[i] # c
       /\ \A i \in DOMAIN initialized_order : initialized_order[i] \in Order
       /\ \A i \in DOMAIN initialized_order : initialized_order[i] \in Registered
  BY <1>0, <1>2 DEF Lists, Distinct, Order, ToSet, Scope
<1>11. \A d \in Dependencies(c) : d \in Running \/ Lost(d)
  <2>1. ASSUME NEW d \in Dependencies(c) PROVE d \in Running \/ Lost(d)
    <3>1. PICK j \in DOMAIN initialized_order : j < index /\ initialized_order[j] = d
      BY <1>0, <1>2, <2>1 DEF Lists, Sorted
    <3>2. d \in Registered  BY <1>10, <3>1
    <3> QED  BY <3>1, <3>2 DEF Starting, Running
  <2> QED  BY <2>1
<1>12. pc' = "start" => Dependencies(c) \subseteq Started
  <2>1. ASSUME pc' = "start" PROVE Dependencies(c) \subseteq Running
    BY <1>5, <2>1, ReadyMeans
  <2> QED  BY <1>1, <2>1 DEF Running, States
<1>13. pc' # "start" => \E d \in Dependencies(c) : Lost(d)
  <2>1. ASSUME pc' # "start" PROVE ~(Dependencies(c) \subseteq Running)
    BY <1>5, <2>1, ReadyMeans
  <2> QED  BY <1>11, <2>1
<1> HIDE DEF StartNext
<1>14. pc = "start_next" /\ index \in Nat  BY DEF StartNext, TypeOK
<1>15. Scope'  BY <1>1, <1>3, <1>4, <1>7 DEF Scope
<1>16. Flags'  BY <1>1, <1>4, <1>7, <1>8, <1>14 DEF Flags, CurrentIn, Scope
<1>17. States'
  <2>1. ASSUME NEW e \in Registered, state'[e] = "skipped"
        PROVE  \E d \in Dependencies(e) : Lost(d)'
    <3>1. Dependencies(e) \subseteq Registered  BY <1>1, DependenciesRegistered DEF TypeOK
    <3>2. CASE e = c  BY <1>6, <1>8, <1>13, <2>1, <3>1, <3>2
    <3>3. CASE e # c  BY <1>1, <1>6, <1>8, <2>1, <3>1, <3>3 DEF States
    <3> QED  BY <3>2, <3>3
  <2> QED  BY <1>1, <1>7, <1>9, <2>1 DEF States
<1>18. Building'  BY <1>4 DEF Building
<1>19. Starting'
  <2>1. ASSUME NEW i \in DOMAIN initialized_order
        PROVE  /\ i < index => \/ state'[initialized_order[i]] = "running"
                               \/ Lost(initialized_order[i])'
               /\ i > index => state'[initialized_order[i]] = "initialized"
    <3>1. i \in Nat /\ index \in Nat  BY <1>14
    <3> QED  BY <1>1, <1>4, <1>6, <1>8, <1>10, <1>14, <3>1 DEF Starting
  <2>2. pc' # "stop_next" => \A e \in Registered : Lost(e)' => ~Desc(e).required
    BY <1>5, <1>8, <1>14, <1>4 DEF Starting
  <2>3. \A e \in Registered : e \in Order \/ Lost(e)'
    BY <1>8, <1>14 DEF Starting
  <2>4. pc' # "stop_next" => \A e \in initialized : Lost(e)' => pc' = "discard" /\ e = c
    BY <1>4, <1>8, <1>14 DEF Starting, Flags, Scope, CurrentIn
  <2>5. c \in initialized  BY <1>3, <1>8 DEF Flags
  <2>6. pc' = "discard" => Lost(c)'  BY <1>3, <1>8
  <2> QED
    BY <1>1, <1>2, <1>4, <1>6, <1>7, <1>12, <2>1, <2>2, <2>3, <2>4, <2>5, <2>6, <1>0
    DEF Starting
<1>20. TakingDown'  BY <1>4 DEF TakingDown
<1> QED  BY <1>7, <1>15, <1>16, <1>17, <1>18, <1>19, <1>20 DEF Others

(* A component whose start succeeds is RUNNING and comes last in the       *)
(* started order.                                                          *)
LEMMA StartSucceedsStep ==
    ASSUME Invariant, StartSucceeds
    PROVE  Others'
<1> USE DEF Invariant, StartSucceeds
<1>1. /\ section' = section /\ Registered \subseteq Components /\ Registered' = Registered
      /\ \A e : Desc(e)' = Desc(e) /\ Dependencies(e)' = Dependencies(e)
      /\ Valid /\ Valid'
  BY SectionFixed, DescType DEF TypeOK, Scope
<1>2. PICK c \in Registered : c = subject  BY DEF Scope, CallPCs
<1>3. /\ state[c] = "starting" /\ c \notin Started /\ Dependencies(c) \subseteq Started
      /\ index \in DOMAIN initialized_order /\ index \in Nat
      /\ c = initialized_order[index] /\ c \in Order
  BY <1>1, <1>2 DEF Starting, States, TypeOK, Order, ToSet
<1>4. /\ pc' = "start_next" /\ index' = index + 1 /\ subject' = subject
      /\ initialized' = initialized /\ alive' = alive
      /\ active' = active \union {c} /\ initialized_order' = initialized_order
      /\ started_order' = Append(started_order, c)
  BY <1>2
<1>5. /\ \A e \in Components : e # c => state'[e] = state[e]
      /\ state'[c] = "running"
  BY <1>1, <1>2 DEF TypeOK
<1>6. /\ Order' = Order /\ Started' = Started \union {c}
      /\ Distinct(started_order') /\ Sorted(started_order')
  BY <1>1, <1>3, <1>4, AppendList DEF Order, Started, Lists, TypeOK
<1>7. Lists'
  <2>1. Distinct(initialized_order)' /\ Distinct(started_order)'
    BY <1>4, <1>6 DEF Lists, Distinct
  <2>2. Sorted(initialized_order)'  BY <1>1, <1>4 DEF Lists, Sorted
  <2>3. Sorted(started_order)'  BY <1>1, <1>6 DEF Sorted
  <2> QED  BY <2>1, <2>2, <2>3 DEF Lists
<1>8. \A e \in Registered : Lost(e)' <=> Lost(e)  BY <1>1, <1>3, <1>5 DEF Lost
<1>9. /\ \A i \in DOMAIN initialized_order : i # index => initialized_order[i] # c
      /\ \A i \in DOMAIN initialized_order : initialized_order[i] \in Registered
  BY <1>3 DEF Lists, Distinct, Order, ToSet, Scope
<1> HIDE DEF StartSucceeds
<1>10. pc = "start"  BY DEF StartSucceeds
<1>11. Scope'  BY <1>1, <1>4, <1>6 DEF Scope, CallPCs
<1>12. Flags'
  <2>1. c \in initialized  BY <1>3, <1>10 DEF Flags, Lost
  <2> QED  BY <1>1, <1>4, <1>6, <1>8, <1>10, <2>1 DEF Flags, CurrentIn, Scope
<1>13. States'
  <2>1. ASSUME NEW e \in Registered, state'[e] = "skipped"
        PROVE  \E d \in Dependencies(e) : Lost(d)'
    <3>1. Dependencies(e) \subseteq Registered  BY <1>1, DependenciesRegistered DEF TypeOK
    <3> QED  BY <1>1, <1>5, <1>8, <2>1, <3>1 DEF States
  <2>2. \A e \in Components : state'[e] = "running" <=> e \in Started \union {c}
    BY <1>5 DEF States
  <2> QED  BY <1>1, <1>6, <2>1, <2>2 DEF States
<1>14. Building'  BY <1>4 DEF Building
<1>15. Starting'
  <2>1. ASSUME NEW i \in DOMAIN initialized_order
        PROVE  /\ i < index + 1 => \/ state'[initialized_order[i]] = "running"
                                   \/ Lost(initialized_order[i])'
               /\ i > index => state'[initialized_order[i]] = "initialized"
    <3>1. i \in Nat  OBVIOUS
    <3>2. CASE i = index  BY <1>1, <1>3, <1>5, <3>2
    <3>3. CASE i < index
      <4>1. PICK e \in Registered : e = initialized_order[i]  BY <1>9
      <4>2. e # c /\ (state[e] = "running" \/ Lost(e))
        BY <1>3, <1>9, <1>10, <3>1, <3>3, <4>1 DEF Starting
      <4>3. state'[e] = "running" \/ Lost(e)'  BY <1>1, <1>5, <1>8, <4>2
      <4>4. initialized_order[i]' = e  BY <1>4, <4>1
      <4>5. ~(i > index)  BY <1>3, <3>1, <3>3
      <4>6. Lost(initialized_order[i])' <=> Lost(e)'  BY <4>4 DEF Lost
      <4> QED  BY <4>1, <4>3, <4>5, <4>6
    <3>4. CASE i > index
      <4>1. PICK e \in Registered : e = initialized_order[i]  BY <1>9
      <4>2. e # c /\ state[e] = "initialized"
        BY <1>3, <1>9, <1>10, <3>1, <3>4, <4>1 DEF Starting
      <4>3. ~(i < index + 1)  BY <1>3, <3>1, <3>4
      <4> QED  BY <1>1, <1>5, <4>1, <4>2, <4>3
    <3> QED  BY <1>3, <3>1, <3>2, <3>3, <3>4
  <2>2. /\ \A e \in Registered : Lost(e)' => ~Desc(e).required
        /\ \A e \in Registered : e \in Order \/ Lost(e)'
        /\ \A e \in initialized : ~Lost(e)'
    BY <1>8, <1>10 DEF Starting, Flags, Scope, CurrentIn
  <2>3. \A i \in DOMAIN initialized_order : i \in Nat  OBVIOUS
  <2>4. \A i \in DOMAIN initialized_order : i > index + 1 => i > index  BY <1>3, <2>3
  <2>5. index + 1 > index  BY <1>3
  <2> QED
    BY <1>1, <1>3, <1>4, <1>6, <2>1, <2>2, <2>4, <2>5 DEF Starting
<1>16. TakingDown'  BY <1>4 DEF TakingDown
<1> QED  BY <1>7, <1>11, <1>12, <1>13, <1>14, <1>15, <1>16 DEF Others

(* A component whose start fails is lost.                                  *)
LEMMA StartFailsStep ==
    ASSUME Invariant, StartFails
    PROVE  Others'
<1> USE DEF Invariant, StartFails
<1>1. /\ section' = section /\ Registered \subseteq Components /\ Registered' = Registered
      /\ \A e : Desc(e)' = Desc(e) /\ Dependencies(e)' = Dependencies(e)
      /\ Valid /\ Valid'
  BY SectionFixed, DescType DEF TypeOK, Scope
<1>2. PICK c \in Registered : c = subject  BY DEF Scope, CallPCs
<1>3. /\ state[c] = "starting" /\ c \notin Started
      /\ index \in DOMAIN initialized_order /\ index \in Nat
      /\ c = initialized_order[index] /\ c \in Order
  BY <1>1, <1>2 DEF Starting, States, TypeOK, Order, ToSet
<1>4. /\ pc' \in {"discard", "stop_next"} /\ index' = index /\ subject' = c
      /\ pc' = "discard" => ~Desc(c).required
      /\ initialized' = initialized /\ alive' = alive /\ active' = active
      /\ initialized_order' = initialized_order /\ started_order' = started_order
  BY <1>2 DEF orders, world, AfterFailure
<1>5. /\ \A e \in Components : e # c => state'[e] = state[e]
      /\ state'[c] = "failed"
  BY <1>1, <1>2 DEF TypeOK
<1>6. Lists' /\ Order' = Order /\ Started' = Started  BY <1>1, <1>4, UntouchedOrders
<1>7. \A e \in Registered : Lost(e)' <=> Lost(e) \/ e = c  BY <1>1, <1>3, <1>5 DEF Lost
<1>8. /\ \A i \in DOMAIN initialized_order : i # index => initialized_order[i] # c
      /\ \A i \in DOMAIN initialized_order : initialized_order[i] \in Registered
  BY <1>3 DEF Lists, Distinct, Order, ToSet, Scope
<1> HIDE DEF StartFails
<1>9. pc = "start"  BY DEF StartFails
<1>10. Scope'  BY <1>1, <1>4, <1>6 DEF Scope
<1>11. Flags'  BY <1>1, <1>4, <1>6, <1>7, <1>9 DEF Flags, CurrentIn, Scope
<1>12. States'
  <2>1. ASSUME NEW e \in Registered, state'[e] = "skipped"
        PROVE  \E d \in Dependencies(e) : Lost(d)'
    <3>1. Dependencies(e) \subseteq Registered  BY <1>1, DependenciesRegistered DEF TypeOK
    <3> QED  BY <1>1, <1>5, <1>7, <2>1, <3>1 DEF States
  <2>2. \A e \in Components : state'[e] = "running" <=> e \in Started
    BY <1>3, <1>5 DEF States
  <2> QED  BY <1>1, <1>6, <2>1, <2>2 DEF States
<1>13. Building'  BY <1>4 DEF Building
<1>14. Starting'
  <2>1. ASSUME NEW i \in DOMAIN initialized_order
        PROVE  /\ i < index => \/ state'[initialized_order[i]] = "running"
                               \/ Lost(initialized_order[i])'
               /\ i > index => state'[initialized_order[i]] = "initialized"
    <3>1. i \in Nat  OBVIOUS
    <3> QED  BY <1>1, <1>3, <1>4, <1>5, <1>7, <1>8, <1>9, <3>1 DEF Starting
  <2>2. /\ pc' = "discard" => \A e \in Registered : Lost(e)' => ~Desc(e).required
        /\ \A e \in Registered : e \in Order \/ Lost(e)'
        /\ \A e \in initialized : Lost(e)' => e = c
    BY <1>4, <1>7, <1>9 DEF Starting, Flags, Scope, CurrentIn
  <2>3. c \in initialized /\ Lost(c)'  BY <1>3, <1>7 DEF Flags, Lost
  <2> QED
    BY <1>1, <1>3, <1>4, <1>6, <2>1, <2>2, <2>3 DEF Starting
<1>15. TakingDown'  BY <1>4 DEF TakingDown
<1> QED  BY <1>6, <1>10, <1>11, <1>12, <1>13, <1>14, <1>15 DEF Others

(* An OPTIONAL component that is lost in the start loop has been           *)
(* deinitialized.                                                          *)
LEMMA DiscardReturnsStep ==
    ASSUME Invariant, DiscardReturns
    PROVE  Others'
<1> USE DEF Invariant, DiscardReturns
<1>1. /\ section' = section /\ Registered \subseteq Components /\ Registered' = Registered
      /\ \A e : Desc(e)' = Desc(e) /\ Dependencies(e)' = Dependencies(e)
      /\ Valid /\ Valid'
  BY SectionFixed, DescType DEF TypeOK, Scope
<1>2. PICK c \in Registered : c = subject  BY DEF Scope, CallPCs
<1>3. /\ Lost(c) /\ ~Desc(c).required /\ c \in initialized
      /\ index \in DOMAIN initialized_order /\ index \in Nat
      /\ c = initialized_order[index]
  BY <1>2 DEF Starting, TypeOK
<1>4. c \notin Started  BY <1>1, <1>3 DEF States, Lost
<1>5. /\ pc' = "start_next" /\ index' = index + 1 /\ state' = state
      /\ initialized' = initialized \ {c} /\ alive' = alive \ {c} /\ active' = active
      /\ initialized_order' = initialized_order /\ started_order' = started_order
  BY <1>2
<1>6. Lists' /\ Order' = Order /\ Started' = Started  BY <1>1, <1>5, UntouchedOrders
<1>7. \A e : Lost(e)' <=> Lost(e)  BY <1>5 DEF Lost
<1> HIDE DEF DiscardReturns
<1>8. pc = "discard"  BY DEF DiscardReturns
<1>9. Scope'  BY <1>1, <1>5, <1>6 DEF Scope, CallPCs
<1>10. Flags'  BY <1>1, <1>3, <1>4, <1>5, <1>6, <1>7, <1>8 DEF Flags, CurrentIn
<1>11. States'  BY <1>1, <1>5, <1>6, UntouchedStates
<1>12. Building'  BY <1>5 DEF Building
<1>13. Starting'
  <2>1. ASSUME NEW i \in DOMAIN initialized_order
        PROVE  /\ i < index + 1 => \/ state[initialized_order[i]] = "running"
                                   \/ Lost(initialized_order[i])
               /\ i > index => state[initialized_order[i]] = "initialized"
    <3>1. i \in Nat  OBVIOUS
    <3>2. CASE i = index  BY <1>3, <3>2
    <3>3. CASE i # index  BY <1>3, <1>8, <3>1, <3>3 DEF Starting
    <3> QED  BY <3>2, <3>3
  <2>2. /\ \A e \in Registered : Lost(e) => ~Desc(e).required
        /\ \A e \in Registered : e \in Order \/ Lost(e)
        /\ \A e \in initialized \ {c} : ~Lost(e)
    BY <1>2, <1>8 DEF Starting
  <2>3. \A i \in DOMAIN initialized_order : i \in Nat  OBVIOUS
  <2>4. \A i \in DOMAIN initialized_order : i > index + 1 => i > index  BY <1>3, <2>3
  <2>5. index + 1 > index  BY <1>3
  <2> QED
    BY <1>1, <1>3, <1>5, <1>6, <1>7, <2>1, <2>2, <2>4, <2>5 DEF Starting
<1>14. TakingDown'  BY <1>5 DEF TakingDown
<1> QED  BY <1>6, <1>9, <1>10, <1>11, <1>12, <1>13, <1>14 DEF Others

(* Steps that only move the thread. *)
LEMMA MoveSteps ==
    ASSUME Invariant, StartDone \/ StopAll \/ StopDone \/ DeinitDone \/ UNCHANGED vars
    PROVE  Others'
<1> USE DEF Invariant
<1>1. /\ section' = section /\ state' = state
      /\ initialized' = initialized /\ alive' = alive /\ active' = active
      /\ initialized_order' = initialized_order /\ started_order' = started_order
      /\ index' = index /\ phase' = phase /\ subject' = subject
  BY DEF StartDone, StopAll, StopDone, DeinitDone, vars, orders, world
<1>2. /\ Registered' = Registered /\ (Valid' <=> Valid)
      /\ \A e : Desc(e)' = Desc(e) /\ Dependencies(e)' = Dependencies(e)
      /\ \A e : Lost(e)' <=> Lost(e)
  BY <1>1, SectionFixed DEF Lost
<1>3. Lists' /\ Order' = Order /\ Started' = Started  BY <1>1, UntouchedOrders
<1>4. States'  BY <1>1, <1>3, UntouchedStates
<1>5. \/ pc' = pc
      \/ pc = "start_next" /\ pc' = "up" /\ index > Len(initialized_order)
      \/ pc = "up" /\ pc' = "stop_next"
      \/ pc = "stop_next" /\ pc' = "deinit_next" /\ started_order = <<>>
      \/ pc = "deinit_next" /\ pc' = "down" /\ initialized_order = <<>>
  BY DEF StartDone, StopAll, StopDone, DeinitDone, vars
<1>6. Scope'  BY <1>1, <1>2, <1>3, <1>5 DEF Scope, CallPCs
<1>7. Flags'  BY <1>1, <1>2, <1>3, <1>5 DEF Flags, CurrentIn
<1>8. Building'  BY <1>1, <1>2, <1>3, <1>5 DEF Building
<1>9. Starting'  BY <1>1, <1>2, <1>3, <1>5 DEF Starting
<1>10. TakingDown'  BY <1>1, <1>2, <1>3, <1>5 DEF TakingDown
<1> QED  BY <1>3, <1>4, <1>6, <1>7, <1>8, <1>9, <1>10 DEF Others

(* The last component of the started order is stopped; what it depends on  *)
(* still runs.                                                             *)
LEMMA StopNextStep ==
    ASSUME Invariant, StopNext
    PROVE  Others'
<1> USE DEF Invariant, StopNext
<1>1. /\ section' = section /\ Registered \subseteq Components /\ Registered' = Registered
      /\ \A e : Desc(e)' = Desc(e) /\ Dependencies(e)' = Dependencies(e)
      /\ Valid /\ Valid'
  BY SectionFixed, DescType DEF TypeOK, Scope
<1>2. /\ Distinct(Front(started_order)) /\ Sorted(Front(started_order))
      /\ Last(started_order) \in Started
      /\ ToSet(Front(started_order)) = Started \ {Last(started_order)}
      /\ Dependencies(Last(started_order)) \subseteq ToSet(Front(started_order))
  BY FrontList DEF Lists, TypeOK, Started
<1>3. Started \subseteq Registered
  BY <1>1 DEF Flags, Scope, CurrentIn
<1>4. PICK c \in Registered : c = Last(started_order)  BY <1>2, <1>3
<1>5. /\ pc' = "stop" /\ subject' = c
      /\ initialized' = initialized /\ alive' = alive /\ active' = active
      /\ initialized_order' = initialized_order /\ started_order' = Front(started_order)
  BY <1>4 DEF NextToStop, world
<1>6. /\ state[c] = "running" /\ state'[c] = "stopping"
      /\ \A e \in Components : e # c => state'[e] = state[e]
  BY <1>1, <1>2, <1>4 DEF TypeOK, States, NextToStop
<1>7. /\ Order' = Order /\ Started' = Started \ {c}
      /\ Dependencies(c) \subseteq Started' /\ c \in Started
  BY <1>2, <1>4, <1>5 DEF Order, Started
<1>8. Lists'
  <2>1. Distinct(initialized_order)' /\ Distinct(started_order)'
    BY <1>2, <1>5 DEF Lists, Distinct
  <2>2. Sorted(initialized_order)'  BY <1>1, <1>5 DEF Lists, Sorted
  <2>3. Sorted(started_order)'  BY <1>1, <1>2, <1>5 DEF Sorted
  <2> QED  BY <2>1, <2>2, <2>3 DEF Lists
<1>9. \A e \in Registered : Lost(e)' <=> Lost(e)  BY <1>1, <1>6 DEF Lost
<1> HIDE DEF StopNext
<1>10. pc = "stop_next"  BY DEF StopNext
<1>11. Scope'  BY <1>1, <1>5, <1>7 DEF Scope
<1>12. Flags'  BY <1>1, <1>5, <1>7, <1>9, <1>10 DEF Flags, CurrentIn, Scope
<1>13. States'
  <2>1. ASSUME NEW e \in Registered, state'[e] = "skipped"
        PROVE  \E d \in Dependencies(e) : Lost(d)'
    <3>1. Dependencies(e) \subseteq Registered  BY <1>1, DependenciesRegistered DEF TypeOK
    <3> QED  BY <1>1, <1>6, <1>9, <2>1, <3>1 DEF States
  <2>2. \A e \in Components : state'[e] = "running" <=> e \in Started \ {c}
    BY <1>6 DEF States
  <2> QED  BY <1>1, <1>7, <2>1, <2>2 DEF States
<1>14. Building' /\ Starting'  BY <1>5 DEF Building, Starting
<1>15. TakingDown'  BY <1>1, <1>5, <1>6, <1>7 DEF TakingDown
<1> QED  BY <1>8, <1>11, <1>12, <1>13, <1>14, <1>15 DEF Others

(* A component has stopped, with or without an error.                      *)
LEMMA StopReturnsStep ==
    ASSUME Invariant, StopReturns
    PROVE  Others'
<1> USE DEF Invariant, StopReturns
<1>1. /\ section' = section /\ Registered \subseteq Components /\ Registered' = Registered
      /\ \A e : Desc(e)' = Desc(e) /\ Dependencies(e)' = Dependencies(e)
      /\ Valid /\ Valid'
  BY SectionFixed, DescType DEF TypeOK, Scope
<1>2. PICK c \in Registered : c = subject  BY DEF Scope, CallPCs
<1>3. /\ pc' = "stop_next"
      /\ initialized' = initialized /\ alive' = alive /\ active' = active \ {c}
      /\ initialized_order' = initialized_order /\ started_order' = started_order
  BY <1>2 DEF orders
<1>4. /\ state[c] = "stopping" /\ state'[c] \in {"stopped", "failed"} /\ c \notin Started
      /\ \A e \in Components : e # c => state'[e] = state[e]
  BY <1>1, <1>2 DEF TypeOK, TakingDown
<1>5. Lists' /\ Order' = Order /\ Started' = Started  BY <1>1, <1>3, UntouchedOrders
<1>6. \A e \in Registered : Lost(e) => Lost(e)'  BY <1>1, <1>4 DEF Lost
<1> HIDE DEF StopReturns
<1>7. pc = "stop" /\ subject = c  BY <1>2 DEF StopReturns
<1>8. Scope'  BY <1>1, <1>3, <1>5 DEF Scope, CallPCs
<1>9. Flags'  BY <1>1, <1>3, <1>4, <1>5, <1>6, <1>7 DEF Flags, CurrentIn, Scope
<1>10. States'
  <2>1. ASSUME NEW e \in Registered, state'[e] = "skipped"
        PROVE  \E d \in Dependencies(e) : Lost(d)'
    <3>1. Dependencies(e) \subseteq Registered  BY <1>1, DependenciesRegistered DEF TypeOK
    <3> QED  BY <1>1, <1>4, <1>6, <2>1, <3>1 DEF States
  <2>2. \A e \in Components : state'[e] = "running" <=> e \in Started
    BY <1>4 DEF States
  <2> QED  BY <1>1, <1>5, <2>1, <2>2 DEF States
<1>11. Building' /\ Starting' /\ TakingDown'  BY <1>3 DEF Building, Starting, TakingDown
<1> QED  BY <1>5, <1>8, <1>9, <1>10, <1>11 DEF Others

(* The last component of the initialized order is deinitialized if it is   *)
(* initialized.                                                            *)
LEMMA DeinitNextStep ==
    ASSUME Invariant, DeinitNext
    PROVE  Others'
<1> USE DEF Invariant, DeinitNext
<1>1. /\ section' = section /\ Registered \subseteq Components /\ Registered' = Registered
      /\ \A e : Desc(e)' = Desc(e) /\ Dependencies(e)' = Dependencies(e)
      /\ Valid /\ Valid'
  BY SectionFixed, DescType DEF TypeOK, Scope
<1>2. /\ Distinct(Front(initialized_order)) /\ Sorted(Front(initialized_order))
      /\ Last(initialized_order) \in Order
      /\ ToSet(Front(initialized_order)) = Order \ {Last(initialized_order)}
      /\ Dependencies(Last(initialized_order)) \subseteq ToSet(Front(initialized_order))
  BY FrontList DEF Lists, TypeOK, Order
<1>3. PICK c \in Registered : c = Last(initialized_order)  BY <1>2 DEF Scope
<1>4. /\ subject' = c /\ state' = state
      /\ pc' = "deinit" \/ (pc' = "deinit_next" /\ c \notin initialized)
      /\ pc' = "deinit" => c \in initialized
      /\ initialized' = initialized /\ alive' = alive /\ active' = active
      /\ initialized_order' = Front(initialized_order) /\ started_order' = started_order
  BY <1>3 DEF MustDeinit, world
<1>5. /\ Order' = Order \ {c} /\ Started' = Started
      /\ Dependencies(c) \subseteq Order' /\ c \in Order
  BY <1>2, <1>3, <1>4 DEF Order, Started
<1>6. Lists'
  <2>1. Distinct(initialized_order)' /\ Distinct(started_order)'
    BY <1>2, <1>4 DEF Lists, Distinct
  <2>2. Sorted(initialized_order)'  BY <1>1, <1>2, <1>4 DEF Sorted
  <2>3. Sorted(started_order)'  BY <1>1, <1>4 DEF Lists, Sorted
  <2> QED  BY <2>1, <2>2, <2>3 DEF Lists
<1>7. \A e : Lost(e)' <=> Lost(e)  BY <1>4 DEF Lost
<1> HIDE DEF DeinitNext
<1>8. pc = "deinit_next"  BY DEF DeinitNext
<1>9. Scope'  BY <1>1, <1>4, <1>5 DEF Scope
<1>10. Flags'  BY <1>1, <1>4, <1>5, <1>7, <1>8 DEF Flags, CurrentIn
<1>11. States'  BY <1>1, <1>4, <1>5, UntouchedStates
<1>12. Building' /\ Starting'  BY <1>4 DEF Building, Starting
<1>13. TakingDown'  BY <1>1, <1>4, <1>5, <1>8 DEF TakingDown
<1> QED  BY <1>6, <1>9, <1>10, <1>11, <1>12, <1>13 DEF Others

(* A component has been deinitialized.                                     *)
LEMMA DeinitReturnsStep ==
    ASSUME Invariant, DeinitReturns
    PROVE  Others'
<1> USE DEF Invariant, DeinitReturns
<1>1. /\ section' = section /\ Registered \subseteq Components /\ Registered' = Registered
      /\ \A e : Desc(e)' = Desc(e) /\ Dependencies(e)' = Dependencies(e)
      /\ Valid /\ Valid'
  BY SectionFixed, DescType DEF TypeOK, Scope
<1>2. PICK c \in Registered : c = subject  BY DEF Scope, CallPCs
<1>3. /\ pc' = "deinit_next" /\ started_order = <<>> /\ c \notin Order
      /\ initialized' = initialized \ {c} /\ alive' = alive \ {c} /\ active' = active
      /\ initialized_order' = initialized_order /\ started_order' = started_order
  BY <1>2 DEF TakingDown
<1>4. /\ state'[c] = IF Lost(c) THEN state[c] ELSE "stopped"
      /\ \A e \in Components : e # c => state'[e] = state[e]
  BY <1>1, <1>2 DEF TypeOK, FinalState
<1>5. Lists' /\ Order' = Order /\ Started' = Started  BY <1>1, <1>3, UntouchedOrders
<1>6. Started = {}  BY <1>3 DEF Started, ToSet
<1>7. \A e \in Registered : Lost(e)' <=> Lost(e)  BY <1>1, <1>4 DEF Lost
<1>8. \A e \in Components : state'[e] # "running"
  BY <1>1, <1>4, <1>6 DEF States
<1> HIDE DEF DeinitReturns
<1>9. pc = "deinit" /\ subject = c  BY <1>2 DEF DeinitReturns
<1>10. Scope'  BY <1>1, <1>3, <1>5 DEF Scope, CallPCs
<1>11. Flags'  BY <1>1, <1>3, <1>5, <1>6, <1>7, <1>9 DEF Flags, CurrentIn, Scope
<1>12. States'
  <2>1. ASSUME NEW e \in Registered, state'[e] = "skipped"
        PROVE  \E d \in Dependencies(e) : Lost(d)'
    <3>1. Dependencies(e) \subseteq Registered  BY <1>1, DependenciesRegistered DEF TypeOK
    <3>2. state[e] = "skipped"  BY <1>1, <1>4, <2>1
    <3> QED  BY <1>1, <1>7, <3>1, <3>2 DEF States
  <2> QED  BY <1>1, <1>5, <1>6, <1>8, <2>1 DEF States
<1>13. Building' /\ Starting' /\ TakingDown'
  BY <1>3 DEF Building, Starting, TakingDown
<1> QED  BY <1>5, <1>10, <1>11, <1>12, <1>13 DEF Others

-----------------------------------------------------------------------------
(* The invariant holds in every state of every behaviour. *)
THEOREM InvariantHolds == Spec => []Invariant
<1>1. Init => Invariant
  <2> SUFFICES ASSUME Init PROVE Invariant  OBVIOUS
  <2> USE DEF Init
  <2>1. TypeOK  BY DEF TypeOK, Phases
  <2>2. Registered \subseteq Components  BY <2>1, DescType DEF TypeOK
  <2>3. Order = {} /\ Started = {}  BY DEF Order, Started, ToSet
  <2>4. Scope  BY <2>3 DEF Scope, CallPCs
  <2>5. Lists  BY DEF Lists, Distinct, Sorted
  <2>6. Flags  BY <2>3 DEF Flags, CurrentIn
  <2>7. States  BY <2>2, <2>3 DEF States
  <2>8. Building /\ Starting /\ TakingDown  BY DEF Building, Starting, TakingDown
  <2> QED  BY <2>1, <2>4, <2>5, <2>6, <2>7, <2>8 DEF Invariant
<1>2. Invariant /\ [Next]_vars => Invariant'
  <2> SUFFICES ASSUME Invariant, [Next]_vars PROVE Invariant'  OBVIOUS
  <2>1. TypeOK'  BY TypeStep
  <2>2. Others'
    BY StartAllStep, PhaseDoneStep, InitializeCandidateStep, InitializeNoneStep,
       InitSucceedsStep, InitFailsStep, StartNextStep, StartSucceedsStep, StartFailsStep,
       DiscardReturnsStep, MoveSteps, StopNextStep, StopReturnsStep, DeinitNextStep,
       DeinitReturnsStep
    DEF Next, Lifecycle
  <2> QED  BY <2>1, <2>2 DEF Invariant, Others
<1> QED  BY <1>1, <1>2, PTL DEF Spec

(* The variables have their types, for every link section. *)
THEOREM TypeCorrect == Spec => []TypeOK
<1>1. Invariant => TypeOK  BY DEF Invariant
<1> QED  BY <1>1, InvariantHolds, PTL

(* What a component depends on is RUNNING from before its start until      *)
(* after its stop, in every order of failures and in a rollback            *)
(* (start_component, stop_started_components).                             *)
THEOREM DependenciesAreRunning == Spec => []DependenciesRunning
<1>1. Invariant => DependenciesRunning
  <2> SUFFICES ASSUME Invariant,
                      NEW c \in active \union (IF pc = "start" THEN {subject} ELSE {}),
                      NEW d \in Dependencies(c)
               PROVE  state[d] = "running" /\ d \in active
    BY DEF DependenciesRunning
  <2> USE DEF Invariant
  <2>1. Started \subseteq active /\ active \subseteq Started \union CurrentIn("stop")
    BY DEF Flags
  <2>2. d \in Started
    <3>1. CASE c \in Started
      <4>1. PICK i \in DOMAIN started_order : started_order[i] = c
        BY <3>1 DEF Started, ToSet
      <4>2. PICK j \in DOMAIN started_order : started_order[j] = d
        BY <4>1 DEF Lists, Sorted
      <4> QED  BY <4>2 DEF Started, ToSet
    <3>2. CASE pc = "stop" /\ c = subject  BY <3>2 DEF TakingDown
    <3>3. CASE pc = "start" /\ c = subject  BY <3>3 DEF Starting
    <3> QED  BY <2>1, <3>1, <3>2, <3>3 DEF CurrentIn
  <2>3. d \in Components  BY <2>1, <2>2 DEF TypeOK
  <2> QED  BY <2>1, <2>2, <2>3 DEF States
<1> QED  BY <1>1, InvariantHolds, PTL

(* What a component depends on is alive from before its init until after   *)
(* its deinit, or is an OPTIONAL component that has failed                 *)
(* (initialize_phase, deinitialize_components).                            *)
THEOREM DependenciesAreAlive == Spec => []RequiredDependenciesAlive
<1>1. Invariant => RequiredDependenciesAlive
  <2> SUFFICES ASSUME Invariant, NEW c \in Built, NEW d \in Dependencies(c)
               PROVE  d \in alive \/ (~Desc(d).required /\ Lost(d) /\ d \in Order)
    BY DEF RequiredDependenciesAlive, Order
  <2> USE DEF Invariant
  <2>1. CASE pc = "init" /\ c = subject  BY <2>1 DEF Building, Flags
  <2>2. CASE c \in alive
    <3>1. d \in Order
      <4>1. CASE pc = "deinit" /\ c = subject  BY <4>1 DEF TakingDown
      <4>2. CASE c \in Order
        <5>1. PICK i \in DOMAIN initialized_order : initialized_order[i] = c
          BY <4>2 DEF Order, ToSet
        <5>2. PICK j \in DOMAIN initialized_order : initialized_order[j] = d
          BY <5>1 DEF Lists, Sorted
        <5> QED  BY <5>2 DEF Order, ToSet
      <4> QED  BY <2>2, <4>1, <4>2 DEF Flags, CurrentIn
    <3> QED  BY <3>1 DEF Flags
  <2> QED  BY <2>1, <2>2 DEF Built
<1> QED  BY <1>1, InvariantHolds, PTL

(* stop and deinit are called once, for what start and init have built,    *)
(* and when the lifecycle is down nothing is left, whatever has failed     *)
(* (rollback_components).                                                  *)
THEOREM TakenDownExactlyOnce == Spec => []TakenDownOnce
<1>1. Invariant => TakenDownOnce
  <2> SUFFICES ASSUME Invariant PROVE TakenDownOnce  OBVIOUS
  <2> USE DEF Invariant
  <2>1. pc = "deinit" => subject \in alive \ active
    BY DEF TakingDown, Flags, CurrentIn, Started, ToSet
  <2>2. pc = "discard" => subject \in alive \ active
    <3> SUFFICES ASSUME pc = "discard" PROVE subject \in alive \ active  OBVIOUS
    <3>1. Lost(subject) /\ subject \in initialized  BY DEF Starting
    <3>2. subject \notin Started  BY <3>1 DEF States, Lost, TypeOK
    <3> QED  BY <3>1, <3>2 DEF Flags, CurrentIn
  <2>3. pc = "stop" => subject \in active  BY DEF Flags, CurrentIn
  <2>4. pc = "down" => alive = {} /\ active = {}
    BY DEF TakingDown, Flags, CurrentIn, Order, Started, ToSet
  <2> QED  BY <2>1, <2>2, <2>3, <2>4 DEF TakenDownOnce
<1> QED  BY <1>1, InvariantHolds, PTL

(* When start_all returns SYS_OK, every REQUIRED component runs, and every *)
(* other one runs or has failed, or was skipped for one that is lost, and  *)
(* has left nothing behind.                                                *)
THEOREM StartIsComplete == Spec => []UpIsComplete
<1>1. Invariant => UpIsComplete
  <2> SUFFICES ASSUME Invariant, pc = "up" PROVE UpIsComplete  BY DEF UpIsComplete
  <2> USE DEF Invariant
  <2>1. Registered \subseteq Components  BY DescType DEF TypeOK
  <2>2. ASSUME NEW c \in Registered PROVE c \in Running \/ Lost(c)
    <3>1. CASE c \in Order
      <4>1. PICK i \in DOMAIN initialized_order : initialized_order[i] = c
        BY <3>1 DEF Order, ToSet
      <4>2. i < index  BY <4>1 DEF Starting, TypeOK
      <4> QED  BY <4>1, <4>2 DEF Starting, Running
    <3>2. CASE c \notin Order  BY <3>2 DEF Starting
    <3> QED  BY <3>1, <3>2
  <2>3. \A c \in Registered : Desc(c).required => c \in Running  BY <2>2 DEF Starting
  <2>4. \A c \in Registered : state[c] = "skipped" => \E d \in Dependencies(c) : Lost(d)
    BY DEF States
  <2>5. initialized \subseteq Registered /\ \A c \in initialized : ~Lost(c)
    BY DEF Flags, Scope, Starting, CurrentIn
  <2>6. Running = Started
    BY <2>1, <2>5 DEF Running, States, Flags
  <2>7. alive = Running /\ active = Running
    BY <2>2, <2>5, <2>6 DEF Flags, CurrentIn
  <2> QED  BY <2>2, <2>3, <2>4, <2>7 DEF UpIsComplete
<1> QED  BY <1>1, InvariantHolds, PTL

(* A FAILED or SKIPPED component stays so until the next start_all.        *)
THEOREM FailuresAreKept == Spec => FailuresKept
<1> DEFINE Kept == \A c \in Components : Lost(c) => state'[c] = state[c] \/ pc = "down"
<1>1. Invariant /\ [Next]_vars => Kept
  <2> SUFFICES ASSUME Invariant, [Next]_vars, NEW c \in Components, Lost(c), pc # "down"
               PROVE  state'[c] = state[c]
    OBVIOUS
  <2> USE DEF Invariant
  <2>1. CASE StartAll  BY <2>1 DEF StartAll
  <2>2. CASE PhaseDone \/ DiscardReturns \/ DeinitNext  BY <2>2 DEF PhaseDone, DiscardReturns, DeinitNext
  <2>3. CASE InitializeCandidate
    <3>1. Skipped \subseteq Pending
      BY <2>3, SkippedAreLost DEF InitializeCandidate, Scope, TypeOK
    <3>2. Candidate \in Pending
      BY <2>3, CandidateIsReady DEF InitializeCandidate, Ready, TypeOK
    <3>3. c \notin Pending  BY DEF Pending, Lost
    <3> QED  BY <2>3, <3>1, <3>2, <3>3 DEF InitializeCandidate, Skipping
  <2>4. CASE InitializeNone
    <3>1. Skipped \subseteq Pending
      BY <2>4, SkippedAreLost DEF InitializeNone, Scope, TypeOK
    <3>2. c \notin Pending  BY DEF Pending, Lost
    <3> QED  BY <2>4, <3>1, <3>2 DEF InitializeNone, Skipping
  <2>5. CASE InitSucceeds \/ InitFails
    <3>1. c # subject  BY <2>5 DEF InitSucceeds, InitFails, Building, Lost
    <3> QED  BY <2>5, <3>1 DEF InitSucceeds, InitFails, TypeOK
  <2>6. CASE StartNext
    <3>1. index \in DOMAIN initialized_order  BY <2>6 DEF StartNext, TypeOK
    <3>2. c # initialized_order[index]  BY <2>6, <3>1 DEF StartNext, Starting, Lost
    <3> QED  BY <2>6, <3>2 DEF StartNext, TypeOK
  <2>7. CASE StartSucceeds \/ StartFails
    <3>1. c # subject  BY <2>7 DEF StartSucceeds, StartFails, Starting, Lost
    <3> QED  BY <2>7, <3>1 DEF StartSucceeds, StartFails, TypeOK
  <2>8. CASE StopNext
    <3>1. Last(started_order) \in Started /\ Last(started_order) \in Components
      BY <2>8, FrontList DEF StopNext, Lists, Started, TypeOK
    <3>2. c # Last(started_order)  BY <3>1 DEF States, Lost
    <3> QED  BY <2>8, <3>2 DEF StopNext, NextToStop, TypeOK
  <2>9. CASE StopReturns
    <3>1. c # subject  BY <2>9 DEF StopReturns, TakingDown, Lost
    <3> QED  BY <2>9, <3>1 DEF StopReturns, TypeOK
  <2>10. CASE DeinitReturns  BY <2>10 DEF DeinitReturns, FinalState, TypeOK
  <2>11. CASE StartDone \/ StopAll \/ StopDone \/ DeinitDone \/ UNCHANGED vars
    BY <2>11 DEF StartDone, StopAll, StopDone, DeinitDone, vars
  <2> QED
    BY <2>1, <2>2, <2>3, <2>4, <2>5, <2>6, <2>7, <2>8, <2>9, <2>10, <2>11
    DEF Next, Lifecycle
<1>2. Invariant /\ [Next]_vars => [Kept]_vars  BY <1>1
<1> HIDE DEF Kept
<1>3. Spec => [][Kept]_vars  BY <1>2, InvariantHolds, PTL DEF Spec
<1> QED  BY <1>3 DEF Kept, FailuresKept
=============================================================================
