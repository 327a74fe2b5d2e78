-------------------------- MODULE ModuleConfigProofs --------------------------
(***************************************************************************)
(* Proofs about ModuleConfig, for any modules and any manifests: that the  *)
(* searches of menuconfig.py and of CMake accept the graphs without        *)
(* circles and unknown names, what the passes of normalize_dependencies    *)
(* leave, and that a .config which the tool has written builds.            *)
(*                                                                         *)
(* The searches and the passes are recursive functions.  That such a       *)
(* function exists is shown by one that satisfies its equation; what it    *)
(* computes, by the least counterexample.                                  *)
(***************************************************************************)
EXTENDS ModuleConfig, FiniteSetTheorems, WellFoundedInduction, TLAPS

USE ConfigAssumption

(* A set of modules in which every dependency is met.                      *)
Closed(depends, F) == \A c \in F : ToSet(depends[c]) \subseteq F

(* The greatest such set among the modules of E.                           *)
Greatest(depends, E) == UNION {F \in SUBSET E : Closed(depends, F)}

(* What one look at module c leaves on, and the function that Pass folds   *)
(* it with, over the modules at the indices s.                             *)
Looked(depends, c, on) == IF ToSet(depends[c]) \subseteq on THEN on ELSE on \ {c}
Looks(depends, E, indices, g) ==
    g = [s \in SUBSET indices |->
            IF s = {} THEN E ELSE Looked(depends, Order[Max(s)], g[s \ {Max(s)}])]
Repeats(depends, g) ==
    g = [on \in SUBSET Modules |->
            IF Pass(depends, on) = on THEN on ELSE g[Pass(depends, on)]]

-----------------------------------------------------------------------------
(* A non-empty set of numbers has a least one, ...                         *)
LEMMA LeastNumber ==
    ASSUME NEW S \in SUBSET Nat, S # {}
    PROVE  \E n \in S : \A m \in S : n <= m
<1>1. PICK n \in S : \A m \in S : ~(<<m, n>> \in OpToRel(<, Nat))
  BY WFMin, NatLessThanWellFounded
<1>2. ASSUME NEW m \in S PROVE n <= m
  <2>1. ~(m < n)
    BY <1>1 DEF OpToRel
  <2> QED  BY <2>1
<1> QED  BY <1>2

(* ... and if it is bounded, a greatest one.                               *)
LEMMA GreatestIndex ==
    ASSUME NEW k \in Nat, NEW s \in SUBSET (1..k), s # {}
    PROVE  Max(s) \in s /\ \A j \in s : j <= Max(s)
<1>1. k \in {m \in Nat : \A j \in s : j <= m}
  OBVIOUS
<1>2. PICK n \in {m \in Nat : \A j \in s : j <= m} : \A m \in {m \in Nat : \A j \in s : j <= m} : n <= m
  BY <1>1, LeastNumber
<1>3. n \in s
  <2>1. SUFFICES ASSUME n \notin s PROVE FALSE
    OBVIOUS
  <2>2. n # 0
    <3>1. PICK j \in s : TRUE
      OBVIOUS
    <3>2. j \in 1..k /\ j <= n
      BY <1>2
    <3> QED  BY <3>2
  <2>3. n - 1 \in {m \in Nat : \A j \in s : j <= m}
    BY <1>2, <2>1, <2>2
  <2> QED  BY <1>2, <2>3
<1>4. \E x \in s : \A y \in s : x >= y
  BY <1>2, <1>3
<1> QED  BY <1>4 DEF Max

(* The indices of the modules.                                             *)
LEMMA Indices ==
    /\ Len(Order) \in Nat /\ DOMAIN Order = 1..Len(Order)
    /\ \A c \in Modules : \E i \in DOMAIN Order : Order[i] = c
    /\ \A i \in DOMAIN Order : Order[i] \in Modules
    /\ IsFiniteSet(Modules)
<1>1. Len(Order) \in Nat /\ DOMAIN Order = 1..Len(Order)
  OBVIOUS
<1>2. \A c : c \in Modules <=> \E i \in DOMAIN Order : Order[i] = c
  BY DEF Modules, ToSet
<1>3. IsFiniteSet(Modules)
  <2>1. Order \in Surjection(1..Len(Order), Modules)
    BY <1>1, <1>2 DEF Surjection
  <2> QED  BY <1>1, <2>1, FS_Interval, FS_Surjection
<1> QED  BY <1>1, <1>2, <1>3

-----------------------------------------------------------------------------
(* The fold of a pass is a function: from the one for k - 1 indices, the   *)
(* one for k.                                                              *)
LEMMA LooksExist ==
    ASSUME NEW depends, NEW E, NEW k \in Nat
    PROVE  \E g : Looks(depends, E, 1..k, g)
<1> DEFINE Bad == {n \in Nat : ~\E g : Looks(depends, E, 1..n, g)}
<1>1. SUFFICES ASSUME Bad # {} PROVE FALSE
  OBVIOUS
<1>2. PICK n \in Bad : \A m \in Bad : n <= m
  BY <1>1, LeastNumber
<1>3. CASE n = 0
  <2> DEFINE h == [s \in {{}} |-> E]
  <2>1. 1..n = {} /\ SUBSET (1..n) = {{}}
    BY <1>3
  <2>2. Looks(depends, E, 1..n, h)
    BY <2>1, Zenon DEF Looks
  <2> QED  BY <1>2, <2>2
<1>4. CASE n # 0
  <2>1. n - 1 \in Nat /\ n - 1 \notin Bad
    BY <1>2, <1>4
  <2>2. PICK g : Looks(depends, E, 1..(n - 1), g)
    BY <2>1
  <2> DEFINE h == [s \in SUBSET (1..n) |->
                       IF n \in s THEN Looked(depends, Order[n], g[s \ {n}]) ELSE g[s]]
  <2>3. ASSUME NEW s \in SUBSET (1..n)
        PROVE  h[s] = IF s = {} THEN E ELSE Looked(depends, Order[Max(s)], h[s \ {Max(s)}])
    <3>1. CASE n \in s
      <4>1. Max(s) = n
        <5>1. n \in Nat /\ Max(s) \in s /\ n <= Max(s)
          BY <1>2, <3>1, GreatestIndex
        <5>2. Max(s) \in 1..n
          BY <5>1
        <5> QED  BY <5>1, <5>2
      <4>2. s \ {n} \in SUBSET (1..n) /\ n \notin s \ {n} /\ s # {}
        BY <3>1
      <4>3. h[s \ {n}] = g[s \ {n}]
        BY <4>2
      <4> QED  BY <3>1, <4>1, <4>2, <4>3
    <3>2. CASE n \notin s /\ s = {}
      <4>1. {} \in SUBSET (1..(n - 1))
        OBVIOUS
      <4>2. g[{}] = E
        BY <2>2, <4>1, Zenon DEF Looks
      <4> QED  BY <3>2, <4>2
    <3>3. CASE n \notin s /\ s # {}
      <4>1. s \in SUBSET (1..(n - 1))
        BY <1>2, <3>3
      <4>2. g[s] = Looked(depends, Order[Max(s)], g[s \ {Max(s)}])
        BY <2>2, <3>3, <4>1, Zenon DEF Looks
      <4>3. s \ {Max(s)} \in SUBSET (1..n) /\ n \notin s \ {Max(s)}
        BY <3>3
      <4>4. h[s \ {Max(s)}] = g[s \ {Max(s)}] /\ h[s] = g[s]
        BY <3>3, <4>3
      <4> QED  BY <3>3, <4>2, <4>4
    <3> QED  BY <3>1, <3>2, <3>3
  <2>4. Looks(depends, E, 1..n, h)
    <3>1. h = [s \in SUBSET (1..n) |-> h[s]]
      BY Zenon
    <3> HIDE DEF h
    <3>2. h = [s \in SUBSET (1..n) |->
                  IF s = {} THEN E ELSE Looked(depends, Order[Max(s)], h[s \ {Max(s)}])]
      BY <2>3, <3>1, Zenon
    <3> QED  BY <3>2, Zenon DEF Looks
  <2> QED  BY <1>2, <2>4
<1> QED  BY <1>3, <1>4

(* So Pass is what that function says of all modules.                      *)
LEMMA PassLooks ==
    ASSUME NEW depends, NEW E
    PROVE  \E g : Looks(depends, E, DOMAIN Order, g) /\ Pass(depends, E) = g[DOMAIN Order]
<1> DEFINE g == CHOOSE g : Looks(depends, E, DOMAIN Order, g)
<1>1. Looks(depends, E, DOMAIN Order, g)
  <2>1. PICK f : Looks(depends, E, 1..Len(Order), f)
    BY Indices, LooksExist, Zenon
  <2>2. Looks(depends, E, DOMAIN Order, f)
    BY <2>1, Indices, Zenon
  <2> QED  BY <2>2, Zenon
<1>2. Pass(depends, E) = g[DOMAIN Order]
  BY Zenon DEF Pass, FoldLeft, MapThenFoldSet, Looks, Looked
<1> QED  BY <1>1, <1>2

(* A pass switches modules off, none of a set in which every dependency is *)
(* met, and one at least if a dependency is not met.                       *)
LEMMA PassExact ==
    ASSUME NEW depends, NEW E \in SUBSET Modules
    PROVE  /\ Pass(depends, E) \subseteq E
           /\ \A F \in SUBSET E : Closed(depends, F) => F \subseteq Pass(depends, E)
           /\ Pass(depends, E) = E <=> Closed(depends, E)
<1>1. PICK g : Looks(depends, E, DOMAIN Order, g) /\ Pass(depends, E) = g[DOMAIN Order]
  BY PassLooks
<1> DEFINE Right(s) ==
               /\ g[s] \subseteq E
               /\ \A F \in SUBSET E : Closed(depends, F) => F \subseteq g[s]
               /\ g[s] = E => \A i \in s : Order[i] \in E => ToSet(depends[Order[i]]) \subseteq E
           Bad == {n \in 0..Len(Order) : \E s \in SUBSET (1..n) : ~Right(s)}
<1>2. ASSUME NEW s \in SUBSET DOMAIN Order
      PROVE  g[s] = IF s = {} THEN E ELSE Looked(depends, Order[Max(s)], g[s \ {Max(s)}])
  BY <1>1, Zenon DEF Looks
<1>3. Bad = {}
  <2>1. SUFFICES ASSUME Bad # {} PROVE FALSE
    OBVIOUS
  <2>2. PICK n \in Bad : \A m \in Bad : n <= m
    <3>1. Bad \in SUBSET Nat
      BY Indices
    <3> QED  BY <2>1, <3>1, LeastNumber
  <2>3. PICK s \in SUBSET (1..n) : ~Right(s)
    BY <2>2
  <2>4. s \in SUBSET DOMAIN Order /\ n \in Nat
    BY <2>2, Indices
  <2>5. CASE s = {}
    <3>1. g[s] = E
      BY <1>2, <2>4, <2>5
    <3> QED  BY <2>3, <2>5, <3>1
  <2>6. CASE s # {}
    <3> DEFINE x == Max(s)
               r == s \ {x}
    <3>1. x \in s /\ \A j \in s : j <= x
      BY <2>4, <2>6, GreatestIndex
    <3>2. r \in SUBSET (1..(x - 1)) /\ x - 1 \in Nat /\ x - 1 < n /\ x - 1 \in 0..Len(Order)
      <4>1. n <= Len(Order) /\ x \in 1..n /\ n \in Nat /\ Len(Order) \in Nat
        <5>1. n \in 0..Len(Order)
          BY <2>2
        <5>2. x \in 1..n
          BY <3>1
        <5> HIDE DEF x, Bad
        <5> QED  BY <2>4, <5>1, <5>2, Indices
      <4>2. ASSUME NEW j \in r PROVE j \in 1..(x - 1)
        <5>1. j \in 1..n /\ j <= x /\ j # x
          BY <3>1
        <5> HIDE DEF x
        <5> QED  BY <4>1, <5>1
      <4> HIDE DEF x, r, Bad
      <4> QED  BY <4>1, <4>2
    <3>3. Right(r)
      <4>1. x - 1 \notin Bad
        <5>1. ~(n <= x - 1)
          BY <2>4, <3>2
        <5> HIDE DEF Bad
        <5> QED  BY <2>2, <5>1
      <4> QED  BY <3>2, <4>1
    <3>4. g[s] = Looked(depends, Order[x], g[r])
      BY <1>2, <2>4, <2>6
    <3>5. g[s] \subseteq g[r] /\ (g[s] = g[r] \/ g[s] = g[r] \ {Order[x]})
      BY <3>4 DEF Looked
    <3>6. ASSUME NEW F \in SUBSET E, Closed(depends, F) PROVE F \subseteq g[s]
      <4>1. F \subseteq g[r]
        BY <3>3, <3>6
      <4>2. CASE ToSet(depends[Order[x]]) \subseteq g[r]
        BY <3>4, <4>1, <4>2 DEF Looked
      <4>3. CASE ~(ToSet(depends[Order[x]]) \subseteq g[r])
        <5>1. Order[x] \notin F
          BY <3>6, <4>1, <4>3 DEF Closed
        <5> QED  BY <3>4, <4>1, <4>3, <5>1 DEF Looked
      <4> QED  BY <4>2, <4>3
    <3>7. ASSUME g[s] = E, NEW i \in s, Order[i] \in E PROVE ToSet(depends[Order[i]]) \subseteq E
      <4>1. g[r] = E
        BY <3>3, <3>5, <3>7
      <4>2. CASE i \in r
        BY <3>3, <3>7, <4>1, <4>2
      <4>3. CASE i = x
        BY <3>4, <3>7, <4>1, <4>3 DEF Looked
      <4> QED  BY <4>2, <4>3
    <3>8. g[s] \subseteq E
      BY <3>3, <3>5
    <3> QED  BY <2>3, <3>6, <3>7, <3>8
  <2> QED  BY <2>5, <2>6
<1>4. Right(DOMAIN Order)
  <2>1. Len(Order) \notin Bad
    BY <1>3, Zenon
  <2>2. Len(Order) \in 0..Len(Order) /\ DOMAIN Order \in SUBSET (1..Len(Order))
    BY Indices
  <2> HIDE DEF Right
  <2> QED  BY <2>1, <2>2
<1>5. Pass(depends, E) = E => Closed(depends, E)
  BY <1>1, <1>4, Indices DEF Closed
<1>6. Closed(depends, E) => Pass(depends, E) = E
  <2>1. g[DOMAIN Order] \subseteq E /\ (Closed(depends, E) => E \subseteq g[DOMAIN Order])
    BY <1>4
  <2> QED  BY <1>1, <2>1
<1> QED  BY <1>1, <1>4, <1>5, <1>6

(* The greatest set in which every dependency is met is one, and a pass    *)
(* does not change which one it is.                                        *)
LEMMA GreatestExact ==
    ASSUME NEW depends, NEW E \in SUBSET Modules
    PROVE  /\ Greatest(depends, E) \subseteq E /\ Closed(depends, Greatest(depends, E))
           /\ Closed(depends, E) => Greatest(depends, E) = E
           /\ Greatest(depends, Pass(depends, E)) = Greatest(depends, E)
<1>1. Greatest(depends, E) \subseteq E /\ (Closed(depends, E) => Greatest(depends, E) = E)
  BY DEF Greatest
<1>2. Closed(depends, Greatest(depends, E))
  <2>1. SUFFICES ASSUME NEW c \in Greatest(depends, E)
                 PROVE  ToSet(depends[c]) \subseteq Greatest(depends, E)
    BY DEF Closed
  <2>2. PICK F \in SUBSET E : Closed(depends, F) /\ c \in F
    BY DEF Greatest
  <2>3. ToSet(depends[c]) \subseteq F
    BY <2>2 DEF Closed
  <2> QED  BY <2>2, <2>3 DEF Greatest
<1>3. \A F : F \in SUBSET Pass(depends, E) /\ Closed(depends, F) <=> F \in SUBSET E /\ Closed(depends, F)
  BY PassExact
<1> QED  BY <1>1, <1>2, <1>3 DEF Greatest

(* The passes end, and leave the greatest set.                             *)
LEMMA RepeatExact ==
    ASSUME NEW depends, NEW E \in SUBSET Modules
    PROVE  Repeat(depends, E) = Greatest(depends, E)
<1> DEFINE h == [on \in SUBSET Modules |-> Greatest(depends, on)]
           g == CHOOSE g : Repeats(depends, g)
           Bad == {Cardinality(F) : F \in {F \in SUBSET Modules : g[F] # Greatest(depends, F)}}
<1>1. Repeats(depends, h)
  <2>1. ASSUME NEW on \in SUBSET Modules
        PROVE  h[on] = IF Pass(depends, on) = on THEN on ELSE h[Pass(depends, on)]
    <3>1. Pass(depends, on) \in SUBSET Modules
      BY PassExact
    <3>2. h[on] = Greatest(depends, on) /\ h[Pass(depends, on)] = Greatest(depends, Pass(depends, on))
      BY <3>1
    <3> QED  BY <3>2, PassExact, GreatestExact
  <2>2. h = [on \in SUBSET Modules |-> h[on]]
    BY Zenon
  <2> HIDE DEF h
  <2> QED  BY <2>1, <2>2, Zenon DEF Repeats
<1>2. Repeats(depends, g)
  BY <1>1
<1>3. Repeat(depends, E) = g[E]
  BY Zenon DEF Repeat, Repeats
<1> HIDE DEF g, h
<1>4. ASSUME NEW on \in SUBSET Modules
      PROVE  g[on] = IF Pass(depends, on) = on THEN on ELSE g[Pass(depends, on)]
  BY <1>2, Zenon DEF Repeats
<1>5. Bad = {}
  <2>1. SUFFICES ASSUME Bad # {} PROVE FALSE
    OBVIOUS
  <2>2. Bad \in SUBSET Nat
    BY Indices, FS_Subset, FS_CardinalityType
  <2>3. PICK n \in Bad : \A m \in Bad : n <= m
    BY <2>1, <2>2, LeastNumber
  <2>4. PICK F \in SUBSET Modules : g[F] # Greatest(depends, F) /\ n = Cardinality(F)
    OBVIOUS
  <2> DEFINE P == Pass(depends, F)
  <2>5. P \subseteq F /\ (P = F => Greatest(depends, F) = F) /\ Greatest(depends, P) = Greatest(depends, F)
    BY PassExact, GreatestExact
  <2>6. P # F
    BY <1>4, <2>4, <2>5
  <2>7. g[P] # Greatest(depends, P) /\ P \in SUBSET Modules
    BY <1>4, <2>4, <2>5, <2>6
  <2>8. IsFiniteSet(F)
    BY Indices, FS_Subset
  <2>9. Cardinality(P) < Cardinality(F)
    <3>1. IsFiniteSet(P) /\ Cardinality(P) <= Cardinality(F) /\ Cardinality(P) # Cardinality(F)
      BY <2>5, <2>6, <2>8, FS_Subset
    <3> QED  BY <2>8, <3>1, FS_CardinalityType
  <2>10. Cardinality(P) \in Bad
    BY <2>7
  <2>11. n <= Cardinality(P) /\ n \in Nat /\ Cardinality(P) \in Nat
    BY <2>2, <2>3, <2>10
  <2> QED  BY <2>4, <2>9, <2>11
<1> QED  BY <1>3, <1>5
-----------------------------------------------------------------------------
(* The dependencies of a manifest, and a set with one more in it.          *)
Graph(depends) == depends \in [Modules -> Seq(Modules \union {Unknown})]
With(X, d) == X \union {d}

(* The searches.  A set of modules is stuck, for a search with this path   *)
(* and these modules visited, when no module in it can be finished: each   *)
(* is on the path, or is yet to be visited and depends on something        *)
(* unknown or on a module of the set.                                      *)
Stuck(depends, path, visited, G) ==
    \A x \in G : \/ x \in path
                 \/ x \notin visited /\ \E d \in ToSet(depends[x]) : d \notin Modules \/ d \in G
Refused(depends, path, visited, c) ==
    \E G \in SUBSET Modules : c \in G /\ Stuck(depends, path, visited, G)

(* What is visited once the modules X are: what they lead to by modules    *)
(* that were not visited.                                                  *)
Spread(depends, visited, S) == \A x \in S \ visited : ToSet(depends[x]) \intersect Modules \subseteq S
Reached(depends, visited, X) ==
    {y \in Modules : \A S \in SUBSET Modules :
        visited \subseteq S /\ X \subseteq S /\ Spread(depends, visited, S) => y \in S}

(* What a search for the modules X finds.                                  *)
Found(depends, path, visited, X) ==
    IF \E d \in X : d \notin Modules \/ Refused(depends, path, visited, d) THEN Failed
    ELSE Visited(Reached(depends, visited, X))

(* The graph is right: nothing is unknown, no modules depend on each other *)
(* in a circle.                                                            *)
Acyclic(depends) == \A G \in SUBSET Modules : Stuck(depends, {}, {}, G) => G = {}

(* Reached is the least set of its kind.                                   *)
LEMMA ReachedLeast ==
    ASSUME NEW depends, NEW visited \in SUBSET Modules, NEW X \in SUBSET Modules
    PROVE  /\ Reached(depends, visited, X) \in SUBSET Modules
           /\ visited \subseteq Reached(depends, visited, X) /\ X \subseteq Reached(depends, visited, X)
           /\ Spread(depends, visited, Reached(depends, visited, X))
           /\ \A S \in SUBSET Modules :
                 visited \subseteq S /\ X \subseteq S /\ Spread(depends, visited, S)
                   => Reached(depends, visited, X) \subseteq S
<1>1. Spread(depends, visited, Reached(depends, visited, X))
  <2>1. SUFFICES ASSUME NEW x \in Reached(depends, visited, X) \ visited,
                        NEW d \in ToSet(depends[x]) \intersect Modules, NEW S \in SUBSET Modules,
                        visited \subseteq S, X \subseteq S, Spread(depends, visited, S)
                 PROVE  d \in S
    BY Zenon DEF Spread, Reached
  <2>2. x \in S
    BY <2>1, Zenon DEF Reached
  <2> QED  BY <2>1, <2>2 DEF Spread
<1>2. \A S \in SUBSET Modules :
         visited \subseteq S /\ X \subseteq S /\ Spread(depends, visited, S)
           => Reached(depends, visited, X) \subseteq S
  BY Zenon DEF Reached
<1> QED  BY <1>1, <1>2 DEF Reached

(* Nothing more is visited for what was visited already.                   *)
LEMMA ReachedNothing ==
    ASSUME NEW depends, NEW visited \in SUBSET Modules, NEW X \in SUBSET visited
    PROVE  Reached(depends, visited, X) = visited
<1>1. Spread(depends, visited, visited)
  BY DEF Spread
<1>2. X \in SUBSET Modules /\ X \subseteq visited
  OBVIOUS
<1>3. visited \subseteq Reached(depends, visited, X)
  BY <1>2, ReachedLeast
<1>4. Reached(depends, visited, X) \subseteq visited
  BY <1>1, <1>2, ReachedLeast
<1> QED  BY <1>3, <1>4

(* One module after the other.                                             *)
LEMMA ReachedMore ==
    ASSUME NEW depends, NEW visited \in SUBSET Modules, NEW X \in SUBSET Modules, NEW d \in Modules
    PROVE  Reached(depends, Reached(depends, visited, X), {d}) = Reached(depends, visited, X \union {d})
<1> DEFINE V == Reached(depends, visited, X)
           A == Reached(depends, V, {d})
           B == Reached(depends, visited, X \union {d})
<1>1. V \in SUBSET Modules /\ visited \subseteq V /\ X \subseteq V /\ Spread(depends, visited, V)
  BY ReachedLeast
<1>2. A \in SUBSET Modules /\ V \subseteq A /\ d \in A /\ Spread(depends, V, A)
  <2> HIDE DEF V
  <2> DEFINE Y == {d}
  <2>1. Y \in SUBSET Modules /\ d \in Y
    OBVIOUS
  <2> HIDE DEF Y
  <2>2. /\ V \subseteq Reached(depends, V, Y) /\ Y \subseteq Reached(depends, V, Y)
        /\ Spread(depends, V, Reached(depends, V, Y)) /\ Reached(depends, V, Y) \in SUBSET Modules
    BY <1>1, <2>1, ReachedLeast
  <2> QED  BY <2>1, <2>2 DEF Y
<1>3. X \union {d} \in SUBSET Modules
  OBVIOUS
<1>4. B \in SUBSET Modules /\ visited \subseteq B /\ X \subseteq B /\ d \in B /\ Spread(depends, visited, B)
  <2> DEFINE Y == X \union {d}
  <2>1. Y \in SUBSET Modules /\ X \subseteq Y /\ d \in Y
    OBVIOUS
  <2> HIDE DEF Y
  <2>2. /\ visited \subseteq Reached(depends, visited, Y) /\ Y \subseteq Reached(depends, visited, Y)
        /\ Spread(depends, visited, Reached(depends, visited, Y)) /\ Reached(depends, visited, Y) \in SUBSET Modules
    BY <2>1, ReachedLeast
  <2> QED  BY <2>1, <2>2 DEF Y
<1>5. V \subseteq B
  BY <1>4, ReachedLeast
<1>6. A \subseteq B
  <2>1. Spread(depends, V, B)
    BY <1>1, <1>4 DEF Spread
  <2>2. {d} \subseteq B /\ {d} \in SUBSET Modules
    BY <1>4
  <2> HIDE DEF V, B
  <2> QED  BY <1>1, <1>4, <1>5, <2>1, <2>2, ReachedLeast
<1>7. B \subseteq A
  <2>1. Spread(depends, visited, A)
    BY <1>1, <1>2 DEF Spread
  <2>2. visited \subseteq A /\ X \union {d} \subseteq A
    BY <1>1, <1>2
  <2> HIDE DEF V, A
  <2> QED  BY <1>2, <1>3, <2>1, <2>2, ReachedLeast
<1> QED  BY <1>6, <1>7

(* What a module that was not visited leads to.                            *)
LEMMA ReachedStep ==
    ASSUME NEW depends, NEW visited \in SUBSET Modules, NEW c \in Modules, c \notin visited,
           ToSet(depends[c]) \subseteq Modules
    PROVE  Reached(depends, visited, ToSet(depends[c])) \union {c} = Reached(depends, visited, {c})
<1> DEFINE D == ToSet(depends[c])
           V == Reached(depends, visited, D)
           B == Reached(depends, visited, {c})
<1>1. V \in SUBSET Modules /\ visited \subseteq V /\ D \subseteq V /\ Spread(depends, visited, V)
  <2>1. D \in SUBSET Modules
    OBVIOUS
  <2> HIDE DEF D
  <2> QED  BY <2>1, ReachedLeast
<1>2. B \in SUBSET Modules /\ visited \subseteq B /\ c \in B /\ Spread(depends, visited, B)
  <2>1. {c} \in SUBSET Modules
    OBVIOUS
  <2> QED  BY <2>1, ReachedLeast
<1>3. V \subseteq B
  <2>1. D \subseteq B
    BY <1>2 DEF Spread
  <2> HIDE DEF D, B
  <2> QED  BY <1>2, <2>1, ReachedLeast DEF D
<1>4. B \subseteq V \union {c}
  <2>1. Spread(depends, visited, V \union {c})
    BY <1>1 DEF Spread
  <2>2. V \union {c} \in SUBSET Modules /\ visited \subseteq V \union {c} /\ {c} \subseteq V \union {c}
    BY <1>1
  <2> HIDE DEF V
  <2> QED  BY <2>1, <2>2, ReachedLeast
<1> QED  BY <1>2, <1>3, <1>4

(* The union of the stuck sets is stuck.                                   *)
LEMMA RefusedStuck ==
    ASSUME NEW depends, NEW path, NEW visited
    PROVE  Stuck(depends, path, visited, {c \in Modules : Refused(depends, path, visited, c)})
<1> DEFINE All == {c \in Modules : Refused(depends, path, visited, c)}
<1>1. SUFFICES ASSUME NEW x \in All, x \notin path
               PROVE  x \notin visited /\ \E d \in ToSet(depends[x]) : d \notin Modules \/ d \in All
  BY DEF Stuck
<1>2. PICK G \in SUBSET Modules : x \in G /\ Stuck(depends, path, visited, G)
  BY DEF Refused
<1>3. x \notin visited /\ \E d \in ToSet(depends[x]) : d \notin Modules \/ d \in G
  BY <1>1, <1>2 DEF Stuck
<1>4. G \subseteq All
  BY <1>2 DEF Refused
<1> QED  BY <1>3, <1>4

(* A module that is finished does not change what can be: whether a search *)
(* fails depends on what was visited at its start only.                    *)
LEMMA RefusedMore ==
    ASSUME NEW depends, NEW path \in SUBSET Modules, NEW visited \in SUBSET Modules,
           NEW X \in SUBSET Modules, \A x \in X : ~Refused(depends, path, visited, x), NEW d \in Modules
    PROVE  Refused(depends, path, Reached(depends, visited, X), d) <=> Refused(depends, path, visited, d)
<1> DEFINE V == Reached(depends, visited, X)
           All == {c \in Modules : Refused(depends, path, visited, c)}
           S == (V \ All) \union visited
<1>1. V \in SUBSET Modules /\ visited \subseteq V /\ X \subseteq V /\ Spread(depends, visited, V)
  BY ReachedLeast
<1>2. Stuck(depends, path, visited, All)
  BY RefusedStuck
<1>3. ASSUME NEW x \in Modules, x \notin visited, x \notin All,
             NEW e \in ToSet(depends[x])
      PROVE  e \in Modules /\ e \notin All
  <2>1. SUFFICES ASSUME e \notin Modules \/ e \in All PROVE FALSE
    OBVIOUS
  <2>2. Stuck(depends, path, visited, All \union {x})
    BY <1>2, <1>3, <2>1 DEF Stuck
  <2>3. All \union {x} \in SUBSET Modules
    OBVIOUS
  <2>4. Refused(depends, path, visited, x)
    BY <2>2, <2>3 DEF Refused
  <2> QED  BY <1>3, <2>4
<1>4. V \subseteq S
  <2>1. Spread(depends, visited, S)
    BY <1>1, <1>3 DEF Spread
  <2>2. S \in SUBSET Modules /\ visited \subseteq S /\ X \subseteq S
    BY <1>1
  <2> HIDE DEF S
  <2> QED  BY <2>1, <2>2, ReachedLeast
<1>5. Stuck(depends, path, V, All)
  BY <1>2, <1>4 DEF Stuck
<1>6. ASSUME d \in All PROVE Refused(depends, path, V, d)
  BY <1>5, <1>6, Zenon DEF Refused
<1>7. ASSUME Refused(depends, path, V, d) PROVE Refused(depends, path, visited, d)
  <2>1. PICK G \in SUBSET Modules : d \in G /\ Stuck(depends, path, V, G)
    BY <1>7 DEF Refused
  <2>2. Stuck(depends, path, visited, G)
    BY <1>1, <2>1 DEF Stuck
  <2> QED  BY <2>1, <2>2 DEF Refused
<1> QED  BY <1>6, <1>7

(* What a visit to c would be refused for.                                 *)
Blocked(depends, path, visited, c) ==
    \E d \in ToSet(depends[c]) : d \notin Modules \/ Refused(depends, With(path, c), visited, d)

(* A module that is neither on the path nor visited is refused for what it *)
(* depends on.                                                             *)
LEMMA RefusedStep ==
    ASSUME NEW depends, NEW path, NEW visited, NEW c,
           path \in SUBSET Modules, visited \in SUBSET Modules, c \in Modules,
           c \notin path, c \notin visited
    PROVE  Refused(depends, path, visited, c) <=> Blocked(depends, path, visited, c)
<1> USE DEF Blocked
<1>1. ASSUME Refused(depends, path, visited, c)
      PROVE  \E d \in ToSet(depends[c]) : d \notin Modules \/ Refused(depends, With(path, c), visited, d)
  <2>1. PICK G \in SUBSET Modules : c \in G /\ Stuck(depends, path, visited, G)
    BY <1>1 DEF Refused
  <2>2. PICK d \in ToSet(depends[c]) : d \notin Modules \/ d \in G
    BY <2>1 DEF Stuck
  <2>3. Stuck(depends, With(path, c), visited, G)
    BY <2>1 DEF Stuck, With
  <2> QED  BY <2>1, <2>2, <2>3 DEF Refused
<1>2. ASSUME NEW d \in ToSet(depends[c]),
             d \notin Modules \/ Refused(depends, With(path, c), visited, d)
      PROVE  Refused(depends, path, visited, c)
  <2>1. CASE d \notin Modules
    <3>1. Stuck(depends, path, visited, {c})
      BY <2>1 DEF Stuck
    <3> QED  BY <3>1 DEF Refused
  <2>2. CASE Refused(depends, With(path, c), visited, d)
    <3>1. PICK G \in SUBSET Modules : d \in G /\ Stuck(depends, With(path, c), visited, G)
      BY <2>2 DEF Refused
    <3>2. Stuck(depends, path, visited, G \union {c})
      BY <3>1 DEF Stuck, With
    <3>3. G \union {c} \in SUBSET Modules
      OBVIOUS
    <3> QED  BY <3>2, <3>3 DEF Refused
  <2> QED  BY <1>2, <2>1, <2>2
<1> QED  BY <1>1, <1>2

(* A module on the path is refused, one that was visited is not.           *)
LEMMA RefusedAtOnce ==
    ASSUME NEW depends, NEW path \in SUBSET Modules, NEW visited \in SUBSET Modules, NEW c \in Modules
    PROVE  /\ c \in path => Refused(depends, path, visited, c)
           /\ c \notin path /\ c \in visited => ~Refused(depends, path, visited, c)
<1>1. ASSUME c \in path PROVE Refused(depends, path, visited, c)
  <2>1. Stuck(depends, path, visited, {c})
    BY <1>1 DEF Stuck
  <2> QED  BY <2>1 DEF Refused
<1>2. c \notin path /\ c \in visited => ~Refused(depends, path, visited, c)
  BY DEF Refused, Stuck
<1> QED  BY <1>1, <1>2

(* What a search for one module finds.                                     *)
FoundOne(depends, path, visited, d) == Found(depends, path, visited, {d})

(* What a search for X and then for d finds is what one for both finds.    *)
LEMMA FoundMore ==
    ASSUME NEW depends, NEW path \in SUBSET Modules, NEW visited \in SUBSET Modules, NEW X, NEW d
    PROVE  /\ (Found(depends, path, visited, X) = Failed \/ d \notin Modules)
                 => Found(depends, path, visited, With(X, d)) = Failed
           /\ Found(depends, path, visited, X) # Failed /\ d \in Modules
                 => Found(depends, path, visited, With(X, d))
                      = FoundOne(depends, path, Found(depends, path, visited, X).visited, d)
<1> USE DEF With, FoundOne
<1> DEFINE r == Found(depends, path, visited, X)
           V == Reached(depends, visited, X)
<1>1. CASE \E x \in X : x \notin Modules \/ Refused(depends, path, visited, x)
  <2>1. r = Failed
    BY <1>1, Zenon DEF Found
  <2>3. Found(depends, path, visited, X \union {d}) = Failed
    BY <1>1, Zenon DEF Found
  <2> HIDE DEF r
  <2> QED  BY <2>1, <2>3 DEF r
<1>2. CASE ~\E x \in X : x \notin Modules \/ Refused(depends, path, visited, x)
  <2>1. r = Visited(V)
    BY <1>2, Zenon DEF Found
  <2>2. r # Failed /\ r.visited = V
    <3> HIDE DEF r, V
    <3> QED  BY <2>1 DEF Visited, Failed
  <2>3. X \in SUBSET Modules
    BY <1>2
  <2>4. CASE d \notin Modules
    <3>1. Found(depends, path, visited, X \union {d}) = Failed
      BY <2>4, Zenon DEF Found
    <3> HIDE DEF r
    <3> QED  BY <2>4, <3>1 DEF r
  <2>5. CASE d \in Modules
    <3>1. Refused(depends, path, V, d) <=> Refused(depends, path, visited, d)
      BY <1>2, <2>3, <2>5, RefusedMore
    <3>2. Reached(depends, V, {d}) = Reached(depends, visited, X \union {d})
      BY <2>3, <2>5, ReachedMore
    <3> HIDE DEF V
    <3>3. CASE Refused(depends, path, visited, d)
      <4>1. Found(depends, path, visited, X \union {d}) = Failed
        BY <3>3, Zenon DEF Found
      <4>2. Found(depends, path, V, {d}) = Failed
        BY <3>1, <3>3, Zenon DEF Found
      <4> HIDE DEF r
      <4> QED  BY <2>2, <2>5, <4>1, <4>2 DEF r
    <3>4. CASE ~Refused(depends, path, visited, d)
      <4>1. \A x \in X \union {d} : ~(x \notin Modules \/ Refused(depends, path, visited, x))
        BY <1>2, <2>5, <3>4
      <4>2. Found(depends, path, visited, X \union {d}) = Visited(Reached(depends, visited, X \union {d}))
        BY <4>1, Zenon DEF Found
      <4>3. \A x \in {d} : ~(x \notin Modules \/ Refused(depends, path, V, x))
        BY <2>5, <3>1, <3>4
      <4>4. Found(depends, path, V, {d}) = Visited(Reached(depends, V, {d}))
        BY <4>3, Zenon DEF Found
      <4> HIDE DEF r
      <4> QED  BY <2>2, <2>5, <3>2, <4>2, <4>4 DEF r
    <3> QED  BY <3>3, <3>4
  <2> QED  BY <2>4, <2>5
<1> QED  BY <1>1, <1>2

(* A search for no modules finds what was visited.                         *)
LEMMA FoundNothing ==
    ASSUME NEW depends, NEW path, NEW visited \in SUBSET Modules
    PROVE  Found(depends, path, visited, {}) = Visited(visited)
<1>1. Found(depends, path, visited, {}) = Visited(Reached(depends, visited, {}))
  BY Zenon DEF Found
<1>2. {} \in SUBSET visited
  OBVIOUS
<1> QED  BY <1>1, <1>2, ReachedNothing

(* What a successful search has visited are modules.                       *)
LEMMA FoundType ==
    ASSUME NEW depends, NEW path, NEW visited \in SUBSET Modules, NEW X,
           Found(depends, path, visited, X) # Failed
    PROVE  Found(depends, path, visited, X).visited \in SUBSET Modules
<1>1. CASE \E x \in X : x \notin Modules \/ Refused(depends, path, visited, x)
  <2>1. Found(depends, path, visited, X) = Failed
    BY <1>1, Zenon DEF Found
  <2> QED  BY <2>1
<1>2. CASE ~\E x \in X : x \notin Modules \/ Refused(depends, path, visited, x)
  <2>1. Found(depends, path, visited, X) = Visited(Reached(depends, visited, X))
    BY <1>2, Zenon DEF Found
  <2>2. X \in SUBSET Modules
    BY <1>2
  <2>3. Reached(depends, visited, X) \in SUBSET Modules
    BY <2>2, ReachedLeast
  <2> QED  BY <2>1, <2>3 DEF Visited
<1> QED  BY <1>1, <1>2

-----------------------------------------------------------------------------
(* The loops over a sequence, of dependencies or of all modules, are folds *)
(* with this function, over the elements at the indices s.                 *)
IsSequence(seq) == Len(seq) \in Nat /\ DOMAIN seq = 1..Len(seq)
At(seq, s) == {seq[i] : i \in s}
Rest(s) == s \ {Max(s)}
Folds(path, visited, seq, g, f) ==
    f = [s \in SUBSET (DOMAIN seq) |->
            IF s = {} THEN Visited(visited)
            ELSE LET r == f[s \ {Max(s)}]
                     d == seq[Max(s)]
                 IN  IF r = Failed \/ d \notin Modules THEN Failed ELSE g[path][d][r.visited]]

(* g finds what a search with this path is to find.                        *)
Finds(depends, path, g) ==
    \A d \in Modules : \A v \in SUBSET Modules : g[path][d][v] = FoundOne(depends, path, v, d)

(* The last of some indices.                                               *)
LEMMA LastIndex ==
    ASSUME NEW seq, IsSequence(seq), NEW s \in SUBSET DOMAIN seq, s # {}
    PROVE  /\ Max(s) \in s /\ \A j \in s : j <= Max(s)
           /\ At(seq, s) = With(At(seq, Rest(s)), seq[Max(s)])
<1>1. DOMAIN seq = 1..Len(seq) /\ Len(seq) \in Nat
  BY DEF IsSequence
<1>2. Max(s) \in s /\ \A j \in s : j <= Max(s)
  BY <1>1, GreatestIndex
<1>3. At(seq, s) = With(At(seq, Rest(s)), seq[Max(s)])
  BY <1>2 DEF At, With, Rest
<1> QED  BY <1>2, <1>3

(* The loop is a function, and finds what a search for all is to find, ... *)
LoopFinds(depends, path, visited, seq, g) ==
    /\ \E f : Folds(path, visited, seq, g, f)
    /\ \A f : Folds(path, visited, seq, g, f) =>
         f[DOMAIN seq] = Found(depends, path, visited, ToSet(seq))

(* ... if the visits that it makes do.                                     *)
LEMMA FoldFinds ==
    ASSUME NEW depends, NEW path, NEW visited, NEW seq, NEW g,
           path \in SUBSET Modules, visited \in SUBSET Modules, IsSequence(seq), Finds(depends, path, g)
    PROVE  LoopFinds(depends, path, visited, seq, g)
<1> USE DEF LoopFinds
<1>0. ASSUME NEW s \in SUBSET DOMAIN seq, s # {},
             NEW r, r = Found(depends, path, visited, At(seq, Rest(s)))
      PROVE  /\ (r = Failed \/ seq[Max(s)] \notin Modules)
                   => Found(depends, path, visited, At(seq, s)) = Failed
             /\ r # Failed /\ seq[Max(s)] \in Modules
                   => Found(depends, path, visited, At(seq, s)) = g[path][seq[Max(s)]][r.visited]
  <2> DEFINE X == At(seq, Rest(s))
             d == seq[Max(s)]
  <2>1. At(seq, s) = With(X, d)
    BY <1>0, LastIndex
  <2>2. r # Failed => r.visited \in SUBSET Modules
    BY <1>0, FoundType
  <2>3. r # Failed /\ d \in Modules => g[path][d][r.visited] = FoundOne(depends, path, r.visited, d)
    BY <2>2 DEF Finds
  <2> HIDE DEF X, d
  <2>4. /\ (r = Failed \/ d \notin Modules) => Found(depends, path, visited, With(X, d)) = Failed
        /\ r # Failed /\ d \in Modules
             => Found(depends, path, visited, With(X, d)) = FoundOne(depends, path, r.visited, d)
    <3>1. r = Found(depends, path, visited, X)
      BY <1>0 DEF X
    <3> QED  BY <3>1, FoundMore
  <2> QED  BY <2>1, <2>3, <2>4 DEF X, d
<1> DEFINE h == [s \in SUBSET (DOMAIN seq) |-> Found(depends, path, visited, At(seq, s))]
<1>1. Found(depends, path, visited, At(seq, {})) = Visited(visited)
  <2>1. At(seq, {}) = {}
    BY DEF At
  <2> QED  BY <2>1, FoundNothing
<1>2. Folds(path, visited, seq, g, h)
  <2>1. ASSUME NEW s \in SUBSET DOMAIN seq
        PROVE  h[s] = IF s = {} THEN Visited(visited)
                      ELSE LET r == h[s \ {Max(s)}]
                               d == seq[Max(s)]
                           IN  IF r = Failed \/ d \notin Modules THEN Failed ELSE g[path][d][r.visited]
    <3>1. CASE s = {}
      BY <1>1, <3>1
    <3>2. CASE s # {}
      <4>1. Rest(s) \in SUBSET DOMAIN seq
        BY DEF Rest
      <4>2. h[s] = Found(depends, path, visited, At(seq, s))
            /\ h[Rest(s)] = Found(depends, path, visited, At(seq, Rest(s)))
        BY <4>1
      <4> DEFINE q == h[Rest(s)]
      <4> HIDE DEF h
      <4>3. q = Found(depends, path, visited, At(seq, Rest(s)))
        BY <4>2
      <4> HIDE DEF q
      <4>4. /\ (q = Failed \/ seq[Max(s)] \notin Modules)
                 => Found(depends, path, visited, At(seq, s)) = Failed
            /\ q # Failed /\ seq[Max(s)] \in Modules
                 => Found(depends, path, visited, At(seq, s)) = g[path][seq[Max(s)]][q.visited]
        BY <1>0, <3>2, <4>3
      <4>5. h[s] = IF q = Failed \/ seq[Max(s)] \notin Modules THEN Failed ELSE g[path][seq[Max(s)]][q.visited]
        BY <4>2, <4>4, Zenon
      <4> QED  BY <3>2, <4>5, Zenon DEF q, Rest
    <3> QED  BY <3>1, <3>2
  <2>2. h = [s \in SUBSET (DOMAIN seq) |-> h[s]]
    BY Zenon
  <2> HIDE DEF h
  <2> QED  BY <2>1, <2>2, Zenon DEF Folds
<1> HIDE DEF h
<1>3. SUFFICES ASSUME NEW f, Folds(path, visited, seq, g, f)
               PROVE  f[DOMAIN seq] = Found(depends, path, visited, ToSet(seq))
  BY <1>2
<1> DEFINE Wrong(s) == f[s] # Found(depends, path, visited, At(seq, s))
           Bad == {n \in 0..Len(seq) : \E s \in SUBSET (1..n) : Wrong(s)}
<1>4. ASSUME NEW s \in SUBSET DOMAIN seq
      PROVE  f[s] = IF s = {} THEN Visited(visited)
                    ELSE LET r == f[s \ {Max(s)}]
                             d == seq[Max(s)]
                         IN  IF r = Failed \/ d \notin Modules THEN Failed ELSE g[path][d][r.visited]
  BY <1>3, Zenon DEF Folds
<1>5. DOMAIN seq = 1..Len(seq) /\ Len(seq) \in Nat
  BY DEF IsSequence
<1>6. Bad = {}
  <2>1. SUFFICES ASSUME Bad # {} PROVE FALSE
    OBVIOUS
  <2>2. Bad \in SUBSET Nat
    BY <1>5
  <2>3. PICK n \in Bad : \A m \in Bad : n <= m
    BY <2>1, <2>2, LeastNumber
  <2>4. n \in 0..Len(seq)
    BY <2>3
  <2>5. PICK s \in SUBSET (1..n) : Wrong(s)
    BY <2>3
  <2>6. s \in SUBSET DOMAIN seq
    BY <1>5, <2>4
  <2>7. s # {}
    BY <1>1, <1>4, <2>5, <2>6
  <2> DEFINE x == Max(s)
             r == s \ {x}
  <2>8. x \in s /\ \A j \in s : j <= x
    BY <2>6, <2>7, LastIndex
  <2>9. x \in 1..n
    BY <2>5, <2>8
  <2>10. r \in SUBSET (1..(x - 1)) /\ x - 1 \in 0..Len(seq) /\ ~(n <= x - 1)
    <3>1. ASSUME NEW j \in r PROVE j \in 1..(x - 1)
      <4>1. j \in 1..n /\ j <= x /\ j # x
        BY <2>5, <2>8
      <4> HIDE DEF x, r
      <4> QED  BY <2>4, <2>9, <4>1, <1>5
    <3>2. x - 1 \in 0..Len(seq) /\ ~(n <= x - 1)
      <4> HIDE DEF x, r
      <4> QED  BY <2>4, <2>9, <1>5
    <3> QED  BY <3>1, <3>2
  <2>11. ~Wrong(r)
    <3> HIDE DEF r, x
    <3>1. x - 1 \notin Bad
      <4> HIDE DEF Bad
      <4> QED  BY <2>3, <2>10
    <3> HIDE DEF Wrong
    <3> QED  BY <2>10, <3>1
  <2>12. ~Wrong(s)
    <3>1. f[Rest(s)] = Found(depends, path, visited, At(seq, Rest(s)))
      BY <2>11 DEF Rest
    <3> DEFINE q == f[Rest(s)]
    <3>2. f[s] = IF q = Failed \/ seq[Max(s)] \notin Modules THEN Failed ELSE g[path][seq[Max(s)]][q.visited]
      BY <1>4, <2>6, <2>7, Zenon DEF Rest
    <3>3. q = Found(depends, path, visited, At(seq, Rest(s)))
      BY <3>1
    <3> HIDE DEF q
    <3>4. /\ (q = Failed \/ seq[Max(s)] \notin Modules)
                 => Found(depends, path, visited, At(seq, s)) = Failed
          /\ q # Failed /\ seq[Max(s)] \in Modules
                 => Found(depends, path, visited, At(seq, s)) = g[path][seq[Max(s)]][q.visited]
      BY <1>0, <2>6, <2>7, <3>3
    <3> QED  BY <3>2, <3>4, Zenon
  <2> HIDE DEF Wrong
  <2> QED  BY <2>5, <2>12
<1>7. ~Wrong(DOMAIN seq)
  BY <1>5, <1>6
<1>8. At(seq, DOMAIN seq) = ToSet(seq)
  BY DEF At, ToSet
<1> QED  BY <1>7, <1>8

-----------------------------------------------------------------------------
(* validate_dependency_graph: what one visit does, if the visits it makes  *)
(* are those of g.                                                         *)
Visit(depends, g, path, c, visited) ==
    IF c \in path THEN Failed
    ELSE IF c \in visited THEN Visited(visited)
    ELSE LET next(r, d) == IF r = Failed \/ d \notin Modules THEN Failed
                           ELSE g[path \union {c}][d][r.visited]
             end == FoldLeft(next, Visited(visited), depends[c])
         IN  IF end = Failed THEN Failed ELSE Visited(end.visited \union {c})
Visits(depends, g) ==
    g = [path \in SUBSET Modules |-> [c \in Modules |-> [visited \in SUBSET Modules |->
            Visit(depends, g, path, c, visited)]]]

(* It finds what it is to find, if they do.                                *)
LEMMA VisitFinds ==
    ASSUME NEW depends, Graph(depends),
           NEW path \in SUBSET Modules, NEW visited \in SUBSET Modules, NEW c \in Modules,
           NEW g, c \notin path => Finds(depends, With(path, c), g)
    PROVE  Visit(depends, g, path, c, visited) = FoundOne(depends, path, visited, c)
<1>1. CASE c \in path
  <2>1. Refused(depends, path, visited, c)
    BY <1>1, RefusedAtOnce
  <2>2. FoundOne(depends, path, visited, c) = Failed
    BY <2>1, Zenon DEF FoundOne, Found
  <2> QED  BY <1>1, <2>2, Zenon DEF Visit
<1>2. CASE c \notin path /\ c \in visited
  <2>1. ~Refused(depends, path, visited, c)
    BY <1>2, RefusedAtOnce
  <2>2. FoundOne(depends, path, visited, c) = Visited(Reached(depends, visited, {c}))
    BY <2>1, Zenon DEF FoundOne, Found
  <2>3. {c} \in SUBSET visited
    BY <1>2
  <2>4. Reached(depends, visited, {c}) = visited
    BY <2>3, ReachedNothing
  <2> QED  BY <1>2, <2>2, <2>4, Zenon DEF Visit
<1>3. CASE c \notin path /\ c \notin visited
  <2> DEFINE D == ToSet(depends[c])
             P == With(path, c)
             f == CHOOSE f : Folds(P, visited, depends[c], g, f)
             next(r, d) == IF r = Failed \/ d \notin Modules THEN Failed
                           ELSE g[path \union {c}][d][r.visited]
             end == FoldLeft(next, Visited(visited), depends[c])
  <2>1. P \in SUBSET Modules /\ P = path \union {c}
    BY DEF With
  <2>2. Finds(depends, P, g) /\ depends[c] \in Seq(Modules \union {Unknown})
    BY <1>3 DEF Graph
  <2>3. f[DOMAIN depends[c]] = Found(depends, P, visited, D)
    <3> HIDE DEF P, f
    <3> DEFINE seq == depends[c]
    <3>1. IsSequence(seq)
      BY <2>2 DEF IsSequence
    <3> HIDE DEF seq
    <3>2. LoopFinds(depends, P, visited, seq, g)
      BY <2>1, <2>2, <3>1, FoldFinds
    <3>3. /\ \E e : Folds(P, visited, depends[c], g, e)
          /\ \A e : Folds(P, visited, depends[c], g, e)
                       => e[DOMAIN depends[c]] = Found(depends, P, visited, D)
      BY <3>2, Zenon DEF seq, LoopFinds
    <3>4. Folds(P, visited, depends[c], g, f)
      BY <3>3, Zenon DEF f
    <3> QED  BY <3>3, <3>4
  <2>4. end = f[DOMAIN depends[c]]
    BY Zenon DEF FoldLeft, MapThenFoldSet, Folds, With
  <2>5. Visit(depends, g, path, c, visited) =
          IF end = Failed THEN Failed ELSE Visited(end.visited \union {c})
    BY <1>3, Zenon DEF Visit
  <2> HIDE DEF f, end, next
  <2>6. end = Found(depends, P, visited, D)
    BY <2>3, <2>4
  <2>7. Refused(depends, path, visited, c) <=>
          \E d \in D : d \notin Modules \/ Refused(depends, P, visited, d)
    <3>1. Refused(depends, path, visited, c) <=> Blocked(depends, path, visited, c)
      BY <1>3, RefusedStep
    <3> QED  BY <3>1, Zenon DEF Blocked
  <2> HIDE DEF P
  <2>8. CASE Refused(depends, path, visited, c)
    <3>1. end = Failed
      BY <2>6, <2>7, <2>8, Zenon DEF Found
    <3>2. FoundOne(depends, path, visited, c) = Failed
      BY <2>8, Zenon DEF FoundOne, Found
    <3> QED  BY <2>5, <3>1, <3>2
  <2>9. CASE ~Refused(depends, path, visited, c)
    <3>1. end = Visited(Reached(depends, visited, D))
      BY <2>6, <2>7, <2>9, Zenon DEF Found
    <3>2. D \subseteq Modules
      BY <2>7, <2>9
    <3>3. Reached(depends, visited, D) \union {c} = Reached(depends, visited, {c})
      BY <1>3, <3>2, ReachedStep
    <3>4. FoundOne(depends, path, visited, c) = Visited(Reached(depends, visited, {c}))
      BY <2>9, Zenon DEF FoundOne, Found
    <3>5. end # Failed /\ end.visited = Reached(depends, visited, D)
      <4> HIDE DEF D
      <4> QED  BY <3>1 DEF Visited, Failed
    <3> QED  BY <2>5, <3>3, <3>4, <3>5
  <2> QED  BY <2>8, <2>9
<1> QED  BY <1>1, <1>2, <1>3

(* A path that is longer leaves fewer modules.                             *)
LEMMA LongerPath ==
    ASSUME NEW path \in SUBSET Modules, NEW c \in Modules, c \notin path
    PROVE  /\ With(path, c) \in SUBSET Modules
           /\ Cardinality(Modules \ path) \in Nat /\ Cardinality(Modules \ With(path, c)) \in Nat
           /\ Cardinality(Modules \ With(path, c)) < Cardinality(Modules \ path)
<1> DEFINE A == Modules \ path
           B == Modules \ With(path, c)
<1>1. IsFiniteSet(A) /\ B \subseteq A /\ B # A
  <2>1. IsFiniteSet(A)
    BY Indices, FS_Subset
  <2> QED  BY <2>1 DEF With
<1>2. IsFiniteSet(B) /\ Cardinality(B) <= Cardinality(A) /\ Cardinality(B) # Cardinality(A)
  BY <1>1, FS_Subset
<1>3. Cardinality(A) \in Nat /\ Cardinality(B) \in Nat
  BY <1>1, <1>2, FS_CardinalityType
<1>4. With(path, c) \in SUBSET Modules
  BY DEF With
<1> HIDE DEF A, B
<1>5. Cardinality(B) < Cardinality(A)
  BY <1>2, <1>3
<1> QED  BY <1>3, <1>4, <1>5 DEF A, B

(* The visits are a function, and it finds what each is to find.           *)
LEMMA VisitsExact ==
    ASSUME NEW depends, Graph(depends)
    PROVE  /\ \E g : Visits(depends, g)
           /\ \A g : Visits(depends, g) => \A path \in SUBSET Modules : Finds(depends, path, g)
<1> DEFINE h == [path \in SUBSET Modules |-> [c \in Modules |-> [visited \in SUBSET Modules |->
                    FoundOne(depends, path, visited, c)]]]
<1>1. Visits(depends, h)
  <2>1. \A path \in SUBSET Modules : Finds(depends, path, h)
    BY DEF Finds
  <2> HIDE DEF h
  <2>2. ASSUME NEW path \in SUBSET Modules, NEW c \in Modules, NEW visited \in SUBSET Modules
        PROVE  FoundOne(depends, path, visited, c) = Visit(depends, h, path, c, visited)
    <3>1. With(path, c) \in SUBSET Modules
      BY DEF With
    <3>2. Finds(depends, With(path, c), h)
      BY <2>1, <3>1
    <3> QED  BY <3>2, VisitFinds
  <2>3. h = [path \in SUBSET Modules |-> [c \in Modules |-> [visited \in SUBSET Modules |->
                    FoundOne(depends, path, visited, c)]]]
    BY DEF h
  <2> QED  BY <2>2, <2>3, Zenon DEF Visits
<1>2. SUFFICES ASSUME NEW g, Visits(depends, g)
               PROVE  \A path \in SUBSET Modules : Finds(depends, path, g)
  BY <1>1
<1> DEFINE Wrong == {path \in SUBSET Modules : ~Finds(depends, path, g)}
           Bad == {Cardinality(Modules \ path) : path \in Wrong}
<1>3. SUFFICES ASSUME Wrong # {} PROVE FALSE
  OBVIOUS
<1>4. Bad \in SUBSET Nat /\ Bad # {}
  <2>1. ASSUME NEW path \in SUBSET Modules PROVE Cardinality(Modules \ path) \in Nat
    <3>1. IsFiniteSet(Modules \ path)
      BY Indices, FS_Subset
    <3> QED  BY <3>1, FS_CardinalityType
  <2> QED  BY <1>3, <2>1
<1>5. PICK n \in Bad : \A m \in Bad : n <= m
  BY <1>4, LeastNumber
<1>6. PICK path \in Wrong : n = Cardinality(Modules \ path)
  OBVIOUS
<1>7. PICK c \in Modules, visited \in SUBSET Modules : g[path][c][visited] # FoundOne(depends, path, visited, c)
  BY <1>6 DEF Finds
<1>8. path \in SUBSET Modules
  BY <1>6
<1>9. g[path][c][visited] = Visit(depends, g, path, c, visited)
  <2>1. g[path] = [cc \in Modules |-> [v \in SUBSET Modules |-> Visit(depends, g, path, cc, v)]]
    BY <1>2, <1>8, Zenon DEF Visits
  <2>2. g[path][c] = [v \in SUBSET Modules |-> Visit(depends, g, path, c, v)]
    BY <1>7, <2>1, Zenon
  <2> QED  BY <1>7, <2>2, Zenon
<1>10. ASSUME c \notin path PROVE Finds(depends, With(path, c), g)
  <2>1. /\ With(path, c) \in SUBSET Modules
        /\ Cardinality(Modules \ path) \in Nat /\ Cardinality(Modules \ With(path, c)) \in Nat
        /\ Cardinality(Modules \ With(path, c)) < Cardinality(Modules \ path)
    BY <1>8, <1>10, LongerPath
  <2>2. SUFFICES ASSUME With(path, c) \in Wrong PROVE FALSE
    BY <2>1
  <2>3. Cardinality(Modules \ With(path, c)) \in Bad
    BY <2>2
  <2>4. n <= Cardinality(Modules \ With(path, c))
    BY <1>5, <2>3
  <2> QED  BY <1>6, <2>1, <2>4
<1> QED  BY <1>7, <1>8, <1>9, <1>10, VisitFinds

(* It accepts the graphs that are right.                                   *)
LEMMA ValidatedExact ==
    ASSUME NEW depends, Graph(depends)
    PROVE  Validated(depends) <=> Acyclic(depends)
<1> DEFINE g == CHOOSE g : Visits(depends, g)
           Loops(f) == f = [s \in SUBSET (DOMAIN Order) |->
                               IF s = {} THEN Visited({})
                               ELSE LET r == f[s \ {Max(s)}]
                                    IN  IF r = Failed THEN Failed ELSE g[{}][Order[Max(s)]][r.visited]]
           f == CHOOSE f : Loops(f)
<1>1. Validated(depends) <=> f[DOMAIN Order] # Failed
  BY Zenon DEF Validated, Visits, Visit, FoldLeft, MapThenFoldSet
<1>2. Visits(depends, g) /\ \A path \in SUBSET Modules : Finds(depends, path, g)
  BY VisitsExact, Zenon
<1> HIDE DEF g
<1>3. ASSUME NEW s \in SUBSET (DOMAIN Order), s # {}
      PROVE  Order[Max(s)] \in Modules
  <2>1. Max(s) \in s
    BY <1>3, Indices, LastIndex DEF IsSequence
  <2> QED  BY <1>3, <2>1, Indices
<1>4. ASSUME NEW e PROVE Loops(e) <=> Folds({}, {}, Order, g, e)
  BY <1>3, Zenon DEF Folds
<1>5. {} \in SUBSET Modules
  OBVIOUS
<1>6. /\ \E e : Folds({}, {}, Order, g, e)
      /\ \A e : Folds({}, {}, Order, g, e) => e[DOMAIN Order] = Found(depends, {}, {}, ToSet(Order))
  <2> DEFINE N == {}
  <2>1. N \in SUBSET Modules
    OBVIOUS
  <2> HIDE DEF N
  <2>2. Finds(depends, N, g)
    BY <1>2, <2>1
  <2>3. IsSequence(Order)
    BY Indices DEF IsSequence
  <2>4. LoopFinds(depends, N, N, Order, g)
    BY <2>1, <2>2, <2>3, FoldFinds
  <2> QED  BY <2>4, Zenon DEF N, LoopFinds
<1>7. Loops(f)
  <2> HIDE DEF Loops
  <2> QED  BY <1>4, <1>6, Zenon
<1> HIDE DEF f, Loops
<1>8. f[DOMAIN Order] = Found(depends, {}, {}, Modules)
  BY <1>4, <1>6, <1>7 DEF Modules
<1>9. Found(depends, {}, {}, Modules) = Failed <=> \E c \in Modules : Refused(depends, {}, {}, c)
  <2>1. Failed # Visited(Reached(depends, {}, Modules))
    <3> DEFINE R == Reached(depends, {}, Modules)
    <3> HIDE DEF R
    <3>1. Failed # Visited(R)
      BY DEF Failed, Visited
    <3> QED  BY <3>1 DEF R
  <2> QED  BY <2>1, Zenon DEF Found
<1>10. (\E c \in Modules : Refused(depends, {}, {}, c)) <=> ~Acyclic(depends)
  BY DEF Refused, Acyclic
<1> QED  BY <1>1, <1>8, <1>9, <1>10

-----------------------------------------------------------------------------
(* validate_module_dependencies of CMake: what one visit does, if the      *)
(* visits it makes are those of g, and that these are right.               *)
CMakeVisit(depends, g, path, c) ==
    /\ c \notin path
    /\ \A d \in ToSet(depends[c]) : d \in Modules /\ g[path \union {c}][d]
CMakeVisits(depends, g) ==
    g = [path \in SUBSET Modules |-> [c \in Modules |-> CMakeVisit(depends, g, path, c)]]
Agrees(depends, path, g) == \A d \in Modules : g[path][d] <=> ~Refused(depends, path, {}, d)

(* A visit is right if the visits that it makes are.                       *)
LEMMA CMakeVisitRight ==
    ASSUME NEW depends, NEW path \in SUBSET Modules, NEW c \in Modules,
           NEW g, c \notin path => Agrees(depends, With(path, c), g)
    PROVE  CMakeVisit(depends, g, path, c) <=> ~Refused(depends, path, {}, c)
<1> DEFINE N == {}
<1>1. N \in SUBSET Modules /\ c \notin N /\ N = {}
  OBVIOUS
<1> HIDE DEF N
<1>2. CASE c \in path
  <2>1. Refused(depends, path, N, c)
    BY <1>1, <1>2, RefusedAtOnce
  <2> QED  BY <1>1, <1>2, <2>1 DEF CMakeVisit
<1>3. CASE c \notin path
  <2>1. Refused(depends, path, N, c) <=> Blocked(depends, path, N, c)
    BY <1>1, <1>3, RefusedStep
  <2>2. \A d \in Modules : g[path \union {c}][d] <=> ~Refused(depends, With(path, c), {}, d)
    BY <1>3 DEF Agrees, With
  <2>3. CMakeVisit(depends, g, path, c) <=>
          \A d \in ToSet(depends[c]) : d \in Modules /\ ~Refused(depends, With(path, c), {}, d)
    BY <1>3, <2>2, Zenon DEF CMakeVisit
  <2>4. Blocked(depends, path, N, c) <=>
          \E d \in ToSet(depends[c]) : d \notin Modules \/ Refused(depends, With(path, c), {}, d)
    BY <1>1, Zenon DEF Blocked
  <2> QED  BY <1>1, <2>1, <2>3, <2>4
<1> QED  BY <1>2, <1>3

(* The visits are a function, and all are right.                           *)
LEMMA CMakeVisitsExact ==
    ASSUME NEW depends
    PROVE  /\ \E g : CMakeVisits(depends, g)
           /\ \A g : CMakeVisits(depends, g) => \A path \in SUBSET Modules : Agrees(depends, path, g)
<1> DEFINE h == [path \in SUBSET Modules |-> [c \in Modules |-> ~Refused(depends, path, {}, c)]]
<1>1. CMakeVisits(depends, h)
  <2>1. \A path \in SUBSET Modules : Agrees(depends, path, h)
    BY DEF Agrees
  <2> HIDE DEF h
  <2>2. ASSUME NEW path \in SUBSET Modules, NEW c \in Modules
        PROVE  (~Refused(depends, path, {}, c)) = CMakeVisit(depends, h, path, c)
    <3>1. With(path, c) \in SUBSET Modules
      BY DEF With
    <3>2. Agrees(depends, With(path, c), h)
      BY <2>1, <3>1
    <3>3. CMakeVisit(depends, h, path, c) <=> ~Refused(depends, path, {}, c)
      BY <3>2, CMakeVisitRight
    <3>4. CMakeVisit(depends, h, path, c) \in BOOLEAN
      BY DEF CMakeVisit
    <3> QED  BY <3>3, <3>4
  <2>3. h = [path \in SUBSET Modules |-> [c \in Modules |-> ~Refused(depends, path, {}, c)]]
    BY DEF h
  <2> QED  BY <2>2, <2>3, Zenon DEF CMakeVisits
<1>2. SUFFICES ASSUME NEW g, CMakeVisits(depends, g)
               PROVE  \A path \in SUBSET Modules : Agrees(depends, path, g)
  BY <1>1
<1> HIDE DEF h
<1> DEFINE Wrong == {path \in SUBSET Modules : ~Agrees(depends, path, g)}
           Bad == {Cardinality(Modules \ path) : path \in Wrong}
<1>3. SUFFICES ASSUME Wrong # {} PROVE FALSE
  OBVIOUS
<1>4. Bad \in SUBSET Nat /\ Bad # {}
  <2>1. ASSUME NEW path \in SUBSET Modules PROVE Cardinality(Modules \ path) \in Nat
    <3>1. IsFiniteSet(Modules \ path)
      BY Indices, FS_Subset
    <3> QED  BY <3>1, FS_CardinalityType
  <2> QED  BY <1>3, <2>1
<1>5. PICK n \in Bad : \A m \in Bad : n <= m
  BY <1>4, LeastNumber
<1>6. PICK path \in Wrong : n = Cardinality(Modules \ path)
  OBVIOUS
<1>7. PICK c \in Modules : ~(g[path][c] <=> ~Refused(depends, path, {}, c))
  BY <1>6 DEF Agrees
<1>8. path \in SUBSET Modules
  BY <1>6
<1>9. g[path][c] <=> CMakeVisit(depends, g, path, c)
  <2>1. g[path] = [e \in Modules |-> CMakeVisit(depends, g, path, e)]
    BY <1>2, <1>8, Zenon DEF CMakeVisits
  <2> QED  BY <1>7, <2>1, Zenon
<1>10. ASSUME c \notin path PROVE Agrees(depends, With(path, c), g)
  <2>1. /\ With(path, c) \in SUBSET Modules
        /\ Cardinality(Modules \ path) \in Nat /\ Cardinality(Modules \ With(path, c)) \in Nat
        /\ Cardinality(Modules \ With(path, c)) < Cardinality(Modules \ path)
    BY <1>8, <1>10, LongerPath
  <2>2. SUFFICES ASSUME With(path, c) \in Wrong PROVE FALSE
    BY <2>1
  <2>3. Cardinality(Modules \ With(path, c)) \in Bad
    BY <2>2
  <2>4. n <= Cardinality(Modules \ With(path, c))
    BY <1>5, <2>3
  <2> QED  BY <1>6, <2>1, <2>4
<1>11. CMakeVisit(depends, g, path, c) <=> ~Refused(depends, path, {}, c)
  BY <1>8, <1>10, CMakeVisitRight
<1> QED  BY <1>7, <1>9, <1>11

(* It accepts the graphs that are right.                                   *)
LEMMA CMakeValidatedExact ==
    ASSUME NEW depends
    PROVE  CMakeValidated(depends) <=> Acyclic(depends)
<1> DEFINE g == CHOOSE g : CMakeVisits(depends, g)
<1>1. CMakeValidated(depends) <=> \A c \in Modules : g[{}][c]
  BY Zenon DEF CMakeValidated, CMakeVisits, CMakeVisit
<1>2. \A path \in SUBSET Modules : Agrees(depends, path, g)
  BY CMakeVisitsExact, Zenon
<1> HIDE DEF g
<1>3. \A c \in Modules : g[{}][c] <=> ~Refused(depends, {}, {}, c)
  BY <1>2 DEF Agrees
<1>4. (\E c \in Modules : Refused(depends, {}, {}, c)) <=> ~Acyclic(depends)
  BY DEF Refused, Acyclic
<1> QED  BY <1>1, <1>3, <1>4

-----------------------------------------------------------------------------
(* What c leads to, if nothing is unknown.                                 *)
Known(depends) == \A x \in Modules : ToSet(depends[x]) \subseteq Modules
Leads(depends, c) == Reached(depends, {}, ToSet(depends[c]))
Steps(depends, c, k, g) ==
    g = [n \in 0..k |->
            IF n = 0 THEN ToSet(depends[c])
            ELSE g[n - 1] \union UNION {ToSet(depends[d]) : d \in g[n - 1] \intersect Modules}]

(* The steps of Ancestors are a function.                                  *)
LEMMA StepsExist ==
    ASSUME NEW depends, NEW c, NEW k \in Nat
    PROVE  \E g : Steps(depends, c, k, g)
<1> DEFINE Bad == {n \in Nat : ~\E g : Steps(depends, c, n, g)}
           Further(S) == S \union UNION {ToSet(depends[d]) : d \in S \intersect Modules}
<1>1. SUFFICES ASSUME Bad # {} PROVE FALSE
  OBVIOUS
<1>2. PICK n \in Bad : \A m \in Bad : n <= m
  BY <1>1, LeastNumber
<1>3. CASE n = 0
  <2> DEFINE h == [i \in 0..0 |-> ToSet(depends[c])]
  <2>1. \A i \in 0..0 : i = 0
    OBVIOUS
  <2>2. Steps(depends, c, 0, h)
    BY <2>1, Zenon DEF Steps
  <2> QED  BY <1>2, <1>3, <2>2
<1>4. CASE n # 0
  <2>1. n - 1 \in Nat /\ n - 1 \notin Bad
    BY <1>2, <1>4
  <2>2. PICK g : Steps(depends, c, n - 1, g)
    BY <2>1
  <2> DEFINE h == [i \in 0..n |-> IF i = n THEN Further(g[n - 1]) ELSE g[i]]
  <2>3. ASSUME NEW i \in 0..n
        PROVE  h[i] = IF i = 0 THEN ToSet(depends[c]) ELSE Further(h[i - 1])
    <3>1. CASE i = n
      <4>1. n - 1 \in 0..n /\ n - 1 # n
        BY <1>2, <1>4
      <4>2. h[n - 1] = g[n - 1] /\ h[n] = Further(g[n - 1])
        BY <4>1, <3>1
      <4> HIDE DEF h, Further
      <4> QED  BY <1>4, <3>1, <4>2
    <3>2. CASE i # n
      <4>1. i \in 0..(n - 1) /\ (i # 0 => i - 1 \in 0..n /\ i - 1 # n)
        BY <1>2, <3>2
      <4>2. h[i] = g[i] /\ (i # 0 => h[i - 1] = g[i - 1])
        BY <3>2, <4>1
      <4>3. g[i] = IF i = 0 THEN ToSet(depends[c]) ELSE Further(g[i - 1])
        BY <2>2, <4>1, Zenon DEF Steps
      <4> HIDE DEF h, Further
      <4> QED  BY <4>2, <4>3
    <3> QED  BY <3>1, <3>2
  <2>4. Steps(depends, c, n, h)
    <3>1. h = [i \in 0..n |-> h[i]]
      BY Zenon
    <3> HIDE DEF h
    <3> QED  BY <2>3, <3>1, Zenon DEF Steps
  <2> QED  BY <1>2, <2>4
<1> QED  BY <1>3, <1>4

(* There are no more modules than Order has indices.                       *)
LEMMA ModulesBounded ==
    IsFiniteSet(Modules) /\ Cardinality(Modules) \in Nat /\ Cardinality(Modules) <= Len(Order)
<1>1. Order \in Surjection(1..Len(Order), Modules)
  <2>1. \A c : c \in Modules <=> \E i \in DOMAIN Order : Order[i] = c
    BY DEF Modules, ToSet
  <2> QED  BY <2>1, Indices DEF Surjection
<1>2. IsFiniteSet(1..Len(Order)) /\ Cardinality(1..Len(Order)) = Len(Order)
  BY Indices, FS_Interval
<1>3. Cardinality(Modules) <= Cardinality(1..Len(Order))
  BY <1>1, <1>2, FS_Surjection
<1> QED  BY <1>2, <1>3, Indices, FS_CardinalityType

(* The steps of Ancestors reach all that c leads to: as long as one does   *)
(* not, it has reached more modules than the one before, and there are     *)
(* only as many as Order is long.                                          *)
LEMMA AncestorsExact ==
    ASSUME NEW depends, NEW c \in Modules, Known(depends)
    PROVE  Ancestors(depends, c) = Leads(depends, c)
<1> DEFINE g == CHOOSE g : Steps(depends, c, Len(Order), g)
           D == ToSet(depends[c])
           Further(S) == S \union UNION {ToSet(depends[d]) : d \in S \intersect Modules}
           L == Len(Order)
<1>1. Ancestors(depends, c) = g[Len(Order)]
  BY Zenon DEF Ancestors, Steps
<1>2. Steps(depends, c, L, g)
  BY StepsExist, Indices, Zenon
<1>3. L \in Nat
  BY Indices
<1> HIDE DEF g, L
<1>4. ASSUME NEW n \in 0..L PROVE g[n] = IF n = 0 THEN D ELSE Further(g[n - 1])
  BY <1>2, Zenon DEF Steps
<1>5. D \in SUBSET Modules
  BY DEF Known
<1>6. ASSUME NEW S \in SUBSET Modules, D \subseteq S, Spread(depends, {}, S), NEW k \in 0..L
      PROVE  g[k] \subseteq S
  <2> DEFINE Bad == {n \in 0..L : ~(g[n] \subseteq S)}
  <2>1. SUFFICES ASSUME Bad # {} PROVE FALSE
    OBVIOUS
  <2>2. Bad \in SUBSET Nat
    BY <1>3
  <2>3. PICK n \in Bad : \A m \in Bad : n <= m
    BY <2>1, <2>2, LeastNumber
  <2>4. n \in 0..L /\ ~(g[n] \subseteq S)
    BY <2>3
  <2>5. n # 0
    BY <1>4, <1>6, <2>4
  <2>6. n - 1 \in 0..L /\ ~(n <= n - 1)
    BY <1>3, <2>4, <2>5
  <2>7. g[n - 1] \subseteq S
    BY <2>3, <2>6
  <2>8. \A d \in S : ToSet(depends[d]) \subseteq S
    BY <1>6 DEF Spread, Known
  <2>9. Further(g[n - 1]) \subseteq S
    BY <2>7, <2>8
  <2>10. g[n] = Further(g[n - 1])
    BY <1>4, <2>4, <2>5
  <2> HIDE DEF Further
  <2> QED  BY <2>4, <2>9, <2>10
<1>7. ASSUME NEW k \in 0..L PROVE g[k] \in SUBSET Modules
  <2>1. Spread(depends, {}, Modules)
    BY DEF Spread
  <2> QED  BY <1>5, <1>6, <2>1
<1>8. ASSUME NEW k \in 0..L PROVE D \subseteq g[k]
  <2> DEFINE Bad == {n \in 0..L : ~(D \subseteq g[n])}
  <2>1. SUFFICES ASSUME Bad # {} PROVE FALSE
    OBVIOUS
  <2>2. Bad \in SUBSET Nat
    BY <1>3
  <2>3. PICK n \in Bad : \A m \in Bad : n <= m
    BY <2>1, <2>2, LeastNumber
  <2>4. n \in 0..L /\ ~(D \subseteq g[n])
    BY <2>3
  <2>5. n # 0
    BY <1>4, <2>4
  <2>6. n - 1 \in 0..L /\ ~(n <= n - 1)
    BY <1>3, <2>4, <2>5
  <2>7. D \subseteq g[n - 1]
    BY <2>3, <2>6
  <2>8. g[n] = Further(g[n - 1]) /\ g[n - 1] \subseteq Further(g[n - 1])
    BY <1>4, <2>4, <2>5
  <2> HIDE DEF Further, D
  <2> QED  BY <2>4, <2>7, <2>8
<1>9. ASSUME NEW k \in 0..L, ~Spread(depends, {}, g[k])
      PROVE  k + 1 <= Cardinality(g[k])
  <2> DEFINE Bad == {n \in 0..L : ~Spread(depends, {}, g[n]) /\ ~(n + 1 <= Cardinality(g[n]))}
  <2>1. SUFFICES ASSUME Bad # {} PROVE FALSE
    BY <1>9
  <2>2. Bad \in SUBSET Nat
    BY <1>3
  <2>3. PICK n \in Bad : \A m \in Bad : n <= m
    BY <2>1, <2>2, LeastNumber
  <2>4. n \in 0..L /\ ~Spread(depends, {}, g[n]) /\ ~(n + 1 <= Cardinality(g[n]))
    BY <2>3
  <2>5. \A m \in 0..L : IsFiniteSet(g[m]) /\ Cardinality(g[m]) \in Nat
    BY <1>7, ModulesBounded, FS_Subset, FS_CardinalityType
  <2>6. n # 0
    <3>1. SUFFICES ASSUME n = 0 PROVE FALSE
      OBVIOUS
    <3>2. g[0] # {}
      BY <2>4, <3>1 DEF Spread
    <3>3. Cardinality(g[0]) # 0
      BY <2>4, <2>5, <3>1, <3>2, FS_EmptySet
    <3> QED  BY <2>4, <2>5, <3>1, <3>3
  <2>7. n - 1 \in 0..L /\ ~(n <= n - 1)
    BY <1>3, <2>4, <2>6
  <2>8. g[n] = Further(g[n - 1])
    BY <1>4, <2>4, <2>6
  <2>9. g[n - 1] \in SUBSET Modules
    BY <1>7, <2>7
  <2>10. ~Spread(depends, {}, g[n - 1])
    <3>1. SUFFICES ASSUME Spread(depends, {}, g[n - 1]) PROVE FALSE
      OBVIOUS
    <3>2. \A d \in g[n - 1] : ToSet(depends[d]) \subseteq g[n - 1]
      BY <2>9, <3>1 DEF Spread, Known
    <3>3. Further(g[n - 1]) = g[n - 1]
      BY <3>2
    <3> QED  BY <2>4, <2>8, <3>1, <3>3
  <2>11. g[n - 1] \subseteq g[n] /\ g[n - 1] # g[n]
    <3>1. PICK x \in g[n - 1] : ~(ToSet(depends[x]) \intersect Modules \subseteq g[n - 1])
      BY <2>10 DEF Spread
    <3>2. PICK e \in ToSet(depends[x]) : e \notin g[n - 1]
      BY <3>1
    <3>3. e \in Further(g[n - 1])
      BY <2>9, <3>1, <3>2
    <3>4. g[n - 1] \subseteq Further(g[n - 1])
      OBVIOUS
    <3> HIDE DEF Further
    <3> QED  BY <2>8, <3>2, <3>3, <3>4
  <2>12. Cardinality(g[n - 1]) < Cardinality(g[n])
    <3> DEFINE A == g[n - 1]
               B == g[n]
    <3>1. IsFiniteSet(B) /\ A \subseteq B /\ A # B /\ Cardinality(A) \in Nat /\ Cardinality(B) \in Nat
      BY <2>4, <2>5, <2>7, <2>11
    <3> HIDE DEF A, B
    <3>2. Cardinality(A) <= Cardinality(B) /\ Cardinality(A) # Cardinality(B)
      BY <3>1, FS_Subset
    <3>3. Cardinality(A) < Cardinality(B)
      BY <3>1, <3>2
    <3> QED  BY <3>3 DEF A, B
  <2>13. n - 1 + 1 <= Cardinality(g[n - 1])
    <3>1. n - 1 \notin Bad
      <4> HIDE DEF Bad
      <4> QED  BY <2>3, <2>7
    <3> QED  BY <2>7, <2>10, <3>1
  <2> HIDE DEF Bad
  <2> QED  BY <2>4, <2>5, <2>7, <2>12, <2>13
<1>10. L \in 0..L
  BY <1>3
<1>11. Spread(depends, {}, g[L])
  <2>1. SUFFICES ASSUME ~Spread(depends, {}, g[L]) PROVE FALSE
    OBVIOUS
  <2>2. L + 1 <= Cardinality(g[L])
    BY <1>9, <1>10, <2>1
  <2>3. g[L] \in SUBSET Modules
    BY <1>7, <1>10
  <2>4. IsFiniteSet(g[L]) /\ Cardinality(g[L]) <= Cardinality(Modules) /\ Cardinality(g[L]) \in Nat
    BY <2>3, ModulesBounded, FS_Subset, FS_CardinalityType
  <2> QED  BY <1>3, <2>2, <2>4, ModulesBounded DEF L
<1>12. Leads(depends, c) \subseteq g[L]
  <2> DEFINE N == {}
             G == g[L]
  <2>1. N \in SUBSET Modules /\ N \subseteq G /\ G \in SUBSET Modules /\ D \subseteq G /\ Spread(depends, N, G)
    BY <1>7, <1>8, <1>10, <1>11
  <2> HIDE DEF N, D, G
  <2>2. Reached(depends, N, D) \subseteq G
    BY <1>5, <2>1, ReachedLeast
  <2> QED  BY <2>2 DEF Leads, N, D, G
<1>13. g[L] \subseteq Leads(depends, c)
  <2> DEFINE N == {}
  <2>1. N \in SUBSET Modules
    OBVIOUS
  <2> HIDE DEF N, D
  <2>2. /\ Reached(depends, N, D) \in SUBSET Modules /\ D \subseteq Reached(depends, N, D)
        /\ Spread(depends, N, Reached(depends, N, D))
    BY <1>5, <2>1, ReachedLeast
  <2>3. /\ Leads(depends, c) \in SUBSET Modules /\ D \subseteq Leads(depends, c)
        /\ Spread(depends, {}, Leads(depends, c))
    BY <2>2 DEF N, Leads, D
  <2> QED  BY <1>6, <1>10, <2>3
<1> QED  BY <1>1, <1>12, <1>13 DEF L

(* What c leads to: what it depends on, and what that leads to.            *)
LEMMA LeadsOn ==
    ASSUME NEW depends, Known(depends)
    PROVE  /\ \A c \in Modules :
                Leads(depends, c) \in SUBSET Modules /\ ToSet(depends[c]) \subseteq Leads(depends, c)
           /\ \A c \in Modules : \A d \in Leads(depends, c) : Leads(depends, d) \subseteq Leads(depends, c)
           /\ \A c \in Modules : \A S \in SUBSET Modules :
                (ToSet(depends[c]) \subseteq S /\ \A x \in S : ToSet(depends[x]) \subseteq S)
                  => Leads(depends, c) \subseteq S
<1> DEFINE N == {}
<1>1. N \in SUBSET Modules /\ N = {}
  OBVIOUS
<1> HIDE DEF N
<1>2. ASSUME NEW c \in Modules
      PROVE  /\ Leads(depends, c) \in SUBSET Modules /\ ToSet(depends[c]) \subseteq Leads(depends, c)
             /\ \A x \in Leads(depends, c) : ToSet(depends[x]) \subseteq Leads(depends, c)
  <2> DEFINE D == ToSet(depends[c])
             R == Reached(depends, N, D)
  <2>1. D \in SUBSET Modules
    BY DEF Known
  <2> HIDE DEF D
  <2>2. R \in SUBSET Modules /\ D \subseteq R /\ Spread(depends, N, R)
    BY <1>1, <2>1, ReachedLeast
  <2>3. R = Leads(depends, c)
    BY <1>1 DEF Leads, D
  <2> HIDE DEF R
  <2>4. \A x \in R : ToSet(depends[x]) \subseteq R
    BY <1>1, <2>2 DEF Spread, Known
  <2> QED  BY <2>2, <2>3, <2>4 DEF D
<1>3. ASSUME NEW c \in Modules, NEW S \in SUBSET Modules,
             ToSet(depends[c]) \subseteq S, \A x \in S : ToSet(depends[x]) \subseteq S
      PROVE  Leads(depends, c) \subseteq S
  <2> DEFINE D == ToSet(depends[c])
  <2>1. D \in SUBSET Modules /\ D \subseteq S /\ N \subseteq S
    BY <1>1, <1>3
  <2>2. Spread(depends, N, S)
    BY <1>3 DEF Spread
  <2> HIDE DEF D
  <2>3. Reached(depends, N, D) \subseteq S
    BY <1>1, <2>1, <2>2, ReachedLeast
  <2> QED  BY <1>1, <2>3 DEF Leads, D
<1>4. ASSUME NEW c \in Modules, NEW d \in Leads(depends, c) PROVE Leads(depends, d) \subseteq Leads(depends, c)
  <2>1. Leads(depends, c) \in SUBSET Modules /\ ToSet(depends[d]) \subseteq Leads(depends, c)
    BY <1>2
  <2>2. d \in Modules
    BY <2>1
  <2> QED  BY <1>2, <1>3, <2>1, <2>2
<1> QED  BY <1>2, <1>3, <1>4

(* A graph is right when nothing is unknown and nothing leads to itself.   *)
LEMMA AcyclicExact ==
    ASSUME NEW depends
    PROVE  Acyclic(depends) <=> \A c \in Modules : Ancestors(depends, c) \subseteq Modules \ {c}
<1>1. ASSUME ~Known(depends)
      PROVE  ~Acyclic(depends) /\ ~\A c \in Modules : Ancestors(depends, c) \subseteq Modules \ {c}
  <2>1. PICK x \in Modules : ~(ToSet(depends[x]) \subseteq Modules)
    BY <1>1 DEF Known
  <2> DEFINE G == {x}
  <2>2. G \in SUBSET Modules /\ G # {} /\ Stuck(depends, {}, {}, G)
    BY <2>1 DEF Stuck
  <2>3. ~Acyclic(depends)
    <3> HIDE DEF G
    <3> QED  BY <2>2 DEF Acyclic
  <2>4. ToSet(depends[x]) \subseteq Ancestors(depends, x)
    <3> DEFINE g == CHOOSE g : Steps(depends, x, Len(Order), g)
               D == ToSet(depends[x])
               L == Len(Order)
    <3>1. Ancestors(depends, x) = g[L]
      BY Zenon DEF Ancestors, Steps
    <3>2. Steps(depends, x, L, g) /\ L \in Nat
      BY StepsExist, Indices, Zenon
    <3> HIDE DEF g, L
    <3>3. ASSUME NEW n \in 0..L
          PROVE  g[n] = IF n = 0 THEN D
                        ELSE g[n - 1] \union UNION {ToSet(depends[d]) : d \in g[n - 1] \intersect Modules}
      BY <3>2, Zenon DEF Steps
    <3> HIDE DEF D
    <3> DEFINE Bad == {n \in 0..L : ~(D \subseteq g[n])}
    <3>4. Bad = {}
      <4>1. SUFFICES ASSUME Bad # {} PROVE FALSE
        OBVIOUS
      <4>2. Bad \in SUBSET Nat
        BY <3>2
      <4>3. PICK n \in Bad : \A m \in Bad : n <= m
        BY <4>1, <4>2, LeastNumber
      <4>4. n \in 0..L /\ ~(D \subseteq g[n])
        BY <4>3
      <4>5. n # 0
        BY <3>3, <4>4
      <4>6. n - 1 \in 0..L /\ ~(n <= n - 1)
        BY <3>2, <4>4, <4>5
      <4>7. D \subseteq g[n - 1]
        BY <4>3, <4>6
      <4>8. g[n - 1] \subseteq g[n]
        BY <3>3, <4>4, <4>5
      <4> QED  BY <4>4, <4>7, <4>8
    <3>5. D \subseteq g[L]
      BY <3>2, <3>4
    <3> QED  BY <3>1, <3>5 DEF D
  <2> QED  BY <2>1, <2>3, <2>4
<1>2. ASSUME Known(depends), Acyclic(depends), NEW c \in Modules PROVE c \notin Leads(depends, c)
  <2>1. SUFFICES ASSUME c \in Leads(depends, c) PROVE FALSE
    OBVIOUS
  <2> DEFINE A == {x \in Modules : c \in Leads(depends, x)}
  <2>2. ASSUME NEW x \in A PROVE \E d \in ToSet(depends[x]) : d \in A
    <3>1. SUFFICES ASSUME \A d \in ToSet(depends[x]) : d \notin A PROVE FALSE
      OBVIOUS
    <3> DEFINE S == {y \in Modules : y # c /\ y \notin A}
    <3>2. c \in A
      BY <2>1
    <3>3. ToSet(depends[x]) \subseteq S
      BY <1>2, <3>1, <3>2 DEF Known
    <3>4. ASSUME NEW y \in S, NEW e \in ToSet(depends[y]) PROVE e \in S
      <4>1. e \in Modules /\ e \in Leads(depends, y)
        BY <1>2, <3>4, LeadsOn DEF Known
      <4>2. Leads(depends, e) \subseteq Leads(depends, y)
        BY <1>2, <3>4, <4>1, LeadsOn
      <4> QED  BY <3>4, <4>1, <4>2
    <3>5. Leads(depends, x) \subseteq S
      <4>1. S \in SUBSET Modules /\ x \in Modules /\ \A y \in S : ToSet(depends[y]) \subseteq S
        BY <3>4
      <4> HIDE DEF S
      <4> QED  BY <1>2, <3>3, <4>1, LeadsOn
    <3> QED  BY <3>5
  <2>3. Stuck(depends, {}, {}, A)
    BY <2>2 DEF Stuck
  <2>4. A \in SUBSET Modules /\ c \in A
    BY <2>1
  <2> HIDE DEF A
  <2> QED  BY <1>2, <2>3, <2>4 DEF Acyclic
<1>3. ASSUME Known(depends), ~Acyclic(depends) PROVE \E c \in Modules : c \in Leads(depends, c)
  <2>1. SUFFICES ASSUME \A c \in Modules : c \notin Leads(depends, c) PROVE FALSE
    OBVIOUS
  <2>2. PICK G \in SUBSET Modules : G # {} /\ Stuck(depends, {}, {}, G)
    BY <1>3 DEF Acyclic
  <2> DEFINE Sizes == {Cardinality(Leads(depends, x)) : x \in G}
  <2>3. \A x \in Modules : IsFiniteSet(Leads(depends, x)) /\ Cardinality(Leads(depends, x)) \in Nat
    BY <1>3, LeadsOn, Indices, FS_Subset, FS_CardinalityType
  <2>4. Sizes \in SUBSET Nat /\ Sizes # {}
    BY <2>2, <2>3
  <2>5. PICK n \in Sizes : \A m \in Sizes : n <= m
    BY <2>4, LeastNumber
  <2>6. PICK x \in G : n = Cardinality(Leads(depends, x))
    BY <2>5
  <2>7. PICK y \in ToSet(depends[x]) : y \in G
    BY <1>3, <2>2 DEF Stuck, Known
  <2>8. x \in Modules /\ y \in Modules /\ y \in Leads(depends, x)
    BY <1>3, <2>6, <2>7, LeadsOn
  <2> DEFINE X == Leads(depends, x)
             Y == Leads(depends, y)
  <2>9. Y \subseteq X /\ Y # X
    BY <1>3, <2>1, <2>8, LeadsOn
  <2>10. IsFiniteSet(X) /\ Cardinality(X) \in Nat /\ Cardinality(Y) \in Nat
    BY <2>3, <2>8
  <2>11. Cardinality(Y) \in Sizes
    BY <2>7
  <2>12. n <= Cardinality(Y)
    BY <2>5, <2>11
  <2>13. n = Cardinality(X)
    BY <2>6
  <2> HIDE DEF X, Y, Sizes
  <2>14. Cardinality(Y) <= Cardinality(X) /\ Cardinality(Y) # Cardinality(X)
    BY <2>9, <2>10, FS_Subset
  <2> QED  BY <2>10, <2>12, <2>13, <2>14
<1>4. ASSUME Known(depends), NEW c \in Modules
      PROVE  Ancestors(depends, c) = Leads(depends, c) /\ Leads(depends, c) \in SUBSET Modules
  BY <1>4, AncestorsExact, LeadsOn
<1> QED  BY <1>1, <1>2, <1>3, <1>4

-----------------------------------------------------------------------------
(* The inductive invariant.  What the tool writes is what it has enabled,  *)
(* and that builds.                                                        *)
Shown == {c \in Modules : file[c] = "y"}

WritesClosed   == tool \in {"write", "replace"} => Closed(manifests.depends, enabled)
AsksOnlyIfDirty == tool = "confirm" => dirty
SavedClosed ==
    saved => file \in [Modules -> {"y", "n"}] /\ Closed(manifests.depends, Shown)
ShowsSaved == saved /\ tool = "menu" /\ ~dirty => enabled = Shown

Invariant == TypeOK /\ WritesClosed /\ AsksOnlyIfDirty /\ SavedClosed /\ ShowsSaved

(* normalize_dependencies leaves a set in which every dependency is met,   *)
(* and such a set as it is.                                                *)
LEMMA NormalizeExact ==
    ASSUME NEW E \in SUBSET Modules
    PROVE  /\ Normalize(E) \subseteq Modules
           /\ Closed(manifests.depends, Normalize(E))
           /\ Closed(manifests.depends, E) => Normalize(E) = E
<1>1. Normalize(E) = Greatest(manifests.depends, E)
  BY RepeatExact, Zenon DEF Normalize
<1> QED  BY <1>1, GreatestExact

(* The invariant holds at the start.                                       *)
LEMMA InitInvariant == Init => Invariant
  BY DEF Init, Invariant, TypeOK, WritesClosed, AsksOnlyIfDirty, SavedClosed, ShowsSaved

(* What the menu loads from a .config that the tool has saved is what that *)
(* file says.                                                              *)
LEMMA LoadedExact ==
    ASSUME TypeOK, SavedClosed
    PROVE  Loaded \subseteq Modules /\ (saved => Loaded = Shown)
<1> DEFINE E == {c \in Modules : file[c] = "y" \/ (file[c] = "unset" /\ c \in manifests.default)}
<1>1. E \in SUBSET Modules /\ Loaded = Normalize(E)
  BY Zenon DEF Loaded
<1>2. ASSUME saved PROVE E = Shown
  BY <1>2 DEF SavedClosed, Shown
<1> HIDE DEF E
<1>3. saved => Closed(manifests.depends, Shown)
  BY DEF SavedClosed
<1> QED  BY <1>1, <1>2, <1>3, NormalizeExact

(* save_config, once the temporary file is complete, puts a line for every *)
(* module into .config.                                                    *)
LEMMA ReplaceKeeps ==
    ASSUME Invariant, Replace
    PROVE  Invariant'
<1> USE DEF Invariant
<1>1. tool = "replace" /\ manifests' = manifests /\ enabled' = enabled /\ enabled \subseteq Modules
  BY DEF Replace, MayReplace, TypeOK
<1>2. file' = [c \in Modules |-> IF c \in enabled THEN "y" ELSE "n"]
  <2>1. file' = [c \in Modules |-> IF \A i \in 1..Len(Order) : Order[i] # c THEN "unset"
                                   ELSE IF c \in enabled THEN "y" ELSE "n"]
    BY <1>1 DEF Replace
  <2>2. \A c \in Modules : ~(\A i \in 1..Len(Order) : Order[i] # c)
    BY Indices
  <2> QED  BY <2>1, <2>2
<1>3. Shown' = enabled
  BY <1>1, <1>2 DEF Shown
<1>4. TypeOK'
  BY <1>2 DEF Replace, TypeOK
<1>5. SavedClosed'
  <2>1. file' \in [Modules -> {"y", "n"}]
    BY <1>2
  <2>2. Closed(manifests.depends, enabled)
    BY <1>1 DEF WritesClosed
  <2> QED  BY <1>1, <1>3, <2>1, <2>2 DEF SavedClosed
<1>6. ShowsSaved'
  BY <1>1, <1>3 DEF ShowsSaved
<1>7. tool' \in {"menu", "none"}
  BY DEF Replace, TypeOK
<1> QED  BY <1>4, <1>5, <1>6, <1>7 DEF WritesClosed, AsksOnlyIfDirty

(* Every step keeps the invariant.                                         *)
LEMMA NextInvariant == Invariant /\ [Next]_vars => Invariant'
<1> SUFFICES ASSUME Invariant, [Next]_vars PROVE Invariant'
  OBVIOUS
<1> USE DEF Invariant
<1>1. ASSUME UNCHANGED <<manifests, fileVars>>, TypeOK',
             WritesClosed', AsksOnlyIfDirty', ShowsSaved'
      PROVE  Invariant'
  <2>1. SavedClosed'
    BY <1>1 DEF SavedClosed, Shown, fileVars
  <2> QED  BY <1>1, <2>1
<1>2. manifests \in Manifests /\ enabled \subseteq Modules
  BY DEF TypeOK
<1>3. ASSUME RunWriteDefault PROVE Invariant'
  <2>1. manifests.default \subseteq Modules
    BY <1>2
  <2>2. enabled' = Normalize(manifests.default) /\ enabled' \subseteq Modules
    BY <1>3, <2>1, NormalizeExact DEF RunWriteDefault
  <2>3. Closed(manifests.depends, enabled') /\ manifests' = manifests
    BY <1>3, <2>1, <2>2, NormalizeExact DEF RunWriteDefault
  <2>4. tool' = "write" /\ UNCHANGED <<manifests, fileVars>>
    BY <1>3 DEF RunWriteDefault
  <2>5. TypeOK'
    BY <1>3, <2>2 DEF RunWriteDefault, TypeOK, fileVars
  <2> QED  BY <1>1, <2>3, <2>4, <2>5 DEF WritesClosed, AsksOnlyIfDirty, ShowsSaved
<1>4. ASSUME RunMenu PROVE Invariant'
  <2>1. enabled' = Loaded /\ tool' = "menu" /\ UNCHANGED <<manifests, fileVars>>
    BY <1>4 DEF RunMenu
  <2>2. Loaded \subseteq Modules /\ (saved => Loaded = Shown)
    BY LoadedExact
  <2>3. TypeOK'
    BY <1>4, <2>1, <2>2 DEF RunMenu, TypeOK, fileVars
  <2>4. Shown' = Shown
    BY <2>1 DEF Shown, fileVars
  <2>5. ShowsSaved'
    BY <2>1, <2>2, <2>4 DEF ShowsSaved, fileVars
  <2> QED  BY <1>1, <2>1, <2>3, <2>5 DEF WritesClosed, AsksOnlyIfDirty
<1>5. ASSUME NEW c \in Modules, Toggle(c) PROVE Invariant'
  <2>1. enabled' \subseteq Modules
    <3> DEFINE E == IF c \in enabled THEN enabled \ {c} ELSE enabled \union {c}
    <3>1. E \in SUBSET Modules /\ enabled' = Normalize(E)
      BY <1>2, <1>5 DEF Toggle
    <3> HIDE DEF E
    <3> QED  BY <3>1, NormalizeExact
  <2>2. tool' = "menu" /\ dirty' = TRUE /\ UNCHANGED <<manifests, fileVars>>
    BY <1>5 DEF Toggle
  <2>3. TypeOK'
    BY <1>5, <2>1 DEF Toggle, TypeOK, fileVars
  <2> QED  BY <1>1, <2>2, <2>3 DEF WritesClosed, AsksOnlyIfDirty, ShowsSaved
<1>6. ASSUME Save PROVE Invariant'
  <2>1. enabled' = Normalize(enabled) /\ tool' = "write" /\ UNCHANGED <<manifests, fileVars>>
    BY <1>6 DEF Save
  <2>2. enabled' \subseteq Modules /\ Closed(manifests.depends, enabled')
    BY <1>2, <2>1, NormalizeExact
  <2>3. TypeOK'
    BY <1>6, <2>2 DEF Save, TypeOK, fileVars
  <2> QED  BY <1>1, <2>1, <2>2, <2>3 DEF WritesClosed, AsksOnlyIfDirty, ShowsSaved
<1>7. ASSUME Escape PROVE Invariant'
  <2>1. TypeOK' /\ UNCHANGED <<manifests, fileVars>>
    BY <1>7 DEF Escape, TypeOK, fileVars
  <2>2. tool' \in {"confirm", "none"} /\ (tool' = "confirm" => dirty')
    BY <1>7 DEF Escape
  <2> QED  BY <1>1, <2>1, <2>2 DEF WritesClosed, AsksOnlyIfDirty, ShowsSaved
<1>8. ASSUME OtherKey PROVE Invariant'
  <2>1. TypeOK' /\ UNCHANGED <<manifests, fileVars>>
    BY <1>8 DEF OtherKey, TypeOK, fileVars
  <2>2. tool' = "menu" /\ dirty'
    BY <1>8 DEF OtherKey, AsksOnlyIfDirty
  <2> QED  BY <1>1, <2>1, <2>2 DEF WritesClosed, AsksOnlyIfDirty, ShowsSaved
<1>9. ASSUME WriteTemporary PROVE Invariant'
  <2>1. TypeOK' /\ UNCHANGED <<manifests, fileVars>>
    BY <1>9 DEF WriteTemporary, TypeOK, fileVars
  <2>2. tool = "write" /\ tool' = "replace" /\ enabled' = enabled
    BY <1>9 DEF WriteTemporary
  <2>3. WritesClosed'
    BY <2>1, <2>2 DEF WritesClosed
  <2> QED  BY <1>1, <2>1, <2>2, <2>3 DEF AsksOnlyIfDirty, ShowsSaved
<1>10. ASSUME ToolDies PROVE Invariant'
  <2>1. TypeOK' /\ UNCHANGED <<manifests, fileVars>> /\ tool' = "none"
    BY <1>10 DEF ToolDies, TypeOK, fileVars
  <2> QED  BY <1>1, <2>1 DEF WritesClosed, AsksOnlyIfDirty, ShowsSaved
<1>11. ASSUME Configure PROVE Invariant'
  <2>1. UNCHANGED <<manifests, toolVars, fileVars>>
    BY <1>11 DEF Configure
  <2>2. TypeOK'
    <3>1. cache' \in [Modules -> {"y", "n", "unset"}]
      BY <1>11 DEF Configure, Configured, TypeOK
    <3> QED  BY <2>1, <3>1 DEF TypeOK, toolVars, fileVars
  <2> QED  BY <1>1, <2>1, <2>2 DEF WritesClosed, AsksOnlyIfDirty, ShowsSaved, Shown, toolVars, fileVars
<1>12. CASE UNCHANGED vars
  BY <1>12 DEF vars, toolVars, fileVars, TypeOK, WritesClosed, AsksOnlyIfDirty, SavedClosed, ShowsSaved, Shown
<1> QED  BY <1>3, <1>4, <1>5, <1>6, <1>7, <1>8, <1>9, <1>10, <1>11, <1>12, ReplaceKeeps, Zenon DEF Next

(* The invariant holds always.                                             *)
THEOREM InvariantHolds == Spec => []Invariant
  BY InitInvariant, NextInvariant, PTL DEF Spec

(* The types: among them that the tool enables modules only.               *)
THEOREM TypeCorrect == Spec => []TypeOK
<1>1. Invariant => TypeOK
  BY DEF Invariant
<1> QED  BY <1>1, InvariantHolds, PTL

(* A .config that the tool has saved builds, at every moment, whatever the *)
(* CMake cache holds; and a menu without changes shows it.                 *)
THEOREM SavedConfigurationsBuild == Spec => []SavedConfigBuilds
<1>1. Invariant => SavedConfigBuilds
  <2> SUFFICES ASSUME Invariant, saved
               PROVE  Builds(Configured) /\ (tool = "menu" /\ ~dirty => enabled = Shown)
    BY DEF SavedConfigBuilds, Shown
  <2>1. file \in [Modules -> {"y", "n"}] /\ Closed(manifests.depends, Shown)
    BY DEF Invariant, SavedClosed
  <2>2. \A c \in Modules : Configured[c] = file[c]
    BY <2>1 DEF Configured
  <2>3. ASSUME NEW c \in Modules, Configured[c] = "y", NEW d \in DependsOn(c)
        PROVE  Configured[d] = "y"
    <3>1. c \in Shown
      BY <2>2, <2>3 DEF Shown
    <3>2. d \in Shown
      BY <2>1, <2>3, <3>1 DEF Closed, DependsOn
    <3> QED  BY <2>2, <3>2 DEF Shown
  <2>4. Builds(Configured)
    BY <2>3, Zenon DEF Builds
  <2> QED  BY <2>4 DEF Invariant, ShowsSaved
<1> QED  BY <1>1, InvariantHolds, PTL

(* What the passes of normalize_dependencies leave on is the greatest set  *)
(* in which every dependency is met, whatever was on and whatever the      *)
(* manifests say: the last part of GraphAlgorithmsExact.                   *)
THEOREM PassesExact ==
    \A depends : \A E \in SUBSET Modules :
        Repeat(depends, E) = UNION {F \in SUBSET E : \A c \in F : ToSet(depends[c]) \subseteq F}
  BY RepeatExact, Zenon DEF Greatest, Closed

(* The graph algorithms are right, whatever the manifests declare.         *)
THEOREM GraphAlgorithmsAreExact == Spec => []GraphAlgorithmsExact
<1>1. TypeOK => GraphAlgorithmsExact
  <2> SUFFICES ASSUME TypeOK PROVE GraphAlgorithmsExact
    OBVIOUS
  <2>1. Graph(manifests.depends)
    BY DEF TypeOK, Graph
  <2>2. Validated(manifests.depends) <=> Acyclic(manifests.depends)
    BY <2>1, ValidatedExact
  <2>3. CMakeValidated(manifests.depends) <=> Acyclic(manifests.depends)
    BY CMakeValidatedExact
  <2>4. Acyclic(manifests.depends)
          <=> \A c \in Modules : Ancestors(manifests.depends, c) \subseteq Modules \ {c}
    BY AcyclicExact
  <2>5. \A E \in SUBSET Modules :
          Repeat(manifests.depends, E)
            = UNION {F \in SUBSET E : \A c \in F : ToSet(manifests.depends[c]) \subseteq F}
    BY PassesExact, Zenon
  <2> QED  BY <2>2, <2>3, <2>4, <2>5, Zenon DEF GraphAlgorithmsExact
<1> QED  BY <1>1, TypeCorrect, PTL
=============================================================================
