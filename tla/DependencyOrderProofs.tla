----------------------- MODULE DependencyOrderProofs -----------------------
(***************************************************************************)
(* Proofs about the loop of topologicalOrder and deleteOrderFromState, for *)
(* any number of resources, any lists of dependencies and any order of the *)
(* maps: dependencies come first, and what is missing from the result is   *)
(* what sits on a cycle or behind one.                                     *)
(*                                                                         *)
(* The argument: a counter is the number of the dependencies that are not  *)
(* ordered (Counted), and the queue holds what has reached zero and is not *)
(* ordered (Queued), each once.  With the queue behind it, what is ordered *)
(* stands in the order in which it was freed (InTurn).                     *)
(***************************************************************************)
EXTENDS DependencyOrder, SequenceTheorems, FiniteSetTheorems, WellFoundedInduction, TLAPS

Once(s) == \A i, j \in DOMAIN s : s[i] = s[j] => i = j

OrderType ==
    /\ deps \in [Resources -> Seq(Resources)]
    /\ inDegree \in [Resources -> Int]
    /\ queue \in Seq(Resources) /\ order \in Seq(Resources)
    /\ pc \in {"fill", "drain", "done"}

\* The places in the list of r that name what is not ordered.
Unmet(r) == {i \in DOMAIN deps[r] : deps[r][i] \notin Elements(order)}
Counted  == \A r \in Resources : inDegree[r] = Cardinality(Unmet(r))

Queued ==
    /\ Once(order) /\ Once(queue)
    /\ \A r \in Elements(queue) : r \notin Elements(order)
    /\ pc = "fill" => order = <<>> /\ queue = <<>>
    /\ pc # "fill" => Elements(order) \cup Elements(queue) = Zero(inDegree)
    /\ pc = "done" => queue = <<>>

OrderInv == OrderType /\ Counted /\ Queued /\ DependenciesFirst
-----------------------------------------------------------------------------
LEMMA ElementsOfAppend ==
    ASSUME NEW S, NEW s \in Seq(S), NEW e \in S
    PROVE  /\ Append(s, e) \in Seq(S)
           /\ Elements(Append(s, e)) = Elements(s) \cup {e}
           /\ Once(s) /\ e \notin Elements(s) => Once(Append(s, e))
  <1> DEFINE t == Append(s, e)
  <1>1. /\ t \in Seq(S) /\ Len(s) \in Nat
        /\ DOMAIN s = 1..Len(s) /\ DOMAIN t = 1..(Len(s) + 1)
        /\ \A i \in 1..Len(s) : t[i] = s[i]
        /\ t[Len(s) + 1] = e
    BY AppendProperties, LenProperties
  <1> HIDE DEF t
  <1>2. Elements(t) = Elements(s) \cup {e}
    BY <1>1 DEF Elements
  <1>3. ASSUME Once(s), e \notin Elements(s)
        PROVE  Once(t)
    BY <1>1, <1>3 DEF Elements, Once
  <1> QED
    BY <1>1, <1>2, <1>3 DEF t

LEMMA ElementsOfTail ==
    ASSUME NEW S, NEW s \in Seq(S), s # <<>>
    PROVE  /\ Head(s) \in S /\ Head(s) \in Elements(s) /\ Tail(s) \in Seq(S)
           /\ Elements(s) = Elements(Tail(s)) \cup {Head(s)}
           /\ Once(s) => Once(Tail(s)) /\ Head(s) \notin Elements(Tail(s))
  <1> DEFINE t == Tail(s)
             n == Len(s)
  <1>1. /\ t \in Seq(S) /\ n \in Nat \ {0}
        /\ DOMAIN s = 1..n /\ DOMAIN t = 1..(n - 1)
        /\ \A i \in 1..(n - 1) : t[i] = s[i + 1]
        /\ Head(s) = s[1] /\ s[1] \in S
    BY HeadTailProperties, LenProperties, EmptySeq
  <1> HIDE DEF t, n
  <1>2. Head(s) \in Elements(s)
    BY <1>1 DEF Elements
  <1>3. Elements(t) \subseteq Elements(s)
    BY <1>1 DEF Elements
  <1>4. ASSUME NEW i \in DOMAIN s, i # 1
        PROVE  s[i] \in Elements(t)
    <2>1. i - 1 \in DOMAIN t /\ t[i - 1] = s[i]
      BY <1>1, <1>4
    <2> QED
      BY <2>1 DEF Elements
  <1>5. Elements(s) = Elements(t) \cup {Head(s)}
    BY <1>1, <1>2, <1>3, <1>4 DEF Elements
  <1>6. ASSUME Once(s)
        PROVE  Once(t) /\ Head(s) \notin Elements(t)
    <2>1. \A i \in DOMAIN t : i + 1 \in DOMAIN s /\ i + 1 # 1 /\ t[i] = s[i + 1]
      BY <1>1
    <2>2. Head(s) \notin Elements(t)
      BY <1>1, <1>6, <2>1 DEF Elements, Once
    <2>3. Once(t)
      BY <1>1, <1>6, <2>1 DEF Once
    <2> QED
      BY <2>2, <2>3
  <1> QED
    BY <1>1, <1>2, <1>5, <1>6 DEF t

LEMMA ElementsOfConcat ==
    ASSUME NEW S, NEW s \in Seq(S), NEW t \in Seq(S)
    PROVE  /\ s \o t \in Seq(S)
           /\ Elements(s \o t) = Elements(s) \cup Elements(t)
           /\ Once(s) /\ Once(t) /\ Elements(s) \cap Elements(t) = {} => Once(s \o t)
  <1> DEFINE c == s \o t
             m == Len(s)
             n == Len(t)
  <1>1. /\ c \in Seq(S) /\ m \in Nat /\ n \in Nat
        /\ DOMAIN s = 1..m /\ DOMAIN t = 1..n /\ DOMAIN c = 1..(m + n)
        /\ \A i \in 1..(m + n) : c[i] = IF i <= m THEN s[i] ELSE t[i - m]
    BY ConcatProperties, LenProperties
  <1> HIDE DEF c, m, n
  <1>2. ASSUME NEW i \in DOMAIN c
        PROVE  \/ i \in DOMAIN s /\ c[i] = s[i]
               \/ i - m \in DOMAIN t /\ c[i] = t[i - m]
    BY <1>1
  <1>3. \A i \in DOMAIN s : i \in DOMAIN c /\ c[i] = s[i]
    BY <1>1
  <1>4. \A i \in DOMAIN t : i + m \in DOMAIN c /\ c[i + m] = t[i]
    BY <1>1
  <1>5. Elements(c) = Elements(s) \cup Elements(t)
    BY <1>2, <1>3, <1>4 DEF Elements
  <1>6. ASSUME Once(s), Once(t), Elements(s) \cap Elements(t) = {}
        PROVE  Once(c)
    <2> SUFFICES ASSUME NEW i \in DOMAIN c, NEW j \in DOMAIN c, c[i] = c[j]
                 PROVE  i = j
      BY DEF Once
    <2>1. i \in Int /\ j \in Int
      BY <1>1
    <2>2. CASE i \in DOMAIN s /\ j \in DOMAIN s
      BY <1>3, <1>6, <2>2 DEF Once
    <2>3. CASE i - m \in DOMAIN t /\ j - m \in DOMAIN t /\ c[i] = t[i - m] /\ c[j] = t[j - m]
      <3>1. i - m = j - m
        BY <1>6, <2>3 DEF Once
      <3> QED
        BY <1>1, <2>1, <3>1
    <2>4. CASE \/ i \in DOMAIN s /\ c[i] = s[i] /\ j - m \in DOMAIN t /\ c[j] = t[j - m]
               \/ j \in DOMAIN s /\ c[j] = s[j] /\ i - m \in DOMAIN t /\ c[i] = t[i - m]
      BY <1>6, <2>4 DEF Elements
    <2> QED
      BY <1>2, <2>2, <2>3, <2>4
  <1> QED
    BY <1>1, <1>5, <1>6 DEF c

LEMMA ElementsOfListing ==
    ASSUME NEW S, IsFiniteSet(S), NEW s \in Listings(S), NEW R, S \subseteq R
    PROVE  s \in Seq(R) /\ Elements(s) = S /\ Once(s)
  <1>1. Cardinality(S) \in Nat
    BY FS_CardinalityType
  <1>2. s \in Seq(R)
    BY <1>1 DEF Listings
  <1> QED
    BY <1>2 DEF Listings, Once
-----------------------------------------------------------------------------
LEMMA ResourcesAreFinite == IsFiniteSet(Resources)
  BY FS_Interval, OrderAssumption DEF Resources

\* A counter at zero says that all the dependencies are ordered.
LEMMA ZeroIsMet ==
    ASSUME OrderType, NEW r \in Resources
    PROVE  /\ IsFiniteSet(Unmet(r))
           /\ Cardinality(Unmet(r)) = 0 <=> DepSet(r) \subseteq Elements(order)
  <1>1. deps[r] \in Seq(Resources)
    BY DEF OrderType
  <1>2. DOMAIN deps[r] = 1..Len(deps[r]) /\ Len(deps[r]) \in Nat
    BY <1>1, LenProperties
  <1>3. IsFiniteSet(DOMAIN deps[r])
    BY <1>2, FS_Interval
  <1>4. IsFiniteSet(Unmet(r))
    BY <1>3, FS_Subset DEF Unmet
  <1>5. Unmet(r) = {} <=> DepSet(r) \subseteq Elements(order)
    BY DEF Unmet, DepSet, Elements
  <1> QED
    BY <1>4, <1>5, FS_EmptySet

LEMMA InitOrder == Init => OrderInv
  <1> SUFFICES ASSUME Init PROVE OrderInv
    OBVIOUS
  <1>1. deps \in [Resources -> Seq(Resources)]
    <2>1. \A n \in 0..MaxDeps : [1..n -> Resources] \subseteq Seq(Resources)
      BY OrderAssumption
    <2> QED
      BY <2>1 DEF Init
  <1>2. queue = <<>> /\ order = <<>> /\ pc = "fill"
    BY DEF Init
  <1>3. ASSUME NEW r \in Resources
        PROVE  inDegree[r] \in Int /\ inDegree[r] = Cardinality(Unmet(r))
    <2>1. Len(deps[r]) \in Nat /\ DOMAIN deps[r] = 1..Len(deps[r])
      BY <1>1, LenProperties
    <2>2. Unmet(r) = 1..Len(deps[r])
      BY <1>2, <2>1 DEF Unmet, Elements
    <2>3. Cardinality(Unmet(r)) = Len(deps[r])
      BY <2>1, <2>2, FS_Interval
    <2> QED
      BY <2>1, <2>3 DEF Init
  <1>4. OrderType
    BY <1>1, <1>2, <1>3 DEF OrderType, Init
  <1> QED
    BY <1>2, <1>3, <1>4 DEF OrderInv, Counted, Queued, Once, Elements, DependenciesFirst

LEMMA FillStep ==
    ASSUME OrderInv, Fill
    PROVE  OrderInv'
  <1>1. /\ deps' = deps /\ inDegree' = inDegree /\ order' = order /\ Resources' = Resources
        /\ pc' = "drain"
    BY DEF Fill, Resources
  <1>2. order = <<>> /\ Elements(order) = {}
    BY DEF OrderInv, Queued, Fill, Elements
  <1>3. queue' \in Listings(Zero(inDegree))
    BY DEF Fill, InOrder
  <1>4. Zero(inDegree) \subseteq Resources /\ IsFiniteSet(Zero(inDegree))
    BY ResourcesAreFinite, FS_Subset DEF Zero
  <1>5. queue' \in Seq(Resources) /\ Elements(queue') = Zero(inDegree) /\ Once(queue')
    BY <1>3, <1>4, ElementsOfListing
  <1>6. OrderType'
    BY <1>1, <1>5 DEF OrderInv, OrderType
  <1>7. Counted'
    BY <1>1 DEF OrderInv, Counted, Unmet
  <1>8. Queued'
    BY <1>1, <1>2, <1>5 DEF OrderInv, Queued, Zero
  <1>9. DependenciesFirst'
    BY <1>1 DEF OrderInv, DependenciesFirst, DepSet
  <1> QED
    BY <1>6, <1>7, <1>8, <1>9 DEF OrderInv

\* What has been ordered depends only on what has been ordered.
LEMMA OrderedIsMet ==
    ASSUME OrderInv, NEW r \in Elements(order)
    PROVE  DepSet(r) \subseteq Elements(order)
  <1>1. order \in Seq(Resources) /\ DOMAIN order = 1..Len(order) /\ Len(order) \in Nat
    BY LenProperties DEF OrderInv, OrderType
  <1>2. PICK i \in DOMAIN order : order[i] = r
    BY DEF Elements
  <1>3. DepSet(order[i]) \subseteq {order[j] : j \in 1..(i - 1)}
    BY DEF OrderInv, DependenciesFirst
  <1> QED
    BY <1>1, <1>2, <1>3 DEF Elements

\* The counters go down with what is ordered.
LEMMA DrainCounts ==
    ASSUME OrderInv, Drain, NEW r \in Resources,
           Elements(order') = Elements(order) \cup {Head(queue)},
           Head(queue) \notin Elements(order)
    PROVE  /\ Unmet(r)' = Unmet(r) \ {i \in DOMAIN deps[r] : deps[r][i] = Head(queue)}
           /\ Occurrences(Head(queue), deps[r]) \in Nat
           /\ inDegree'[r] = Cardinality(Unmet(r)')
           /\ Head(queue) \notin DepSet(r) => Occurrences(Head(queue), deps[r]) = 0
  <1> DEFINE O == {i \in DOMAIN deps[r] : deps[r][i] = Head(queue)}
  <1>1. deps' = deps /\ Resources' = Resources
    BY DEF Drain, Resources
  <1>2. Unmet(r)' = Unmet(r) \ O
    BY <1>1 DEF Unmet
  <1>3. O \subseteq Unmet(r)
    BY DEF Unmet
  <1>4. IsFiniteSet(Unmet(r))
    BY ZeroIsMet DEF OrderInv
  <1>5. IsFiniteSet(O) /\ Cardinality(O) \in Nat
    BY <1>3, <1>4, FS_Subset, FS_CardinalityType
  <1>6. Unmet(r) \cap O = O
    BY <1>3
  <1>7. Cardinality(Unmet(r) \ O) = Cardinality(Unmet(r)) - Cardinality(O)
    BY <1>4, <1>6, FS_Difference
  <1>8. inDegree'[r] = inDegree[r] - Cardinality(O)
    BY DEF Drain, Occurrences
  <1>9. inDegree[r] = Cardinality(Unmet(r))
    BY DEF OrderInv, Counted
  <1>10. inDegree'[r] = Cardinality(Unmet(r)')
    BY <1>2, <1>7, <1>8, <1>9
  <1>11. Head(queue) \notin DepSet(r) => O = {}
    BY DEF DepSet, Elements
  <1> QED
    BY <1>2, <1>5, <1>10, <1>11, FS_EmptySet DEF Occurrences

LEMMA DrainStep ==
    ASSUME OrderInv, Drain
    PROVE  OrderInv'
  <1> DEFINE u == Head(queue)
             F == {r \in Zero(inDegree') : u \in DepSet(r)}
  <1>1. /\ deps' = deps /\ Resources' = Resources /\ pc' = "drain" /\ pc = "drain"
        /\ queue # <<>> /\ order' = Append(order, u)
        /\ inDegree' = [r \in Resources |-> inDegree[r] - Occurrences(u, deps[r])]
    BY DEF Drain, Resources
  <1>2. PICK freed \in InOrder(F) : queue' = Tail(queue) \o freed
    BY DEF Drain
  <1>3. /\ queue \in Seq(Resources) /\ order \in Seq(Resources)
        /\ Once(order) /\ Once(queue)
        /\ \A r \in Elements(queue) : r \notin Elements(order)
        /\ Elements(order) \cup Elements(queue) = Zero(inDegree)
    BY <1>1 DEF OrderInv, OrderType, Queued
  <1>4. /\ u \in Resources /\ u \in Elements(queue) /\ Tail(queue) \in Seq(Resources)
        /\ Elements(queue) = Elements(Tail(queue)) \cup {u}
        /\ Once(Tail(queue)) /\ u \notin Elements(Tail(queue))
    BY <1>1, <1>3, ElementsOfTail
  <1>5. u \notin Elements(order)
    BY <1>3, <1>4
  <1>6. /\ order' \in Seq(Resources)
        /\ Elements(order') = Elements(order) \cup {u}
        /\ Once(order')
    BY <1>1, <1>3, <1>4, <1>5, ElementsOfAppend
  <1>7. ASSUME NEW r \in Resources
        PROVE  /\ inDegree'[r] = Cardinality(Unmet(r)')
               /\ Occurrences(u, deps[r]) \in Nat
               /\ u \notin DepSet(r) => Occurrences(u, deps[r]) = 0
    BY <1>5, <1>6, DrainCounts
  <1>8. ASSUME NEW r \in Zero(inDegree)
        PROVE  DepSet(r) \subseteq Elements(order) /\ u \notin DepSet(r) /\ r \in Zero(inDegree')
    <2>1. r \in Resources /\ inDegree[r] = 0 /\ inDegree[r] = Cardinality(Unmet(r))
      BY DEF Zero, OrderInv, Counted
    <2>2. DepSet(r) \subseteq Elements(order)
      BY <2>1, ZeroIsMet DEF OrderInv
    <2>3. u \notin DepSet(r)
      BY <1>5, <2>2
    <2>4. inDegree'[r] = 0
      BY <1>1, <1>7, <2>1, <2>3
    <2> QED
      BY <2>1, <2>2, <2>3, <2>4 DEF Zero
  <1>9. ASSUME NEW r \in Zero(inDegree'), r \notin F
        PROVE  r \in Zero(inDegree)
    <2>1. r \in Resources /\ inDegree'[r] = 0 /\ u \notin DepSet(r)
      BY <1>9 DEF Zero
    <2>2. inDegree[r] = 0
      BY <1>1, <1>7, <2>1 DEF OrderInv, OrderType
    <2> QED
      BY <2>1, <2>2 DEF Zero
  <1>10. /\ freed \in Seq(Resources) /\ Elements(freed) = F /\ Once(freed)
    <2>1. F \subseteq Resources
      BY DEF Zero
    <2>2. IsFiniteSet(F)
      BY <2>1, ResourcesAreFinite, FS_Subset
    <2>3. freed \in Listings(F)
      BY <1>2 DEF InOrder
    <2> QED
      BY <2>1, <2>2, <2>3, ElementsOfListing
  <1>11. Elements(Tail(queue)) \cap Elements(freed) = {}
    BY <1>3, <1>4, <1>8, <1>10
  <1>12. /\ queue' \in Seq(Resources) /\ Once(queue')
         /\ Elements(queue') = Elements(Tail(queue)) \cup F
    <2> DEFINE t == Tail(queue)
    <2>1. t \in Seq(Resources) /\ Once(t) /\ Elements(t) \cap Elements(freed) = {}
      BY <1>4, <1>11
    <2> HIDE DEF t, F
    <2>2. /\ t \o freed \in Seq(Resources) /\ Once(t \o freed)
          /\ Elements(t \o freed) = Elements(t) \cup F
      BY <1>10, <2>1, ElementsOfConcat
    <2> QED
      BY <1>2, <2>2 DEF t
  <1>13. Elements(order') \cup Elements(queue') = Zero(inDegree')
    BY <1>3, <1>4, <1>6, <1>8, <1>9, <1>12
  <1>14. \A r \in Elements(queue') : r \notin Elements(order')
    <2>1. F \cap (Elements(order) \cup Elements(queue)) = {}
      BY <1>3, <1>8
    <2> QED
      BY <1>3, <1>4, <1>6, <1>12, <2>1
  <1>15. OrderType'
    <2>1. \A r \in Resources : inDegree'[r] \in Int
      BY <1>1, <1>7 DEF OrderInv, OrderType
    <2> QED
      BY <1>1, <1>6, <1>12, <2>1 DEF OrderInv, OrderType
  <1>16. Counted'
    BY <1>1, <1>7 DEF Counted
  <1>17. Queued'
    BY <1>1, <1>6, <1>12, <1>13, <1>14 DEF Queued, Zero
  <1>18. DependenciesFirst'
    <2> DEFINE n == Len(order)
    <2>1. /\ n \in Nat /\ DOMAIN order = 1..n /\ DOMAIN order' = 1..(n + 1)
          /\ \A i \in 1..n : order'[i] = order[i]
          /\ order'[n + 1] = u
      BY <1>1, <1>3, <1>4, <1>6, AppendProperties, LenProperties
    <2> HIDE DEF n
    <2>2. ASSUME NEW i \in 1..(n + 1)
          PROVE  DepSet(order[i])' \subseteq {order'[j] : j \in 1..(i - 1)}
      <3>1. CASE i \in 1..n
        <4>1. DepSet(order[i]) \subseteq {order[j] : j \in 1..(i - 1)}
          BY <2>1, <3>1 DEF OrderInv, DependenciesFirst
        <4>2. \A j \in 1..(i - 1) : order'[j] = order[j]
          BY <2>1, <3>1
        <4>3. DepSet(order[i])' = DepSet(order[i])
          BY <1>1, <2>1, <3>1 DEF DepSet
        <4> QED
          BY <4>1, <4>2, <4>3
      <3>2. CASE i = n + 1
        <4>1. DepSet(u) \subseteq Elements(order)
          BY <1>3, <1>4, <1>8
        <4>2. Elements(order) = {order'[j] : j \in 1..(i - 1)}
          BY <2>1, <3>2 DEF Elements
        <4>3. DepSet(order[i])' = DepSet(u)
          BY <1>1, <2>1, <3>2 DEF DepSet
        <4> QED
          BY <4>1, <4>2, <4>3
      <3> QED
        BY <2>1, <3>1, <3>2
    <2> QED
      BY <1>6, <2>1, <2>2 DEF DependenciesFirst, Once
  <1> QED
    BY <1>15, <1>16, <1>17, <1>18 DEF OrderInv

\* The steps that change no list and no counter.
LEMMA OrderStays ==
    ASSUME OrderInv, UNCHANGED <<shuffled, deps, keys, inDegree, queue, order>>,
           \/ pc' = pc
           \/ pc = "drain" /\ pc' = "done" /\ queue = <<>>
    PROVE  OrderInv'
  <1>1. /\ Resources' = Resources /\ deps' = deps /\ inDegree' = inDegree
        /\ queue' = queue /\ order' = order
    BY DEF Resources
  <1>2. OrderType'
    BY <1>1 DEF OrderInv, OrderType
  <1>3. Counted'
    BY <1>1 DEF OrderInv, Counted, Unmet
  <1>4. Queued'
    BY <1>1 DEF OrderInv, OrderType, Queued, Zero
  <1>5. DependenciesFirst'
    BY <1>1 DEF OrderInv, DependenciesFirst, DepSet
  <1> QED
    BY <1>2, <1>3, <1>4, <1>5 DEF OrderInv

LEMMA OrderStep == OrderInv /\ [Next]_vars => OrderInv'
  <1> SUFFICES ASSUME OrderInv, [Next]_vars PROVE OrderInv'
    OBVIOUS
  <1>1. CASE Fill
    BY <1>1, FillStep
  <1>2. CASE Drain
    BY <1>2, DrainStep
  <1>3. CASE Return
    BY <1>3, OrderStays DEF Return
  <1>4. CASE UNCHANGED vars
    BY <1>4, OrderStays DEF vars
  <1> QED
    BY <1>1, <1>2, <1>3, <1>4 DEF Next

\* The inductive invariant of the loop: the counters count what is not ordered, and
\* the queue holds what waits for nothing, each once.
THEOREM OrderInvariance == Spec => []OrderInv
  BY InitOrder, OrderStep, PTL DEF Spec

\* Nothing is ordered before something it depends on, and nothing twice, whatever
\* order the maps have (apply.go:258).
THEOREM DependenciesComeFirst == Spec => []DependenciesFirst
  <1>1. OrderInv => DependenciesFirst
    BY DEF OrderInv
  <1> QED
    BY <1>1, OrderInvariance, PTL
-----------------------------------------------------------------------------
\* Of any ordered resources one comes first.
LEMMA FirstOrdered ==
    ASSUME NEW I, I \subseteq Nat, I # {}
    PROVE  \E i \in I : \A j \in I : i <= j
  <1> DEFINE R == {p \in Nat \X Nat : p[1] < p[2]}
  <1>1. IsWellFoundedOn(R, Nat)
    BY NatLessThanWellFounded DEF OpToRel
  <1>2. PICK i \in I : \A j \in I : ~(<<j, i>> \in R)
    BY <1>1, WFMin, Zenon
  <1>3. ASSUME NEW j \in I
        PROVE  i <= j
    <2>1. i \in Nat /\ j \in Nat
      OBVIOUS
    <2>2. j < i => <<j, i>> \in R
      BY <2>1
    <2> QED
      BY <1>2, <2>1, <2>2
  <1> QED
    BY <1>3

\* No ordered resource sits on a cycle: the first one of the cycle that was ordered
\* would depend on one before it.
LEMMA OrderedIsNotOnCycle ==
    ASSUME OrderInv, NEW r \in Elements(order)
    PROVE  ~OnCycle(r)
  <1> SUFFICES ASSUME NEW S \in SUBSET Resources, r \in S,
                      \A x \in S : DepSet(x) \cap S # {}
               PROVE  FALSE
    BY DEF OnCycle
  <1> DEFINE I == {i \in DOMAIN order : order[i] \in S}
  <1>1. DOMAIN order = 1..Len(order) /\ Len(order) \in Nat
    BY LenProperties DEF OrderInv, OrderType
  <1>2. I # {} /\ I \subseteq Nat
    BY <1>1 DEF Elements
  <1>3. PICK i \in I : \A j \in I : i <= j
    BY <1>2, FirstOrdered
  <1>4. PICK x \in DepSet(order[i]) : x \in S
    OBVIOUS
  <1>5. PICK j \in 1..(i - 1) : order[j] = x
    BY <1>4 DEF OrderInv, DependenciesFirst
  <1>6. j \in I /\ j < i
    BY <1>1, <1>4, <1>5
  <1> QED
    BY <1>1, <1>3, <1>6

\* What the loop leaves out depends on something else that it leaves out.
LEMMA MissingIsOnCycle ==
    ASSUME OrderInv, pc = "done", NEW r \in Resources, r \notin Elements(order)
    PROVE  OnCycle(r)
  <1> DEFINE S == Resources \ Elements(order)
  <1>1. Elements(order) = Zero(inDegree)
    BY DEF OrderInv, Queued, Elements
  <1>2. ASSUME NEW x \in S
        PROVE  DepSet(x) \cap S # {}
    <2>1. x \in Resources /\ inDegree[x] # 0
      BY <1>1 DEF Zero
    <2>2. Cardinality(Unmet(x)) # 0
      BY <2>1 DEF OrderInv, Counted
    <2>3. ~(DepSet(x) \subseteq Elements(order))
      BY <2>1, <2>2, ZeroIsMet DEF OrderInv
    <2>4. deps[x] \in Seq(Resources)
      BY <2>1 DEF OrderInv, OrderType
    <2>5. DepSet(x) \subseteq Resources
      BY <2>4, LenProperties DEF DepSet, Elements
    <2> QED
      BY <2>3, <2>5
  <1>3. r \in S /\ S \in SUBSET Resources
    OBVIOUS
  <1> QED
    BY <1>2, <1>3 DEF OnCycle

\* The loop orders everything but what sits on a cycle or behind one, so that the
\* length of its result tells whether there is one (apply.go:307).
THEOREM MissingAreOnCycles == Spec => []OnlyCyclesMissing
  <1>1. OrderInv => OnlyCyclesMissing
    <2> SUFFICES ASSUME OrderInv, pc = "done"
                 PROVE  Elements(order) = {r \in Resources : ~OnCycle(r)}
      BY DEF OnlyCyclesMissing
    <2>1. Elements(order) \subseteq Resources
      <3>1. order \in Seq(Resources)
        BY DEF OrderInv, OrderType
      <3> QED
        BY <3>1, LenProperties DEF Elements
    <2> QED
      BY <2>1, OrderedIsNotOnCycle, MissingIsOnCycle
  <1> QED
    BY <1>1, OrderInvariance, PTL
-----------------------------------------------------------------------------
\* What is ordered, and what is queued behind it.
Line == order \o queue

NoLater(x, y) == Kahn!FreedNoLater(DepSets, order, x, y)
Earlier(x, y) == NoLater(x, y) /\ (NoLater(y, x) => x < y)

InTurn ==
    ~shuffled =>
        /\ keys = [i \in Resources |-> i]
        /\ \A i, j \in DOMAIN Line : i < j => Earlier(Line[i], Line[j])

\* Gone through in the order of the list, what is freed together is in that order.
LEMMA FreedInOrder ==
    ASSUME keys = [i \in Resources |-> i], NEW S, S \subseteq Resources,
           NEW s \in InOrder(S), NEW i \in DOMAIN s, NEW j \in DOMAIN s, i < j
    PROVE  s[i] < s[j]
  <1>1. PICK place \in [DOMAIN s -> DOMAIN keys] :
            /\ \A k \in DOMAIN s : s[k] = keys[place[k]]
            /\ \A k, l \in DOMAIN s : k < l => place[k] < place[l]
    BY DEF InOrder
  <1>2. s[i] = place[i] /\ s[j] = place[j]
    BY <1>1
  <1> QED
    BY <1>1, <1>2

\* The first of the queue goes over to the order, and the freed come in at the end.
LEMMA LineGrows ==
    ASSUME NEW S, NEW s \in Seq(S), NEW q \in Seq(S), q # <<>>, NEW f \in Seq(S)
    PROVE  Append(s, Head(q)) \o (Tail(q) \o f) = (s \o q) \o f
  <1> DEFINE a == Append(s, Head(q))
             b == Tail(q) \o f
             l == s \o q
  <1>1. /\ Len(s) \in Nat /\ Len(q) \in Nat \ {0} /\ Len(f) \in Nat
        /\ Head(q) = q[1] /\ Head(q) \in S
        /\ Tail(q) \in Seq(S) /\ Len(Tail(q)) = Len(q) - 1
        /\ \A i \in 1..(Len(q) - 1) : Tail(q)[i] = q[i + 1]
    BY HeadTailProperties, LenProperties, EmptySeq
  <1>2. /\ a \in Seq(S) /\ Len(a) = Len(s) + 1
        /\ \A i \in 1..Len(s) : a[i] = s[i]
        /\ a[Len(s) + 1] = q[1]
    BY <1>1, AppendProperties
  <1>3. /\ b \in Seq(S) /\ Len(b) = Len(q) - 1 + Len(f)
        /\ \A i \in 1..(Len(q) - 1 + Len(f)) :
              b[i] = IF i <= Len(q) - 1 THEN q[i + 1] ELSE f[i - (Len(q) - 1)]
    <2> DEFINE t == Tail(q)
    <2>1. t \in Seq(S) /\ Len(t) = Len(q) - 1 /\ \A i \in 1..(Len(q) - 1) : t[i] = q[i + 1]
      BY <1>1
    <2> HIDE DEF t
    <2>2. /\ t \o f \in Seq(S) /\ Len(t \o f) = Len(t) + Len(f)
          /\ \A i \in 1..(Len(t) + Len(f)) :
                (t \o f)[i] = IF i <= Len(t) THEN t[i] ELSE f[i - Len(t)]
      BY <2>1, ConcatProperties
    <2>3. \A i \in 1..(Len(q) - 1 + Len(f)) : i <= Len(q) - 1 => i \in 1..(Len(q) - 1)
      BY <1>1
    <2>4. b = t \o f
      BY DEF t
    <2> HIDE DEF b
    <2> QED
      BY <2>1, <2>2, <2>3, <2>4
  <1>4. /\ l \in Seq(S) /\ Len(l) = Len(s) + Len(q)
        /\ \A i \in 1..(Len(s) + Len(q)) :
              l[i] = IF i <= Len(s) THEN s[i] ELSE q[i - Len(s)]
    BY <1>1, ConcatProperties
  <1> HIDE DEF a, b, l
  <1>5. /\ a \o b \in Seq(S) /\ Len(a \o b) = Len(a) + Len(b)
        /\ \A i \in 1..(Len(a) + Len(b)) :
              (a \o b)[i] = IF i <= Len(a) THEN a[i] ELSE b[i - Len(a)]
    BY <1>2, <1>3, ConcatProperties
  <1>6. /\ l \o f \in Seq(S) /\ Len(l \o f) = Len(l) + Len(f)
        /\ \A i \in 1..(Len(l) + Len(f)) :
              (l \o f)[i] = IF i <= Len(l) THEN l[i] ELSE f[i - Len(l)]
    BY <1>1, <1>4, ConcatProperties
  <1>7. Len(a \o b) = Len(l \o f)
    BY <1>1, <1>2, <1>3, <1>4, <1>5, <1>6
  <1>8. ASSUME NEW i \in 1..Len(a \o b)
        PROVE  (a \o b)[i] = (l \o f)[i]
    <2> DEFINE n == Len(s)
               k == Len(q)
    <2>1. /\ n \in Nat /\ k \in Nat \ {0} /\ Len(f) \in Nat /\ Len(a) = n + 1
          /\ i \in 1..(n + k + Len(f))
      BY <1>1, <1>2, <1>3, <1>5
    <2>2. CASE i <= n
      <3>1. i \in 1..n /\ i \in 1..(n + k) /\ i <= n + 1 /\ i <= n + k
        BY <2>1, <2>2
      <3>2. (a \o b)[i] = s[i]
        BY <1>2, <1>5, <2>1, <3>1
      <3>3. (l \o f)[i] = s[i]
        BY <1>4, <1>6, <1>7, <2>1, <2>2, <3>1
      <3> QED
        BY <3>2, <3>3
    <2>3. CASE i = n + 1
      <3>1. i \in 1..(n + k) /\ ~(i <= n) /\ i - n = 1
        BY <2>1, <2>3
      <3>2. (a \o b)[i] = q[1]
        BY <1>1, <1>2, <1>3, <1>5, <2>1, <2>3
      <3>3. (l \o f)[i] = q[1]
        BY <1>1, <1>4, <1>6, <2>1, <3>1
      <3> QED
        BY <3>2, <3>3
    <2>4. CASE i > n + 1
      <3>1. (a \o b)[i] = b[i - (n + 1)] /\ i - (n + 1) \in 1..(k - 1 + Len(f))
        BY <1>1, <1>2, <1>3, <1>5, <2>1, <2>4
      <3>2. CASE i <= n + k
        <4>1. /\ i \in 1..(n + k) /\ ~(i <= n) /\ i - (n + 1) <= k - 1
              /\ i - (n + 1) + 1 = i - n
          BY <2>1, <2>4, <3>2
        <4>2. (a \o b)[i] = q[i - n]
          BY <1>3, <3>1, <4>1
        <4>3. (l \o f)[i] = q[i - n]
          BY <1>1, <1>4, <1>6, <2>1, <3>2, <4>1
        <4> QED
          BY <4>2, <4>3
      <3>3. CASE i > n + k
        <4>1. ~(i - (n + 1) <= k - 1) /\ i - (n + 1) - (k - 1) = i - (n + k) /\ ~(i <= n + k)
          BY <2>1, <3>3
        <4>2. (a \o b)[i] = f[i - (n + k)]
          BY <1>3, <3>1, <4>1
        <4>3. (l \o f)[i] = f[i - (n + k)]
          BY <1>1, <1>4, <1>6, <2>1, <4>1
        <4> QED
          BY <4>2, <4>3
      <3>4. i \in Int /\ n + k \in Int
        BY <2>1
      <3>5. i <= n + k \/ i > n + k
        BY <3>4
      <3> QED
        BY <3>2, <3>3, <3>5
    <2>5. i \in Int /\ n \in Int
      BY <2>1
    <2>6. i <= n \/ i = n + 1 \/ i > n + 1
      BY <2>5
    <2> QED
      BY <2>2, <2>3, <2>4, <2>6
  <1> QED
    BY <1>5, <1>6, <1>7, <1>8, SeqEqual DEF a, b, l

\* What stands in line depends on what is ordered only.
LEMMA LineIsMet ==
    ASSUME OrderInv, pc # "fill", NEW i \in DOMAIN Line
    PROVE  /\ Line[i] \in Resources
           /\ DepSet(Line[i]) \subseteq Elements(order)
  <1>1. queue \in Seq(Resources) /\ order \in Seq(Resources)
    BY DEF OrderInv, OrderType
  <1>2. Line \in Seq(Resources) /\ Elements(Line) = Elements(order) \cup Elements(queue)
    BY <1>1, ElementsOfConcat DEF Line
  <1>3. Line[i] \in Zero(inDegree)
    BY <1>2 DEF OrderInv, Queued, Elements
  <1>4. Line[i] \in Resources /\ Cardinality(Unmet(Line[i])) = 0
    BY <1>3 DEF Zero, OrderInv, Counted
  <1> QED
    BY <1>4, ZeroIsMet DEF OrderInv

LEMMA FillTurn ==
    ASSUME OrderInv, InTurn, Fill
    PROVE  InTurn'
  <1>1. /\ shuffled' = shuffled /\ keys' = keys /\ Resources' = Resources
        /\ order = <<>> /\ order' = <<>>
    BY DEF Fill, OrderInv, Queued, Resources
  <1> SUFFICES ASSUME ~shuffled
               PROVE  /\ keys = [i \in Resources |-> i]
                      /\ \A i, j \in DOMAIN Line' : i < j => Earlier(Line[i], Line[j])'
    BY <1>1 DEF InTurn
  <1>2. keys = [i \in Resources |-> i]
    BY DEF InTurn
  <1>3. Zero(inDegree) \subseteq Resources /\ IsFiniteSet(Zero(inDegree))
    BY ResourcesAreFinite, FS_Subset DEF Zero
  <1>4. queue' \in InOrder(Zero(inDegree))
    BY DEF Fill
  <1>5. queue' \in Seq(Resources)
    BY <1>3, <1>4, ElementsOfListing DEF InOrder
  <1>6. Line' = queue'
    BY <1>1, <1>5, ConcatEmptySeq DEF Line
  <1>7. ASSUME NEW i \in DOMAIN Line', NEW j \in DOMAIN Line', i < j
        PROVE  Earlier(Line[i], Line[j])'
    <2>1. Line'[i] < Line'[j]
      BY <1>2, <1>3, <1>4, <1>6, <1>7, FreedInOrder
    <2>2. NoLater(Line[i], Line[j])'
      BY <1>1 DEF NoLater, Kahn!FreedNoLater
    <2> QED
      BY <2>1, <2>2 DEF Earlier
  <1> QED
    BY <1>2, <1>7

LEMMA DrainTurn ==
    ASSUME OrderInv, InTurn, Drain
    PROVE  InTurn'
  <1> DEFINE u == Head(queue)
             F == {r \in Zero(inDegree') : u \in DepSet(r)}
             n == Len(order)
             m == Len(Line)
  <1>1. /\ shuffled' = shuffled /\ keys' = keys /\ deps' = deps /\ Resources' = Resources
        /\ pc = "drain" /\ queue # <<>> /\ order' = Append(order, u)
    BY DEF Drain, Resources
  <1> SUFFICES ASSUME ~shuffled
               PROVE  /\ keys = [i \in Resources |-> i]
                      /\ \A i, j \in DOMAIN Line' : i < j => Earlier(Line[i], Line[j])'
    BY <1>1 DEF InTurn
  <1>2. keys = [i \in Resources |-> i]
    BY DEF InTurn
  <1>3. PICK freed \in InOrder(F) : queue' = Tail(queue) \o freed
    BY DEF Drain
  <1>4. queue \in Seq(Resources) /\ order \in Seq(Resources)
    BY DEF OrderInv, OrderType
  <1>5. F \subseteq Resources /\ IsFiniteSet(F)
    <2>1. F \subseteq Resources
      BY DEF Zero
    <2> QED
      BY <2>1, ResourcesAreFinite, FS_Subset
  <1>6. freed \in Seq(Resources) /\ Elements(freed) = F
    <2>1. freed \in Listings(F)
      BY <1>3 DEF InOrder
    <2> HIDE DEF F
    <2> QED
      BY <1>5, <2>1, ElementsOfListing
  <1>7. u \in Resources /\ u \notin Elements(order)
    <2>1. u \in Resources /\ u \in Elements(queue)
      BY <1>1, <1>4, ElementsOfTail
    <2> QED
      BY <2>1 DEF OrderInv, Queued
  <1>8. Line' = Line \o freed /\ Line \in Seq(Resources)
    <2>1. Line' = Append(order, Head(queue)) \o (Tail(queue) \o freed)
      BY <1>1, <1>3 DEF Line
    <2>4. Append(order, Head(queue)) \o (Tail(queue) \o freed) = (order \o queue) \o freed
      <3>1. queue # <<>> /\ queue \in Seq(Resources) /\ order \in Seq(Resources)
        BY <1>1, <1>4
      <3>2. \A s, q, f \in Seq(Resources) :
                q # <<>> => Append(s, Head(q)) \o (Tail(q) \o f) = (s \o q) \o f
        BY LineGrows
      <3>3. freed \in Seq(Resources)
        BY <1>6
      <3> QED
        BY <3>1, <3>2, <3>3, Zenon
    <2>2. Line' = (order \o queue) \o freed
      BY <2>1, <2>4, Zenon
    <2>3. Line \in Seq(Resources)
      BY <1>4, ElementsOfConcat DEF Line
    <2> QED
      BY <2>2, <2>3 DEF Line
  <1>9. /\ m \in Nat /\ DOMAIN Line = 1..m /\ DOMAIN freed = 1..Len(freed) /\ Len(freed) \in Nat
        /\ DOMAIN Line' = 1..(m + Len(freed))
        /\ \A i \in 1..(m + Len(freed)) : Line'[i] = IF i <= m THEN Line[i] ELSE freed[i - m]
    <2>1. Line' \in Seq(Resources) /\ Len(Line') = m + Len(freed)
      BY <1>6, <1>8, ConcatProperties
    <2> QED
      BY <1>6, <1>8, <2>1, ConcatProperties, LenProperties
  <1>10. /\ n \in Nat /\ DOMAIN order = 1..n /\ DOMAIN order' = 1..(n + 1)
         /\ \A i \in 1..n : order'[i] = order[i]
         /\ order'[n + 1] = u
    BY <1>1, <1>4, <1>7, AppendProperties, LenProperties
  <1>11. DepSets' = DepSets /\ \A x \in Resources : DepSets[x] = DepSet(x)
    BY <1>1 DEF DepSets, DepSet
  <1>12. ASSUME NEW i \in 1..m
         PROVE  Line[i] \in Resources /\ u \notin DepSets[Line[i]]
    BY <1>1, <1>7, <1>9, <1>11, LineIsMet
  <1>13. ASSUME NEW i \in DOMAIN freed
         PROVE  freed[i] \in Resources /\ u \in DepSets[freed[i]]
    BY <1>5, <1>6, <1>11 DEF Elements
  <1> HIDE DEF n, m, u, F
  <1>14. ASSUME NEW i \in 1..m, NEW j \in 1..m
         PROVE  NoLater(Line[i], Line[j])' <=> NoLater(Line[i], Line[j])
    <2>1. Line'[i] = Line[i] /\ Line'[j] = Line[j]
      BY <1>9
    <2> DEFINE x == Line[i]
               y == Line[j]
    <2>2. u \notin DepSets[x] /\ u \notin DepSets[y]
      BY <1>12
    <2> HIDE DEF x, y
    <2>3. ASSUME NoLater(x, y)
          PROVE  Kahn!FreedNoLater(DepSets, order', x, y)
      BY <1>10, <2>2, <2>3 DEF NoLater, Kahn!FreedNoLater
    <2>4. ASSUME Kahn!FreedNoLater(DepSets, order', x, y)
          PROVE  NoLater(x, y)
      BY <1>10, <2>2, <2>4 DEF NoLater, Kahn!FreedNoLater
    <2> QED
      BY <1>11, <2>1, <2>3, <2>4 DEF NoLater, x, y
  <1>15. ASSUME NEW i \in 1..m, NEW y, u \in DepSets[y]
         PROVE  /\ Kahn!FreedNoLater(DepSets, order', Line[i], y)
                /\ ~Kahn!FreedNoLater(DepSets, order', y, Line[i])
    BY <1>10, <1>12, <1>15 DEF Kahn!FreedNoLater
  <1>16. ASSUME NEW x, NEW y, u \in DepSets[y]
         PROVE  Kahn!FreedNoLater(DepSets, order', x, y)
    BY <1>10, <1>16 DEF Kahn!FreedNoLater
  <1>17. ASSUME NEW i \in DOMAIN Line', NEW j \in DOMAIN Line', i < j
         PROVE  Earlier(Line[i], Line[j])'
    <2>1. i \in Int /\ j \in Int /\ m \in Int
      BY <1>9
    <2>2. CASE j <= m
      <3>1. i \in 1..m /\ j \in 1..m
        BY <1>9, <1>17, <2>2
      <3>2. Line'[i] = Line[i] /\ Line'[j] = Line[j]
        BY <1>9, <3>1
      <3>3. Earlier(Line[i], Line[j])
        BY <1>9, <1>17, <3>1 DEF InTurn
      <3> QED
        BY <1>14, <3>1, <3>2, <3>3 DEF Earlier
    <2>3. CASE i <= m /\ j > m
      <3>1. i \in 1..m /\ j - m \in DOMAIN freed
        BY <1>9, <2>1, <2>3
      <3>2. Line'[i] = Line[i] /\ Line'[j] = freed[j - m]
        BY <1>9, <2>1, <2>3, <3>1
      <3>3. u \in DepSets[freed[j - m]]
        BY <1>13, <3>1
      <3>4. /\ Kahn!FreedNoLater(DepSets, order', Line'[i], Line'[j])
            /\ ~Kahn!FreedNoLater(DepSets, order', Line'[j], Line'[i])
        BY <1>15, <3>1, <3>2, <3>3
      <3> QED
        BY <1>11, <3>4 DEF Earlier, NoLater
    <2>4. CASE i > m
      <3>1. i - m \in DOMAIN freed /\ j - m \in DOMAIN freed /\ i - m < j - m
        BY <1>9, <1>17, <2>1, <2>4
      <3>2. Line'[i] = freed[i - m] /\ Line'[j] = freed[j - m]
        BY <1>9, <1>17, <2>1, <2>4
      <3>3. freed[i - m] < freed[j - m]
        BY <1>2, <1>3, <1>5, <3>1, FreedInOrder
      <3>4. Kahn!FreedNoLater(DepSets, order', Line'[i], Line'[j])
        BY <1>13, <1>16, <3>1, <3>2
      <3> QED
        BY <1>11, <3>2, <3>3, <3>4 DEF Earlier, NoLater
    <2> QED
      BY <1>17, <2>1, <2>2, <2>3, <2>4
  <1> QED
    BY <1>2, <1>17

LEMMA TurnStep == OrderInv /\ InTurn /\ [Next]_vars => InTurn'
  <1> SUFFICES ASSUME OrderInv, InTurn, [Next]_vars PROVE InTurn'
    OBVIOUS
  <1>1. CASE Fill
    BY <1>1, FillTurn
  <1>2. CASE Drain
    BY <1>2, DrainTurn
  <1>3. CASE UNCHANGED <<shuffled, deps, keys, inDegree, queue, order>>
    BY <1>3 DEF InTurn, Line, Earlier, NoLater, DepSets, DepSet, Resources
  <1> QED
    BY <1>1, <1>2, <1>3 DEF Next, Return, vars

LEMMA InitTurn == Init => InTurn
  <1> SUFFICES ASSUME Init, ~shuffled
               PROVE  /\ keys = [i \in Resources |-> i]
                      /\ \A i, j \in DOMAIN Line : i < j => Earlier(Line[i], Line[j])
    BY DEF InTurn
  <1>1. keys = [i \in Resources |-> i]
    BY DEF Init
  <1>2. Line = <<>> /\ DOMAIN Line = {}
    BY DEF Init, Line
  <1> QED
    BY <1>1, <1>2

\* The result is all of the list, unless it is shorter.
LEMMA LengthTells ==
    ASSUME OrderInv
    PROVE  /\ order \in [1..Len(order) -> Resources] /\ Len(order) \in Nat
           /\ Len(order) = Cardinality(Resources) <=> Elements(order) = Resources
  <1>1. /\ order \in [1..Len(order) -> Resources] /\ Len(order) \in Nat
        /\ DOMAIN order = 1..Len(order)
    BY LenProperties DEF OrderInv, OrderType
  <1>2. order \in Injection(1..Len(order), Resources)
    BY <1>1 DEF Injection, IsInjective, OrderInv, Queued, Once
  <1>3. Cardinality(1..Len(order)) = Cardinality(Resources)
            <=> order \in Surjection(1..Len(order), Resources)
    BY <1>2, ResourcesAreFinite, FS_Injection
  <1>4. Cardinality(1..Len(order)) = Len(order)
    <2>1. Len(order) \in Nat
      BY <1>1
    <2>2. 1 \in Int /\ Len(order) \in Int
      BY <2>1
    <2>3. Cardinality(1..Len(order)) = IF 1 > Len(order) THEN 0 ELSE Len(order) - 1 + 1
      BY <2>2, FS_Interval
    <2> QED
      BY <2>1, <2>3
  <1>5. order \in Surjection(1..Len(order), Resources) <=> Elements(order) = Resources
    BY <1>1 DEF Surjection, Elements
  <1> QED
    BY <1>1, <1>3, <1>4, <1>5

\* Where there is an order, no resource sits on a cycle.
LEMMA OrderMeansNoCycle ==
    ASSUME NEW s \in Kahn!Orders(DepSets), NEW r \in Resources
    PROVE  ~OnCycle(r)
  <1> SUFFICES ASSUME NEW S \in SUBSET Resources, r \in S,
                      \A x \in S : DepSet(x) \cap S # {}
               PROVE  FALSE
    BY DEF OnCycle
  <1> DEFINE I == {i \in DOMAIN s : s[i] \in S}
  <1>1. DOMAIN DepSets = Resources /\ \A x \in Resources : DepSets[x] = DepSet(x)
    BY DEF DepSets
  <1>2. s \in [Resources -> Resources] /\ Resources \subseteq Nat /\ Resources \subseteq Int
    <2>1. s \in [Resources -> Resources]
      BY <1>1 DEF Kahn!Orders
    <2>2. Resources \subseteq Nat /\ Resources \subseteq Int
      BY OrderAssumption DEF Resources
    <2> QED
      BY <2>1, <2>2
  <1> DEFINE Before(i) == {s[j] : j \in 1..(i - 1)}
  <1>8. \A i \in Resources : DepSets[s[i]] \subseteq Before(i)
    BY <1>2 DEF Kahn!Orders, Kahn!FirstComeFirstServed
  <1>9. PICK k \in Resources : s[k] = r
    BY <1>1, <1>2 DEF Kahn!Orders
  <1>3. I # {} /\ I \subseteq Nat
    BY <1>2, <1>9
  <1>4. PICK i \in I : \A j \in I : i <= j
    BY <1>3, FirstOrdered
  <1>5. PICK x \in DepSet(s[i]) : x \in S
    OBVIOUS
  <1>10. i \in Resources /\ s[i] \in Resources
    BY <1>2
  <1>11. x \in Before(i)
    BY <1>1, <1>5, <1>8, <1>10
  <1>6. PICK j \in 1..(i - 1) : s[j] = x
    BY <1>11
  <1>12. i \in Nat /\ i \in 1..(IF shuffled THEN Gone ELSE Listed)
    BY <1>2, <1>10 DEF Resources
  <1>13. j \in Resources /\ j < i /\ j \in Nat
    BY <1>6, <1>12, OrderAssumption DEF Resources
  <1>7. j \in I
    BY <1>2, <1>5, <1>6, <1>13
  <1> QED
    BY <1>4, <1>7, <1>12, <1>13

\* LoopIsTopologicalOrder: the loop computes the order in which the model of Apply goes
\* through a commit, and comes out short only if there is none (apply.go:306).
THEOREM LoopGivesTheOrder == Spec => []LoopIsTopologicalOrder
  <1>1. ASSUME OrderInv, InTurn PROVE LoopIsTopologicalOrder
    <2> SUFFICES ASSUME pc = "done", ~shuffled
                 PROVE  IF Len(order) = Cardinality(Resources) THEN order \in Kahn!Orders(DepSets)
                        ELSE Kahn!HasCycle(DepSets)
      BY DEF LoopIsTopologicalOrder
    <2>1. DOMAIN DepSets = Resources /\ \A x \in Resources : DepSets[x] = DepSet(x)
      BY DEF DepSets
    <2>2. CASE Len(order) = Cardinality(Resources)
      <3>1. /\ order \in [1..Len(order) -> Resources] /\ Len(order) \in Nat
            /\ Resources = {order[i] : i \in DOMAIN order}
        <4>1. Elements(order) = Resources /\ order \in [1..Len(order) -> Resources] /\ Len(order) \in Nat
          BY <1>1, <2>2, LengthTells
        <4> QED
          BY <4>1 DEF Elements
      <3>2. Line = order
        <4>1. order \in Seq(Resources) /\ queue = <<>>
          BY <1>1 DEF OrderInv, OrderType, Queued
        <4> QED
          BY <4>1, ConcatEmptySeq DEF Line
      <3>3. \A i \in DOMAIN order : DepSets[order[i]] \subseteq {order[j] : j \in 1..(i - 1)}
        BY <1>1, <2>1, <3>1 DEF OrderInv, DependenciesFirst
      <3>4. Kahn!FirstComeFirstServed(DepSets, order)
        BY <1>1, <3>2, <3>3 DEF InTurn, Earlier, NoLater, Kahn!FirstComeFirstServed
      <3> QED
        <4>1. Resources = 1..Len(order)
          <5>1. Listed \in Nat /\ Resources = 1..Listed
            BY OrderAssumption DEF Resources
          <5>2. Cardinality(Resources) = Listed
            BY <5>1, FS_Interval
          <5> QED
            BY <2>2, <5>1, <5>2
        <4> QED
          BY <2>1, <2>2, <3>1, <3>4, <4>1 DEF Kahn!Orders
    <2>3. CASE Len(order) # Cardinality(Resources)
      <3>1. PICK r \in Resources : r \notin Elements(order)
        BY <1>1, <2>3, LengthTells, LenProperties DEF Elements, OrderInv, OrderType
      <3>2. OnCycle(r)
        BY <1>1, <3>1, MissingIsOnCycle
      <3> QED
        BY <2>3, <3>2, OrderMeansNoCycle DEF Kahn!HasCycle
    <2> QED
      BY <2>2, <2>3
  <1> QED
    BY <1>1, InitTurn, TurnStep, InitOrder, OrderStep, PTL DEF Spec
=============================================================================
