-------------------------- MODULE DependencyOrder --------------------------
(***************************************************************************)
(* The loop of topologicalOrder and deleteOrderFromState                   *)
(* (pkg/gitops/apply.go): counters of unmet dependencies, a queue of those *)
(* that reached zero.  topologicalOrder goes through the resources in the  *)
(* order of the list; deleteOrderFromState goes through Go maps, whose     *)
(* order is another one every time.                                        *)
(***************************************************************************)
EXTENDS Integers, Sequences, FiniteSets

CONSTANTS
    Listed,     \* resources that topologicalOrder is given
    Gone,       \* keys that deleteOrderFromState is given
    MaxDeps     \* entries in a list of dependencies

Kahn == INSTANCE KahnOrder

ASSUME OrderAssumption == Listed \in Nat /\ Gone \in Nat /\ MaxDeps \in Nat

VARIABLES
    shuffled,   \* FALSE: topologicalOrder, TRUE: deleteOrderFromState
    deps,       \* dependencies that are found by name, a list with repetitions
    keys,       \* the order in which the resources are gone through
    inDegree,   \* unmet dependencies
    queue,
    order,      \* the result
    pc          \* "fill", "drain" or "done"

vars == <<shuffled, deps, keys, inDegree, queue, order, pc>>

Resources == 1..(IF shuffled THEN Gone ELSE Listed)

Elements(s) == {s[i] : i \in DOMAIN s}
DepSet(r)   == Elements(deps[r])

\* The sequences that hold every element of S once.
Listings(S) ==
    {s \in [1..Cardinality(S) -> S] :
        /\ Elements(s) = S
        /\ \A i, j \in DOMAIN s : s[i] = s[j] => i = j}

\* Those of them that follow the order of keys.
InOrder(S) ==
    {s \in Listings(S) : \E at \in [DOMAIN s -> DOMAIN keys] :
        /\ \A i \in DOMAIN s : s[i] = keys[at[i]]
        /\ \A i, j \in DOMAIN s : i < j => at[i] < at[j]}

Init ==
    /\ shuffled \in BOOLEAN
    /\ deps \in [Resources -> UNION {[1..n -> Resources] : n \in 0..MaxDeps}]
    /\ keys \in IF shuffled THEN Listings(Resources) ELSE {[i \in Resources |-> i]}
    /\ inDegree = [r \in Resources |-> Len(deps[r])]
    /\ queue = <<>> /\ order = <<>> /\ pc = "fill"

Occurrences(x, s) == Cardinality({i \in DOMAIN s : s[i] = x})

Zero(degree) == {r \in Resources : degree[r] = 0}

\* The queue starts with what depends on nothing; deleteOrderFromState goes through
\* another map for it.
Fill ==
    /\ pc = "fill"
    /\ queue' \in IF shuffled THEN Listings(Zero(inDegree)) ELSE InOrder(Zero(inDegree))
    /\ pc' = "drain"
    /\ UNCHANGED <<shuffled, deps, keys, inDegree, order>>

\* Faulty: a resource is freed by the first of its dependencies.
DrainFirst ==
    /\ pc = "drain" /\ queue # <<>>
    /\ \E freed \in InOrder({r \in Resources : Head(queue) \in DepSet(r) /\ inDegree[r] > 0}) :
          /\ inDegree' = [r \in Resources |-> IF r \in Elements(freed) THEN 0 ELSE inDegree[r]]
          /\ queue' = Tail(queue) \o freed
    /\ order' = Append(order, Head(queue))
    /\ UNCHANGED <<shuffled, deps, keys, pc>>

\* Faulty: a repeated dependency is counted twice and taken off once.
DrainOnce ==
    /\ pc = "drain" /\ queue # <<>>
    /\ inDegree' = [r \in Resources |->
                       inDegree[r] - (IF Head(queue) \in DepSet(r) THEN 1 ELSE 0)]
    /\ \E freed \in InOrder({r \in Zero(inDegree') : Head(queue) \in DepSet(r)}) :
          queue' = Tail(queue) \o freed
    /\ order' = Append(order, Head(queue))
    /\ UNCHANGED <<shuffled, deps, keys, pc>>

\* Faulty: the queue is a stack.
DrainStack ==
    /\ pc = "drain" /\ queue # <<>>
    /\ inDegree' = [r \in Resources |-> inDegree[r] - Occurrences(Head(queue), deps[r])]
    /\ \E freed \in InOrder({r \in Zero(inDegree') : Head(queue) \in DepSet(r)}) :
          queue' = freed \o Tail(queue)
    /\ order' = Append(order, Head(queue))
    /\ UNCHANGED <<shuffled, deps, keys, pc>>

\* The first of the queue is next; the resources that waited for it are counted
\* down, once for every time they list it, and freed at zero.
Drain ==
    /\ pc = "drain" /\ queue # <<>>
    /\ inDegree' = [r \in Resources |-> inDegree[r] - Occurrences(Head(queue), deps[r])]
    /\ \E freed \in InOrder({r \in Zero(inDegree') : Head(queue) \in DepSet(r)}) :
          queue' = Tail(queue) \o freed
    /\ order' = Append(order, Head(queue))
    /\ UNCHANGED <<shuffled, deps, keys, pc>>

\* Faulty: the loop waits until every resource is ordered.
ReturnWhenComplete ==
    /\ pc = "drain" /\ queue = <<>> /\ Len(order) = Cardinality(Resources)
    /\ pc' = "done"
    /\ UNCHANGED <<shuffled, deps, keys, inDegree, queue, order>>

Return ==
    /\ pc = "drain" /\ queue = <<>>
    /\ pc' = "done"
    /\ UNCHANGED <<shuffled, deps, keys, inDegree, queue, order>>

Next == Fill \/ Drain \/ Return

Spec == Init /\ [][Next]_vars /\ WF_vars(Next)
-----------------------------------------------------------------------------
\* "This resource is applied after all of them" (docs/format.md:38): nothing is
\* ordered before something it depends on, and nothing is ordered twice.
DependenciesFirst ==
    \A i \in DOMAIN order :
        /\ DepSet(order[i]) \subseteq {order[j] : j \in 1..(i - 1)}
        /\ \A j \in DOMAIN order : order[i] = order[j] => i = j

\* The resources that sit on a cycle of dependencies, or behind one.
OnCycle(r) == \E S \in SUBSET Resources : r \in S /\ \A x \in S : DepSet(x) \cap S # {}

\* What is missing from the result is exactly what cannot be ordered: an acyclic
\* list is ordered completely, and the length of the result tells a cycle.
OnlyCyclesMissing ==
    pc = "done" => Elements(order) = {r \in Resources : ~OnCycle(r)}

\* The order that the model of Apply uses is this one: gone through in the order of the
\* list, the loop serves first what is freed first, and its result is shorter than the
\* list, which topologicalOrder reports as a cycle, only if there is no order
\* (apply.go:306).
DepSets == [r \in Resources |-> DepSet(r)]
LoopIsTopologicalOrder ==
    pc = "done" /\ ~shuffled =>
        IF Len(order) = Cardinality(Resources) THEN order \in Kahn!Orders(DepSets)
        ELSE Kahn!HasCycle(DepSets)

\* The loop ends.
OrderEnds == <>(pc = "done")
=============================================================================
