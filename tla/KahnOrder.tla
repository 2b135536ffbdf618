----------------------------- MODULE KahnOrder -----------------------------
(***************************************************************************)
(* The order that topologicalOrder (pkg/gitops/apply.go) gives a list of   *)
(* resources: deps is as long as the list, deps[i] is the set of the       *)
(* positions that resource i depends on.                                   *)
(***************************************************************************)
EXTENDS Integers

\* In the order s, x is freed no later than y: of any two that they wait for, y waits
\* for the later one.
FreedNoLater(deps, s, x, y) ==
    \A i \in DOMAIN s : s[i] \in deps[x] => \E j \in DOMAIN s : j >= i /\ s[j] \in deps[y]

\* A resource comes after what it depends on, those that are freed earlier come out of
\* the queue earlier, and those freed together in the order of the list.
FirstComeFirstServed(deps, s) ==
    /\ \A i \in DOMAIN s : deps[s[i]] \subseteq {s[j] : j \in 1..(i - 1)}
    /\ \A i, j \in DOMAIN s : i < j =>
          /\ FreedNoLater(deps, s, s[i], s[j])
          /\ FreedNoLater(deps, s, s[j], s[i]) => s[i] < s[j]

\* The order of the whole list; there is none, or just one.
Orders(deps) ==
    {s \in [DOMAIN deps -> DOMAIN deps] :
        /\ DOMAIN deps = {s[i] : i \in DOMAIN s}
        /\ FirstComeFirstServed(deps, s)}

\* "cycle in dependencies"
HasCycle(deps) == Orders(deps) = {}
=============================================================================
