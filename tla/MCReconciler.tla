---------------------------- MODULE MCReconciler ----------------------------
(***************************************************************************)
(* Instances of Reconciler for TLC.  Three commits: a is the oldest, b and *)
(* c come a day later.  In the fork, b and c are two children of a, so the *)
(* branch can be moved from one to the other by force; in the line, c is a *)
(* child of b.                                                             *)
(***************************************************************************)
EXTENDS Reconciler, TLC

CONSTANTS a, b, c, t1, t2, k1

MCCommits == {a, b, c}
MCDate == (a :> 0) @@ (b :> 1) @@ (c :> 1)

ForkLog == (a :> <<a>>) @@ (b :> <<b, a>>) @@ (c :> <<c, a>>)
LineLog == (a :> <<a>>) @@ (b :> <<b, a>>) @@ (c :> <<c, b, a>>)

MCCalls == {t1, t2}
OneSignature == {[period |-> 1, required |-> 1]}

CallSymmetry == Permutations(MCCalls)

SafetyFaults == Ops
\* Everything but the read whose failure keeps the guard.
ReleasingFaults == Ops \ {"getLast"}
OnlyGetLast == {"getLast"}
=============================================================================
