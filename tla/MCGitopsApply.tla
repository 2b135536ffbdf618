--------------------------- MODULE MCGitopsApply ---------------------------
(***************************************************************************)
(* Histories of commits for GitopsApply.  Names a, b, c; paths p, q; a     *)
(* resource is written name, path, data, template, dependencies.           *)
(***************************************************************************)
EXTENDS GitopsApply

CONSTANTS a, b, c, p, q, r, d1, d2, d3

Post(name, path, data, ref, deps) ==
    [name |-> name, path |-> path, data |-> data, ref |-> ref, deps |-> deps,
     ignore |-> FALSE, method |-> "POST"]
Plain(name, path, data) == Post(name, path, data, NoValue, {})
Ignoring(x) == [x EXCEPT !.ignore = TRUE]
Reads(x) == [x EXCEPT !.method = "GET"]

A1 == Plain(a, p, d1)
A2 == Plain(a, p, d2)
\* b takes a value of a's response, c comes after b.
B1 == Post(b, q, d1, a, {a})
B2 == Post(b, q, d2, a, {a})
C1 == Post(c, r, d1, NoValue, {b})

\* Every commit with some of the three, a listed last although it comes first.
Commits ==
    {k \in {x \o y \o z : x \in {<<>>, <<C1>>},
                          y \in {<<>>, <<B1>>, <<B2>>, <<Plain(b, q, d1)>>},
                          z \in {<<>>, <<A1>>, <<A2>>}} : Linted(k)}

\* Only the name of a resource changes.
Renamed == << <<B1, A1>>, <<[B1 EXCEPT !.name = c], A1>>, <<A1>> >>
\* Failures of a, or of what uses it, are ignored.
Optional == << <<Ignoring(A1), B1>>, <<Ignoring(B2), A2>>, <<A2>> >>
\* c reads what a has written, b is made from what c has read.
Reading == <<Reads(Post(c, p, d3, NoValue, {a})), Post(b, q, d1, c, {c}), A1>>

\* b takes a value of c, which answers without data.
Unanswered == << <<Plain(c, r, d1), Post(b, q, d1, c, {c})>>, <<A1>> >>
\* The linter lets a cycle through, the engine does not.
Cyclic == << <<A1>>, <<Post(a, p, d2, NoValue, {b}), B1>>, <<B1, A2>> >>

\* The dependencies of b or the ignore flag of a change under digests that stay, so
\* that the entries keep the old ones; a goes before b, with it, or after it.
After == Post(b, q, d1, NoValue, {a})
Untied == << <<A1, After>>, <<Plain(b, q, d1)>>, <<>> >>
Tied == << <<A1, Plain(b, q, d1)>>, <<A1, After>>, <<>> >>
Stricter == << <<Ignoring(A1), After>>, <<A1, Ignoring(Plain(b, q, d1))>>, <<Plain(b, q, d1)>> >>
Outdated == {Untied, Tied, Stricter}

\* What a resource once was it never is again after it has been something else.
NoReturn(h) ==
    \A i, k \in DOMAIN h : \A x \in DOMAIN h[i] :
        (\E y \in DOMAIN h[k] : h[k][y] = h[i][x]) =>
            \A j \in i..k : \E y \in DOMAIN h[j] : h[j][y] = h[i][x]

\* Three commits in a row of every kind.
AllHistories == {<<x, y, z>> : x, y, z \in Commits}
                  \cup {Renamed, Optional, <<Reading>>, Unanswered, Cyclic} \cup Outdated

\* Two or three, without a return, for runs that fail.
ForwardHistories ==
    {h \in {<<x, y>> : x, y \in Commits} : NoReturn(h)}
      \cup {Renamed, Optional, <<Reading>>, << <<B1, A1>>, <<B1, A2>>, <<A2>> >>}
      \cup Outdated

Within(histories, bound) == {[commits |-> h, maxFaults |-> bound] : h \in histories}

PassingHistories == Within(AllHistories, 0) \cup Within(ForwardHistories, 2)

\* These histories are among those that the proofs are about.
ASSUME CommonHistories ==
    \A h \in PassingHistories :
        /\ PathsStay(h) /\ OneDirection(h) /\ RefsAreDeps(h) /\ Distinct(h) /\ NoNumbers(h)
        /\ h.commits \notin {Renamed, <<Reading>>} => RenamesKeepData(h) /\ MethodsStay(h)
ASSUME ForwardIsMet == \A h \in Within(ForwardHistories, 2) : Forward(h)

\* A commit is taken back by the next one.
Revert == Within({<< <<A1>>, <<A2>>, <<A1>> >>}, 0)
\* The name and the data of a resource change in one commit.
RenamedAndChanged == Within({<< <<A1>>, <<Plain(b, p, d2)>> >>}, 0)
\* The path changes and nothing else.
Moved == Within({<< <<A1>>, <<Plain(a, q, d1)>> >>}, 0)
\* What c reads is not declared any more to be read.
ReadNoMore == Within({<<Reading, <<A1>> >>}, 0)
\* The same commit, with a template, again and again.
Steady == Within({<< <<A1, B1>> >>}, 0)
\* The dependency between two resources is turned round while one of them
\* changes; then both are removed.
TurnedRound == Within({<< <<A1, Post(b, q, d1, NoValue, {a})>>,
                   <<Post(a, p, d2, NoValue, {b}), Plain(b, q, d1)>>,
                   <<>> >>}, 0)
\* c takes its value from another resource, which then becomes what the first one is.
OtherTemplate ==
    Within({<< <<A1, Plain(b, q, d2), Post(c, r, d3, a, {a})>>,
               <<A1, Plain(b, q, d2), Post(c, r, d3, b, {b})>>,
               <<A1, Plain(b, q, d1), Post(c, r, d3, b, {b})>> >>}, 1)
=============================================================================
