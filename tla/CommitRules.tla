---------------------------- MODULE CommitRules ----------------------------
(***************************************************************************)
(* Which commit a search of the repository may return: the rules that      *)
(* FindFirstSignedCommitFromRepo (pkg/git_repository/git.go) applies to    *)
(* the commits of a log, without the loop that applies them.               *)
(***************************************************************************)
EXTENDS Sequences, SignatureRule

CONSTANTS
    Commits,        \* commits, named by their hashes
    NoCommit,       \* the nil *CommitInfo: nothing finished, nothing found
    Date            \* committer date of every commit

ASSUME CommitAssumption ==
    /\ NoCommit \notin Commits
    /\ Date \in [Commits -> Nat]

\* A commit dated before the last finished one is skipped.
NotOlder(c, last) == last = NoCommit \/ Date[c] >= Date[last]

\* Faulty: the date of the last finished commit is not looked at.
AcceptableAnyAge(last, signed, trusted, required, today) ==
    {c \in Commits : Verified(signed[c], trusted, required) /\ Date[c] <= today}

\* The commits that pass every check of the search loop.
Acceptable(last, signed, trusted, required, today) ==
    {c \in Commits : /\ Verified(signed[c], trusted, required)
                     /\ Date[c] <= today
                     /\ NotOlder(c, last)}

\* The loop returns log[i]: nothing before it was good, nothing up to it was
\* the boundary, at which the search stops.
FirstHit(log, last, good, i) ==
    /\ log[i] \in good
    /\ \A j \in 1..i : log[j] # last /\ (j < i => log[j] \notin good)

\* The loop returns nil: whatever is good lies at or behind the boundary.
NoHit(log, last, good) ==
    \A i \in 1..Len(log) : log[i] \in good => \E j \in 1..i : log[j] = last
=============================================================================
