---------------------------- MODULE CommitSearch ----------------------------
(***************************************************************************)
(* The loop of FindFirstSignedCommitFromRepo (pkg/git_repository/git.go)   *)
(* over the commit iterator that go-git returns for Log without an order:  *)
(* depth first, a commit before its parents, the first parent first, every *)
(* commit once.  The history, the dates and the outcome of the signature   *)
(* check are chosen at the start: every history of up to N commits.        *)
(***************************************************************************)
EXTENDS Integers, Sequences, FiniteSets

CONSTANTS
    N,              \* the commits are 1..N, parents before their children
    NoCommit,       \* the nil *CommitInfo
    MaxParents,     \* 1: linear histories, 2: with merges
    MaxDate,        \* dates are 0..MaxDate
    Now             \* currentTime

ASSUME SearchAssumption ==
    /\ N \in Nat \ {0} /\ NoCommit \notin 1..N
    /\ MaxParents \in Nat /\ MaxDate \in Nat /\ Now \in Nat

Commits == 1..N

VARIABLES
    parents,    \* the parents of every commit, in order
    date,       \* the committer date of every commit
    verified,   \* the commits with the required number of signatures
    head,       \* HEAD of the clone
    last,       \* lastFinishedCommit, or NoCommit
    log,        \* the log of HEAD, which only a property looks at
    todo,       \* the iterator: commits it has still to look at
    seen,       \* the iterator: commits it has returned
    pc,         \* "start", "search", "found", "none" or "failed"
    result      \* the returned *CommitInfo

repo == <<parents, date, verified, head, last, log>>
vars == <<repo, todo, seen, pc, result>>

\* The parents of a commit are distinct.
ParentLists ==
    {s \in UNION {[1..n -> 1..(N - 1)] : n \in 0..MaxParents} :
        \A i, j \in DOMAIN s : s[i] = s[j] => i = j}

Histories ==
    {f \in [Commits -> ParentLists] : \A c \in Commits : \A i \in DOMAIN f[c] : f[c][i] < c}

\* In the history f the log of c is the commits that can be reached from c, depth first:
\* next is the first parent not yet there of the latest commit that has such a parent.
ComesNext(f, s, i) ==
    LET before == {s[l] : l \in 1..(i - 1)}
    IN  \E j \in 1..(i - 1) :
           /\ \A l \in (j + 1)..(i - 1) : \A n \in DOMAIN f[s[l]] : f[s[l]][n] \in before
           /\ \E n \in DOMAIN f[s[j]] :
                 /\ s[i] = f[s[j]][n] /\ s[i] \notin before
                 /\ \A m \in 1..(n - 1) : f[s[j]][m] \in before

Logs(f, c) ==
    {s \in UNION {[1..n -> Commits] : n \in 1..N} :
        /\ s[1] = c
        /\ \A i \in DOMAIN s : i > 1 => ComesNext(f, s, i)
        /\ \A i \in DOMAIN s : \A n \in DOMAIN f[s[i]] : \E l \in DOMAIN s : s[l] = f[s[i]][n]}

Init ==
    /\ parents \in Histories
    /\ head = N
    /\ log \in Logs(parents, head)
    /\ date \in [Commits -> 0..MaxDate]
    /\ verified \in SUBSET Commits
    /\ last \in Commits \cup {NoCommit}
    /\ todo = <<>> /\ seen = {} /\ pc = "start" /\ result = NoCommit
-----------------------------------------------------------------------------
Finish(outcome, commit) == pc' = outcome /\ result' = commit

\* The boundary is HEAD itself: nothing is read, nothing is searched.
HeadIsBoundary ==
    /\ pc = "start"
    /\ last = head
    /\ Finish("none", NoCommit)
    /\ UNCHANGED <<repo, todo, seen>>

\* The trusted keys and the commit of HEAD are read, the log is opened.
OpenLog ==
    /\ pc = "start"
    /\ last # head
    /\ pc' = "search"
    /\ todo' = <<head>>
    /\ UNCHANGED <<repo, seen, result>>

\* One of the reads around the loop, or of the iterator in it, fails; the iterator is
\* closed.
Fail ==
    /\ pc \in {"start", "search"}
    /\ Finish("failed", NoCommit)
    /\ todo' = <<>> /\ seen' = {}
    /\ UNCHANGED repo

\* The iterator passes over a commit that it has returned before.
PassOver ==
    /\ pc = "search" /\ todo # <<>>
    /\ Head(todo) \in seen
    /\ todo' = Tail(todo)
    /\ UNCHANGED <<repo, seen, pc, result>>

\* The iterator returns the next commit; its parents come next.
Current == Head(todo)
HasNext == pc = "search" /\ todo # <<>> /\ Current \notin seen

\* Faulty: the parents are queued behind what is there already.
AdvanceBreadthFirst ==
    /\ todo' = Tail(todo) \o parents[Current]
    /\ seen' = seen \cup {Current}

Advance ==
    /\ todo' = parents[Current] \o Tail(todo)
    /\ seen' = seen \cup {Current}

\* Faulty: a commit of today counts as one of the future.
InFutureToday == date[Current] >= Now

\* Faulty: commits may be dated a day ahead.
InFutureLate == date[Current] > Now + 1

\* The checks of the loop body, in the order of the code.
AtBoundary == last # NoCommit /\ Current = last
InFuture   == date[Current] > Now
TooOld     == last # NoCommit /\ date[Current] < date[last]

ReachBoundary ==
    /\ HasNext /\ AtBoundary
    /\ Advance
    /\ Finish("none", NoCommit)
    /\ UNCHANGED repo

SkipUnverified ==
    /\ HasNext /\ ~AtBoundary
    /\ Current \notin verified
    /\ Advance
    /\ UNCHANGED <<repo, pc, result>>

SkipFuture ==
    /\ HasNext /\ ~AtBoundary /\ Current \in verified
    /\ InFuture
    /\ Advance
    /\ UNCHANGED <<repo, pc, result>>

SkipOlder ==
    /\ HasNext /\ ~AtBoundary /\ Current \in verified /\ ~InFuture
    /\ TooOld
    /\ Advance
    /\ UNCHANGED <<repo, pc, result>>

ReturnCommit ==
    /\ HasNext /\ ~AtBoundary /\ Current \in verified /\ ~InFuture /\ ~TooOld
    /\ Advance
    /\ Finish("found", Current)
    /\ UNCHANGED repo

\* Faulty: the end of the log is not told from a commit without signatures.
ExhaustedGoesOn ==
    /\ pc = "search" /\ todo = <<>>
    /\ UNCHANGED vars

\* io.EOF
Exhausted ==
    /\ pc = "search" /\ todo = <<>>
    /\ Finish("none", NoCommit)
    /\ UNCHANGED <<repo, todo, seen>>

Loop ==
    \/ HeadIsBoundary \/ OpenLog \/ PassOver \/ ReachBoundary \/ SkipUnverified
    \/ SkipFuture \/ SkipOlder \/ ReturnCommit \/ Exhausted

Next == Loop \/ Fail

\* A search runs until it returns, without the help of a failure.
Spec == Init /\ [][Next]_vars /\ WF_vars(Loop)
-----------------------------------------------------------------------------
\* c, and what can be reached from it by parents: what every set with c in it that
\* is closed under parents holds.
ParentSet(c) == {parents[c][i] : i \in DOMAIN parents[c]}
Closed(S)    == \A c \in S : ParentSet(c) \subseteq S

Ancestors(c) ==
    {a \in Commits : \A S \in SUBSET Commits : c \in S /\ Closed(S) => a \in S}

\* The type invariant; there is a result exactly when one was found.
TypeOK ==
    /\ parents \in [Commits -> Seq(Commits)]
    /\ date \in [Commits -> 0..MaxDate]
    /\ verified \subseteq Commits
    /\ head \in Commits /\ last \in Commits \cup {NoCommit}
    /\ todo \in Seq(Commits) /\ seen \subseteq Commits
    /\ pc \in {"start", "search", "found", "none", "failed"}
    /\ result \in Commits \cup {NoCommit}
    /\ pc = "found" <=> result # NoCommit

\* A commit that the checks of the loop let pass.
Processable(c) ==
    c \in verified /\ date[c] <= Now /\ (last # NoCommit => date[c] >= date[last])

\* What the search returns can be processed: it belongs to the branch, is signed,
\* not dated in the future and not older than the last finished commit.  And where
\* no boundary is on the branch, as on the first run or after a forced push, a
\* search that ends with nothing has looked at all of it.
OutcomeIsRight ==
    /\ pc = "found" => result \in Ancestors(head) \ {last} /\ Processable(result)
    /\ pc = "none" /\ last \notin Ancestors(head) =>
          \A c \in Ancestors(head) : ~Processable(c)

\* The commits the branch has gained since the last finished one.
NewCommits ==
    IF last = NoCommit THEN Ancestors(head) ELSE Ancestors(head) \ Ancestors(last)

\* "When new commits are found that are signed with the required number of
\* signatures, it applies the configuration" (README.md:7): a search that ends
\* with nothing has left no such new commit.
NoNewCommitMissed ==
    pc = "none" => \A c \in NewCommits : ~Processable(c)

Linear == \A c \in Commits : Len(parents[c]) <= 1

\* Without merges the boundary is where it should be, whatever the dates are: a
\* search misses nothing new, and what it returns is the newest commit that can be
\* processed.
ResultIsNewest ==
    Linear =>
        /\ NoNewCommitMissed
        /\ pc = "found" =>
              \A c \in Ancestors(head) :
                  result \in Ancestors(c) /\ c # result => ~Processable(c)

Rules == INSTANCE CommitRules WITH Date <- date

\* The loop returns what the rule of CommitRules says of the log, the first commit that
\* can be processed before the boundary, and nil exactly when the rule allows nil.
SearchFollowsRule ==
    LET good == {c \in Commits : Processable(c)}
    IN  /\ pc = "found" => \E i \in DOMAIN log : /\ result = log[i]
                                               /\ Rules!FirstHit(log, last, good, i)
        /\ pc = "none" => Rules!NoHit(log, last, good)

\* A search ends, whatever the history.
SearchEnds == <>(pc \in {"found", "none", "failed"})
=============================================================================
