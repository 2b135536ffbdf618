------------------------- MODULE CommitSearchProofs -------------------------
(***************************************************************************)
(* Proofs about the search for a signed commit, for histories of any       *)
(* length with any number of parents, any dates and any outcome of the     *)
(* signature checks.                                                       *)
(*                                                                         *)
(* OutcomeIsRight is not inductive: the iterator could hold anything.      *)
(* What is inductive is, for the commit that is returned, that everything  *)
(* the iterator has still to look at can be reached from HEAD, and, for    *)
(* the search that returns none, that what the iterator has returned and   *)
(* what it has still to look at cover HEAD and the parents of all that it  *)
(* has returned, none of which can be processed.  When there is nothing    *)
(* left to look at, the commits returned are closed under parents.         *)
(*                                                                         *)
(* Without merges the iterator has at most one commit to look at, so what  *)
(* it has not returned yet is behind that one: ResultIsNewest.             *)
(*                                                                         *)
(* That the loop obeys the rule of the log needs what the iterator does to *)
(* the log: it returns the log in its order, because what it has still to  *)
(* look at comes next in turn, and when nothing is left the log is at its  *)
(* end.  Every history has such a log: the longest walk from a commit has  *)
(* nowhere to go.                                                          *)
(***************************************************************************)
EXTENDS CommitSearch, SequenceTheorems, FiniteSetTheorems, WellFoundedInduction, TLAPS

\* Everything the iterator has still to look at is on the branch.
OnBranch == todo \in Seq(Ancestors(head))

Elements(s) == {s[i] : i \in DOMAIN s}

\* The iterator has returned nothing that can be processed, and it has lost nothing.
Covering ==
    /\ pc = "start" => seen = {}
    /\ pc = "search" =>
          /\ head \in seen \cup Elements(todo)
          /\ \A c \in seen : /\ ParentSet(c) \subseteq seen \cup Elements(todo)
                            /\ ~Processable(c)

SearchInv == TypeOK /\ OnBranch /\ Covering /\ OutcomeIsRight

\* A commit is among its own ancestors, and so are the parents of each of them.
LEMMA AncestorsAreClosed ==
    ASSUME parents \in [Commits -> Seq(Commits)], NEW c \in Commits
    PROVE  /\ c \in Ancestors(c)
           /\ \A a \in Ancestors(c) : ParentSet(a) \subseteq Ancestors(c)
  <1>1. c \in Ancestors(c)
    BY DEF Ancestors
  <1>2. ASSUME NEW a \in Ancestors(c), NEW p \in ParentSet(a)
        PROVE  p \in Ancestors(c)
    <2>1. a \in Commits
      BY DEF Ancestors
    <2>2. parents[a] \in [1..Len(parents[a]) -> Commits]
      BY <2>1, LenProperties
    <2>3. p \in Commits
      BY <1>2, <2>2 DEF ParentSet
    <2>4. ASSUME NEW S \in SUBSET Commits, c \in S, Closed(S)
          PROVE  p \in S
      BY <1>2, <2>4 DEF Ancestors, Closed
    <2>5. QED
      BY <2>3, <2>4 DEF Ancestors
  <1>3. QED
    BY <1>1, <1>2

\* The list of the parents of a commit on the branch is a list of such commits.
LEMMA ParentsOnBranch ==
    ASSUME parents \in [Commits -> Seq(Commits)], NEW c \in Commits, NEW a \in Ancestors(c)
    PROVE  parents[a] \in Seq(Ancestors(c))
  <1>1. a \in Commits
    BY DEF Ancestors
  <1>2. /\ Len(parents[a]) \in Nat
        /\ parents[a] \in [1..Len(parents[a]) -> Commits]
        /\ DOMAIN parents[a] = 1..Len(parents[a])
    BY <1>1, LenProperties
  <1>3. \A i \in DOMAIN parents[a] : parents[a][i] \in Ancestors(c)
    BY AncestorsAreClosed DEF ParentSet
  <1>4. parents[a] \in [1..Len(parents[a]) -> Ancestors(c)]
    BY <1>2, <1>3
  <1>5. \A A, n, f : n \in Nat /\ f \in [1..n -> A] => f \in Seq(A)
    OBVIOUS
  <1>6. QED
    BY <1>2, <1>4, <1>5

LEMMA ElementsOfConcat ==
    ASSUME NEW S, NEW s \in Seq(S), NEW t \in Seq(S)
    PROVE  Elements(s \o t) = Elements(s) \cup Elements(t)
  <1>1. /\ Len(s) \in Nat /\ Len(t) \in Nat /\ Len(s \o t) = Len(s) + Len(t)
        /\ DOMAIN s = 1..Len(s) /\ DOMAIN t = 1..Len(t)
        /\ DOMAIN (s \o t) = 1..(Len(s) + Len(t))
    BY ConcatProperties, LenProperties
  <1>2. \A i \in DOMAIN (s \o t) : (s \o t)[i] = IF i <= Len(s) THEN s[i] ELSE t[i - Len(s)]
    BY <1>1, ConcatProperties
  <1>3. ASSUME NEW i \in DOMAIN s
        PROVE  s[i] \in Elements(s \o t)
    <2>1. i \in DOMAIN (s \o t) /\ (s \o t)[i] = s[i]
      BY <1>1, <1>2
    <2>2. QED
      BY <2>1 DEF Elements
  <1>4. ASSUME NEW i \in DOMAIN t
        PROVE  t[i] \in Elements(s \o t)
    <2>1. i + Len(s) \in DOMAIN (s \o t) /\ (s \o t)[i + Len(s)] = t[i]
      BY <1>1, <1>2
    <2>2. QED
      BY <2>1 DEF Elements
  <1>5. ASSUME NEW i \in DOMAIN (s \o t)
        PROVE  (s \o t)[i] \in Elements(s) \cup Elements(t)
    <2>1. CASE i <= Len(s)
      BY <1>1, <1>2, <2>1 DEF Elements
    <2>2. CASE ~(i <= Len(s))
      <3>1. i - Len(s) \in DOMAIN t /\ (s \o t)[i] = t[i - Len(s)]
        BY <1>1, <1>2, <2>2
      <3>2. QED
        BY <3>1 DEF Elements
    <2>3. QED
      BY <2>1, <2>2
  <1>6. QED
    BY <1>3, <1>4, <1>5 DEF Elements

LEMMA ElementsOfTail ==
    ASSUME NEW S, NEW s \in Seq(S), s # <<>>
    PROVE  Elements(s) = {Head(s)} \cup Elements(Tail(s))
  <1>1. /\ <<Head(s)>> \in Seq(S) /\ Tail(s) \in Seq(S)
        /\ s = <<Head(s)>> \o Tail(s)
    <2>1. Head(s) \in S /\ Tail(s) \in Seq(S) /\ Len(Tail(s)) = Len(s) - 1
          /\ \A i \in 1..Len(Tail(s)) : Tail(s)[i] = s[i + 1]
      BY HeadTailProperties
    <2>2. /\ Len(s) \in Nat \ {0} /\ <<Head(s)>> \in Seq(S) /\ Len(<<Head(s)>>) = 1
          /\ Head(s) = s[1] /\ <<Head(s)>>[1] = s[1]
      BY <2>1, EmptySeq
    <2>3. /\ <<Head(s)>> \o Tail(s) \in Seq(S) /\ Len(<<Head(s)>> \o Tail(s)) = Len(s)
          /\ \A i \in 1..Len(s) : (<<Head(s)>> \o Tail(s))[i] =
                IF i <= 1 THEN <<Head(s)>>[i] ELSE Tail(s)[i - 1]
      BY <2>1, <2>2, ConcatProperties
    <2>4. \A i \in 1..Len(s) : (<<Head(s)>> \o Tail(s))[i] = s[i]
      BY <2>1, <2>2, <2>3
    <2>5. QED
      BY <2>1, <2>2, <2>3, <2>4, SeqEqual
  <1>2. Elements(<<Head(s)>>) = {Head(s)}
    BY DEF Elements
  <1>3. Elements(s) = Elements(<<Head(s)>>) \cup Elements(Tail(s))
    <2>1. Elements(<<Head(s)>> \o Tail(s)) = Elements(<<Head(s)>>) \cup Elements(Tail(s))
      BY <1>1, ElementsOfConcat
    <2>2. QED
      BY <1>1, <2>1
  <1>4. QED
    BY <1>2, <1>3

LEMMA InitInv == Init => SearchInv
  <1> SUFFICES ASSUME Init PROVE SearchInv
    OBVIOUS
  <1> USE SearchAssumption DEF Init, Commits
  <1>1. ParentLists \subseteq Seq(Commits)
    <2> SUFFICES ASSUME NEW s \in ParentLists PROVE s \in Seq(Commits)
      OBVIOUS
    <2>1. PICK n \in 0..MaxParents : s \in [1..n -> 1..(N - 1)]
      BY DEF ParentLists
    <2>2. n \in Nat /\ s \in [1..n -> 1..N]
      BY <2>1
    <2>3. QED
      BY <2>2
  <1>2. parents \in [Commits -> Seq(Commits)]
    BY <1>1 DEF Histories
  <1>3. TypeOK
    BY <1>2, EmptySeq DEF TypeOK
  <1>4. OnBranch
    BY EmptySeq DEF OnBranch
  <1>5. QED
    BY <1>3, <1>4 DEF SearchInv, Covering, OutcomeIsRight

\* What a step of the loop does to the iterator keeps it on the branch.
LEMMA AdvanceOnBranch ==
    ASSUME TypeOK, OnBranch, todo # <<>>
    PROVE  /\ Current \in Ancestors(head) /\ Current \in Commits
           /\ Tail(todo) \in Seq(Ancestors(head)) /\ Tail(todo) \in Seq(Commits)
           /\ Advance => /\ todo' \in Seq(Ancestors(head)) /\ todo' \in Seq(Commits)
                         /\ seen' \subseteq Commits
  <1>1. /\ Current \in Ancestors(head) /\ Tail(todo) \in Seq(Ancestors(head))
        /\ Current \in Commits /\ Tail(todo) \in Seq(Commits)
    BY HeadTailProperties DEF OnBranch, TypeOK, Current
  <1>2. parents[Current] \in Seq(Ancestors(head)) /\ parents[Current] \in Seq(Commits)
    BY <1>1, ParentsOnBranch DEF TypeOK
  <1>3. ASSUME Advance
        PROVE  todo' \in Seq(Ancestors(head)) /\ todo' \in Seq(Commits) /\ seen' \subseteq Commits
    BY <1>1, <1>2, <1>3, ConcatProperties DEF Advance, TypeOK
  <1>4. QED
    BY <1>1, <1>3

\* A history that stays as it is keeps its branch, and its commits what they are.
LEMMA BranchStays ==
    ASSUME UNCHANGED repo
    PROVE  /\ Ancestors(head)' = Ancestors(head)
           /\ \A c : /\ ParentSet(c)' = ParentSet(c)
                     /\ Processable(c)' <=> Processable(c)
  BY DEF repo, Ancestors, Closed, ParentSet, Processable

\* A commit that is skipped is covered from now on by its parents.
LEMMA AdvanceCovers ==
    ASSUME TypeOK, OnBranch, Covering, pc = "search", todo # <<>>, Advance,
           UNCHANGED <<repo, pc>>, ~Processable(Current)
    PROVE  Covering'
  <1>1. Elements(todo) = {Current} \cup Elements(Tail(todo))
    BY ElementsOfTail DEF TypeOK, Current
  <1>2. Elements(todo') = ParentSet(Current) \cup Elements(Tail(todo))
    <2>1. parents[Current] \in Seq(Commits) /\ Tail(todo) \in Seq(Commits)
      BY AdvanceOnBranch DEF TypeOK
    <2>2. Elements(parents[Current] \o Tail(todo)) =
            Elements(parents[Current]) \cup Elements(Tail(todo))
      BY <2>1, ElementsOfConcat
    <2>3. QED
      BY <2>2 DEF Advance, Elements, ParentSet
  <1>3. seen \cup Elements(todo) \subseteq seen' \cup Elements(todo')
    BY <1>1, <1>2 DEF Advance
  <1>4. head \in seen' \cup Elements(todo')
    BY <1>3 DEF Covering
  <1>5. ASSUME NEW c \in seen'
        PROVE  ParentSet(c) \subseteq seen' \cup Elements(todo') /\ ~Processable(c)
    BY <1>2, <1>3 DEF Advance, Covering
  <1>6. (seen \cup Elements(todo))' = seen' \cup Elements(todo')
    BY DEF Elements
  <1>7. head' = head /\ pc' = "search"
    BY DEF repo
  <1>8. /\ head' \in seen' \cup Elements(todo')
        /\ \A c \in seen' : /\ ParentSet(c)' \subseteq seen' \cup Elements(todo')
                           /\ ~Processable(c)'
    BY <1>4, <1>5, <1>7, BranchStays
  <1>9. QED
    BY <1>6, <1>7, <1>8 DEF Covering

\* With nothing left to look at, all of the branch has been returned.
LEMMA ExhaustedCovers ==
    ASSUME TypeOK, Covering, pc = "search", todo = <<>>
    PROVE  \A c \in Ancestors(head) : ~Processable(c)
  <1>1. Elements(todo) = {}
    BY DEF Elements
  <1>2. head \in seen /\ Closed(seen) /\ seen \in SUBSET Commits
    BY <1>1 DEF Covering, Closed, TypeOK
  <1>3. Ancestors(head) \subseteq seen
    BY <1>2 DEF Ancestors
  <1>4. QED
    BY <1>3 DEF Covering

LEMMA StepInv == SearchInv /\ [Next]_vars => SearchInv'
  <1> SUFFICES ASSUME SearchInv, [Next]_vars PROVE SearchInv'
    OBVIOUS
  <1> USE DEF SearchInv
  <1>1. CASE UNCHANGED vars
    BY <1>1, BranchStays
       DEF vars, repo, TypeOK, OnBranch, Covering, Elements, OutcomeIsRight
  <1>2. CASE HeadIsBoundary
    <2>1. last \in Ancestors(head)
      BY <1>2, AncestorsAreClosed DEF HeadIsBoundary, TypeOK
    <2>2. QED
      BY <1>2, <2>1, BranchStays
         DEF HeadIsBoundary, Finish, repo, TypeOK, OnBranch, Covering, OutcomeIsRight
  <1>3. CASE Fail
    BY <1>3, BranchStays, EmptySeq
       DEF Fail, Finish, repo, TypeOK, OnBranch, Covering, OutcomeIsRight
  <1>4. CASE Exhausted
    BY <1>4, ExhaustedCovers, BranchStays
       DEF Exhausted, Finish, repo, TypeOK, OnBranch, Covering, OutcomeIsRight
  <1>5. CASE OpenLog
    <2>1. /\ <<head>> \in Seq(Ancestors(head)) /\ <<head>> \in Seq(Commits)
          /\ head \in Elements(<<head>>)
      BY AncestorsAreClosed DEF TypeOK, Elements
    <2>2. Covering'
      BY <1>5, <2>1 DEF OpenLog, repo, Covering, Elements
    <2>3. QED
      BY <1>5, <2>1, <2>2, BranchStays DEF OpenLog, repo, TypeOK, OnBranch, OutcomeIsRight
  <1>6. CASE PassOver
    <2>1. Elements(todo) = {Head(todo)} \cup Elements(Tail(todo))
      BY <1>6, ElementsOfTail DEF PassOver, TypeOK
    <2>2. seen \cup Elements(todo') = seen \cup Elements(todo)
      BY <1>6, <2>1 DEF PassOver
    <2>3. Covering'
      BY <1>6, <2>2, BranchStays DEF PassOver, repo, Covering, Elements
    <2>4. QED
      BY <1>6, <2>3, AdvanceOnBranch, BranchStays
         DEF PassOver, repo, TypeOK, OnBranch, OutcomeIsRight
  <1>7. CASE ReachBoundary
    <2>1. HasNext /\ Advance /\ UNCHANGED repo /\ Current = last /\ pc' = "none"
      BY <1>7 DEF ReachBoundary, AtBoundary, Finish
    <2>2. /\ todo' \in Seq(Ancestors(head)) /\ todo' \in Seq(Commits) /\ seen' \subseteq Commits
          /\ last \in Ancestors(head)
      BY <2>1, AdvanceOnBranch DEF HasNext
    <2>3. QED
      BY <1>7, <2>1, <2>2, BranchStays
         DEF ReachBoundary, Finish, repo, TypeOK, OnBranch, Covering, OutcomeIsRight
  <1>8. CASE SkipUnverified \/ SkipFuture \/ SkipOlder
    <2>1. HasNext /\ Advance /\ UNCHANGED <<repo, pc, result>>
      BY <1>8 DEF SkipUnverified, SkipFuture, SkipOlder
    <2>2. /\ todo' \in Seq(Ancestors(head)) /\ todo' \in Seq(Commits) /\ seen' \subseteq Commits
          /\ Current \in Commits
      BY <2>1, AdvanceOnBranch DEF HasNext
    <2>3. ~Processable(Current)
      BY <1>8, <2>2, SearchAssumption
         DEF SkipUnverified, SkipFuture, SkipOlder, InFuture, TooOld, Processable, TypeOK
    <2>4. Covering'
      BY <2>1, <2>3, AdvanceCovers DEF HasNext, repo
    <2>5. pc' = "search" /\ result' = NoCommit
      BY <2>1 DEF HasNext, TypeOK
    <2>6. QED
      BY <2>1, <2>2, <2>4, <2>5, BranchStays DEF repo, TypeOK, OnBranch, OutcomeIsRight
  <1>9. CASE ReturnCommit
    <2>1. HasNext /\ Advance /\ UNCHANGED repo /\ pc' = "found" /\ result' = Current
      BY <1>9 DEF ReturnCommit, Finish
    <2>2. /\ todo' \in Seq(Ancestors(head)) /\ todo' \in Seq(Commits) /\ seen' \subseteq Commits
          /\ Current \in Ancestors(head) /\ Current \in Commits
      BY <2>1, AdvanceOnBranch DEF HasNext
    <2>3. Current # NoCommit
      BY <2>2, SearchAssumption DEF Commits
    <2>4. TypeOK' /\ OnBranch' /\ Covering'
      BY <2>1, <2>2, <2>3, BranchStays DEF repo, TypeOK, OnBranch, Covering
    <2>5. Processable(Current) /\ Current # last
      BY <1>9, <2>2, <2>3, SearchAssumption
         DEF ReturnCommit, AtBoundary, InFuture, TooOld, TypeOK, Processable
    <2>6. OutcomeIsRight'
      BY <2>1, <2>2, <2>5, BranchStays DEF repo, OutcomeIsRight, Processable
    <2>7. QED
      BY <2>4, <2>6
  <1>10. QED
    BY <1>1, <1>2, <1>3, <1>4, <1>5, <1>6, <1>7, <1>8, <1>9 DEF Next, Loop

\* The inductive invariant of the search: its variables keep their types, the
\* iterator stays on the branch and loses nothing, and the outcome is right.
THEOREM SearchInvariance == Spec => []SearchInv
  BY InitInv, StepInv, PTL DEF Spec

\* A commit that the search returns belongs to the branch, has its signatures, is not
\* dated in the future and not older than the last finished commit; and a search that
\* meets no boundary returns none only if there is none (git.go:94).
THEOREM SearchIsRight == Spec => []OutcomeIsRight
  <1>1. SearchInv => OutcomeIsRight
    BY DEF SearchInv
  <1>2. QED
    BY <1>1, SearchInvariance, PTL
-----------------------------------------------------------------------------
\* A commit is made after its parents.
Downward == \A c \in Commits : \A p \in ParentSet(c) : p < c

\* Without merges the iterator has one commit to look at, or none.
OneAtATime == Linear => Len(todo) <= 1

NewestInv == SearchInv /\ Downward /\ OneAtATime /\ ResultIsNewest

\* Whatever the branch holds has been returned by the iterator, or can be reached from
\* what it has still to look at.
LEMMA BranchIsCovered ==
    ASSUME TypeOK, Covering, pc = "search"
    PROVE  \A c \in Ancestors(head) : c \in seen \/ \E t \in Elements(todo) : c \in Ancestors(t)
  <1> DEFINE S == seen \cup UNION {Ancestors(t) : t \in Elements(todo)}
  <1>1. Elements(todo) \subseteq Commits
    BY LenProperties DEF TypeOK, Elements
  <1>2. Elements(todo) \subseteq S
    BY <1>1, AncestorsAreClosed DEF TypeOK
  <1>3. Closed(S)
    BY <1>1, <1>2, AncestorsAreClosed DEF Closed, Covering, TypeOK
  <1>4. S \in SUBSET Commits /\ head \in S
    BY <1>2 DEF TypeOK, Covering, Ancestors
  <1> QED
    BY <1>3, <1>4 DEF Ancestors

\* Two commits that can be reached from each other are one.
LEMMA NoCycles ==
    ASSUME Downward, parents \in [Commits -> Seq(Commits)],
           NEW c \in Commits, NEW a \in Ancestors(c), c \in Ancestors(a)
    PROVE  a = c
  <1>1. ASSUME NEW d \in Commits, NEW b \in Ancestors(d) PROVE b <= d
    <2>1. ASSUME NEW e \in 1..d PROVE ParentSet(e) \subseteq 1..d
      <3>1. e \in Commits /\ \A p \in ParentSet(e) : p < e
        BY <1>1, SearchAssumption DEF Commits, Downward
      <3>2. ParentSet(e) \subseteq Commits
        BY <3>1, LenProperties DEF ParentSet
      <3> QED
        BY <1>1, <3>1, <3>2, SearchAssumption DEF Commits
    <2>2. Closed(1..d) /\ d \in 1..d /\ 1..d \in SUBSET Commits
      BY <1>1, <2>1, SearchAssumption DEF Closed, Commits
    <2>3. b \in 1..d
      BY <1>1, <2>2 DEF Ancestors
    <2> QED
      BY <2>3
  <1>2. a \in Commits
    BY DEF Ancestors
  <1>3. a <= c /\ c <= a
    BY <1>1, <1>2
  <1> QED
    BY <1>2, <1>3, SearchAssumption DEF Commits

\* Without merges, what has not been returned when a commit comes is behind it.
LEMMA RestIsBehind ==
    ASSUME NewestInv, Linear, HasNext
    PROVE  /\ Current \in Commits
           /\ \A c \in Ancestors(head) : Processable(c) => c \in Ancestors(Current)
  <1> USE DEF NewestInv, SearchInv
  <1>1. Len(todo) = 1 /\ todo[1] = Current /\ DOMAIN todo = 1..1 /\ Current \in Commits
    <2>1. Len(todo) \in Nat /\ DOMAIN todo = 1..Len(todo) /\ Len(todo) <= 1
      BY LenProperties DEF TypeOK, OneAtATime
    <2>2. Len(todo) # 0
      BY EmptySeq DEF HasNext, TypeOK
    <2>3. Current = todo[1] /\ Current \in Commits
      BY HeadTailProperties DEF HasNext, Current, TypeOK
    <2> QED
      BY <2>1, <2>2, <2>3
  <1>2. Elements(todo) = {Current}
    BY <1>1 DEF Elements
  <1> QED
    BY <1>1, <1>2, BranchIsCovered DEF HasNext, Covering

LEMMA InitNewest == Init => NewestInv
  <1> SUFFICES ASSUME Init PROVE NewestInv
    OBVIOUS
  <1>1. Downward
    BY DEF Init, Histories, Downward, ParentSet
  <1>2. OneAtATime /\ ResultIsNewest
    BY DEF Init, OneAtATime, ResultIsNewest, NoNewCommitMissed
  <1> QED
    BY <1>1, <1>2, InitInv DEF NewestInv

\* What the history says stays as it is.
LEMMA HistoryStays ==
    ASSUME UNCHANGED repo
    PROVE  /\ Downward' = Downward /\ Linear' = Linear /\ head' = head
           /\ \A c : Ancestors(c)' = Ancestors(c)
           /\ \A c : Processable(c)' <=> Processable(c)
           /\ NewCommits' = NewCommits
  BY DEF repo, Downward, Linear, Ancestors, Closed, ParentSet, Processable, NewCommits

LEMMA StepOneAtATime ==
    ASSUME NewestInv, [Next]_vars
    PROVE  OneAtATime'
  <1> USE DEF NewestInv, SearchInv
  <1> SUFFICES ASSUME Linear PROVE Len(todo') <= 1
    BY HistoryStays DEF OneAtATime, vars, Next, Loop, HeadIsBoundary, OpenLog, Fail, PassOver,
       ReachBoundary, SkipUnverified, SkipFuture, SkipOlder, ReturnCommit, Exhausted, repo
  <1>1. Len(todo) \in Nat /\ Len(todo) <= 1
    BY LenProperties DEF OneAtATime, TypeOK
  <1>2. todo # <<>> => Tail(todo) \in Seq(Commits) /\ Len(Tail(todo)) = Len(todo) - 1
    BY HeadTailProperties DEF TypeOK
  <1>3. CASE todo' = todo
    BY <1>1, <1>3
  <1>4. CASE OpenLog \/ todo' = <<>>
    BY <1>4, EmptySeq DEF OpenLog
  <1>5. CASE PassOver
    BY <1>1, <1>2, <1>5 DEF PassOver
  <1>6. CASE HasNext /\ Advance
    <2>1. Current \in Commits /\ parents[Current] \in Seq(Commits) /\ Len(parents[Current]) <= 1
          /\ Len(parents[Current]) \in Nat
      BY <1>6, RestIsBehind, LenProperties DEF Linear, TypeOK
    <2>2. Len(todo') = Len(parents[Current]) + Len(Tail(todo))
      BY <1>2, <1>6, <2>1, ConcatProperties DEF HasNext, Advance
    <2> QED
      BY <1>1, <1>2, <1>6, <2>1, <2>2 DEF HasNext
  <1> QED
    BY <1>3, <1>4, <1>5, <1>6 DEF vars, Next, Loop, HeadIsBoundary, Fail, ReachBoundary,
       SkipUnverified, SkipFuture, SkipOlder, ReturnCommit, Exhausted

LEMMA StepNewest == NewestInv /\ [Next]_vars => NewestInv'
  <1> SUFFICES ASSUME NewestInv, [Next]_vars PROVE NewestInv'
    OBVIOUS
  <1> USE DEF NewestInv
  <1>1. UNCHANGED repo
    BY DEF vars, Next, Loop, HeadIsBoundary, OpenLog, Fail, PassOver, ReachBoundary,
       SkipUnverified, SkipFuture, SkipOlder, ReturnCommit, Exhausted
  <1>2. SearchInv' /\ Downward' /\ OneAtATime'
    BY <1>1, StepInv, StepOneAtATime, HistoryStays
  <1>3. SUFFICES ASSUME Linear
                 PROVE  /\ pc' = "none" => \A c \in NewCommits : ~Processable(c)
                        /\ pc' = "found" => \A c \in Ancestors(head) :
                              result' \in Ancestors(c) /\ c # result' => ~Processable(c)
    BY <1>1, <1>2, HistoryStays DEF ResultIsNewest, NoNewCommitMissed
  <1>4. NewCommits \subseteq Ancestors(head) /\ head \in Commits /\ Ancestors(head) \subseteq Commits
        /\ parents \in [Commits -> Seq(Commits)] /\ NoCommit \notin Commits
    BY SearchAssumption DEF NewCommits, SearchInv, TypeOK, Ancestors, Commits
  <1>5. CASE UNCHANGED <<pc, result>>
    BY <1>3, <1>5 DEF ResultIsNewest, NoNewCommitMissed
  <1>6. CASE HeadIsBoundary
    BY <1>4, <1>6 DEF HeadIsBoundary, Finish, NewCommits
  <1>7. CASE OpenLog \/ Fail
    BY <1>7 DEF OpenLog, Fail, Finish
  <1>8. CASE Exhausted
    BY <1>4, <1>8, ExhaustedCovers DEF Exhausted, Finish, SearchInv
  <1>9. CASE ReachBoundary
    <2>1. HasNext /\ Current = last /\ last # NoCommit /\ pc' = "none"
      BY <1>9 DEF ReachBoundary, AtBoundary, Finish
    <2> QED
      BY <1>3, <2>1, RestIsBehind DEF NewCommits
  <1>10. CASE ReturnCommit
    <2>1. HasNext /\ result' = Current /\ pc' = "found"
      BY <1>10 DEF ReturnCommit, Finish
    <2> SUFFICES ASSUME NEW c \in Ancestors(head), Current \in Ancestors(c), Processable(c)
                 PROVE  c = Current
      BY <2>1
    <2>2. Current \in Commits /\ c \in Ancestors(Current)
      BY <1>3, <2>1, RestIsBehind
    <2> QED
      BY <1>4, <2>2, NoCycles
  <1> QED
    BY <1>5, <1>6, <1>7, <1>8, <1>9, <1>10
       DEF vars, Next, Loop, PassOver, SkipUnverified, SkipFuture, SkipOlder

\* Without merges, the iterator goes down the branch one commit at a time.
THEOREM NewestInvariance == Spec => []NewestInv
  BY InitNewest, StepNewest, PTL DEF Spec

\* ResultIsNewest: without merges a search passes over no newer commit that could be
\* processed, and one that stops at the boundary misses no new one (git.go:94).
THEOREM SearchFindsTheNewest == Spec => []ResultIsNewest
  <1>1. NewestInv => ResultIsNewest
    BY DEF NewestInv
  <1> QED
    BY NewestInvariance, <1>1, PTL
-----------------------------------------------------------------------------
\* The iterator returns the log in its order.

\* It has returned the first k commits of the log, and what it looks at comes next in
\* turn: of all that the parents of those k list, what would come before it has been
\* returned or is looked at before it.
InTurn(k, a) ==
    LET gone == seen \cup {todo[b] : b \in 1..(a - 1)}
    IN  \E j \in 1..k : \E n \in DOMAIN parents[log[j]] :
           /\ todo[a] = parents[log[j]][n]
           /\ \A l \in (j + 1)..k : ParentSet(log[l]) \subseteq gone
           /\ \A m \in 1..(n - 1) : parents[log[j]][m] \in gone

Returned(k) ==
    /\ seen = {log[i] : i \in 1..k}
    /\ k = 0 => todo = <<head>>
    /\ k > 0 => \A a \in DOMAIN todo : InTurn(k, a)

WalkInv ==
    /\ log \in Logs(parents, head)
    /\ pc = "search" => last \notin seen /\ \E k \in 0..Len(log) : Returned(k)

RuleInv == SearchInv /\ WalkInv /\ SearchFollowsRule

LEMMA LogIsSeq ==
    ASSUME NEW f, NEW c, NEW s \in Logs(f, c)
    PROVE  /\ s \in Seq(Commits) /\ DOMAIN s = 1..Len(s) /\ Len(s) \in Nat \ {0}
           /\ s[1] = c
           /\ \A i \in DOMAIN s : s[i] \in Commits
  <1>1. PICK n \in 1..N : s \in [1..n -> Commits] /\ s[1] = c
    BY DEF Logs
  <1>2. n \in Nat \ {0}
    BY SearchAssumption
  <1>3. s \in Seq(Commits)
    BY <1>1, <1>2
  <1>4. DOMAIN s = 1..Len(s) /\ Len(s) \in Nat
    BY <1>3, LenProperties
  <1>5. 1 \in DOMAIN s
    BY <1>1, <1>2
  <1> QED
    BY <1>1, <1>3, <1>4, <1>5

LEMMA ParentsAreListed ==
    ASSUME TypeOK, NEW c \in Commits
    PROVE  /\ parents[c] \in Seq(Commits) /\ DOMAIN parents[c] = 1..Len(parents[c])
           /\ Len(parents[c]) \in Nat
           /\ \A n \in DOMAIN parents[c] : parents[c][n] \in ParentSet(c)
  BY LenProperties DEF TypeOK, ParentSet

\* What the iterator returns next is what comes next in the log.
LEMMA NextInLog ==
    ASSUME TypeOK, log \in Logs(parents, head), NEW k \in 0..Len(log), Returned(k), HasNext
    PROVE  k + 1 \in DOMAIN log /\ log[k + 1] = Current
  <1>1. /\ DOMAIN log = 1..Len(log) /\ Len(log) \in Nat \ {0} /\ log[1] = head
        /\ \A i \in DOMAIN log : log[i] \in Commits
    BY LogIsSeq
  <1>2. todo \in Seq(Commits) /\ todo # <<>> /\ Current = todo[1] /\ 1 \in DOMAIN todo
        /\ Current \notin seen
    <2>1. Len(todo) \in Nat \ {0} /\ DOMAIN todo = 1..Len(todo)
      BY LenProperties, EmptySeq DEF TypeOK, HasNext
    <2> QED
      BY <2>1, HeadTailProperties DEF TypeOK, HasNext, Current
  <1>3. CASE k = 0
    <2>1. todo = <<head>>
      BY <1>3 DEF Returned
    <2> QED
      BY <1>1, <1>2, <1>3, <2>1
  <1>4. CASE k # 0
    <2>1. k \in Nat \ {0} /\ k <= Len(log) /\ 1..(1 - 1) = {}
      BY <1>1, <1>4
    <2>2. PICK j \in 1..k : \E n \in DOMAIN parents[log[j]] :
             /\ Current = parents[log[j]][n]
             /\ \A l \in (j + 1)..k : ParentSet(log[l]) \subseteq seen
             /\ \A m \in 1..(n - 1) : parents[log[j]][m] \in seen
      <3>1. seen \cup {todo[b] : b \in 1..(1 - 1)} = seen
        BY <2>1
      <3>2. InTurn(k, 1)
        BY <1>2, <2>1 DEF Returned
      <3> QED
        BY <1>2, <3>1, <3>2 DEF InTurn
    <2>3. PICK n \in DOMAIN parents[log[j]] :
             /\ Current = parents[log[j]][n]
             /\ \A l \in (j + 1)..k : ParentSet(log[l]) \subseteq seen
             /\ \A m \in 1..(n - 1) : parents[log[j]][m] \in seen
      BY <2>2
    <2>4. j \in DOMAIN log /\ log[j] \in Commits
      BY <1>1, <2>1
    <2>5. k + 1 \in DOMAIN log
      <3>1. PICK l \in DOMAIN log : log[l] = Current
        BY <2>3, <2>4 DEF Logs
      <3>2. l \notin 1..k
        BY <1>2, <3>1 DEF Returned
      <3> QED
        BY <1>1, <2>1, <3>1, <3>2
    <2>6. ComesNext(parents, log, k + 1)
      BY <2>1, <2>5 DEF Logs
    <2>7. (k + 1) - 1 = k
      BY <2>1
    <2>8. PICK i \in 1..k :
             /\ \A l \in (i + 1)..k : \A m \in DOMAIN parents[log[l]] : parents[log[l]][m] \in seen
             /\ \E m \in DOMAIN parents[log[i]] :
                   /\ log[k + 1] = parents[log[i]][m] /\ log[k + 1] \notin seen
                   /\ \A p \in 1..(m - 1) : parents[log[i]][p] \in seen
      BY <2>6, <2>7 DEF ComesNext, Returned
    <2>9. PICK m \in DOMAIN parents[log[i]] :
             /\ log[k + 1] = parents[log[i]][m] /\ log[k + 1] \notin seen
             /\ \A p \in 1..(m - 1) : parents[log[i]][p] \in seen
      BY <2>8
    <2>10. i \in DOMAIN log /\ log[i] \in Commits
      BY <1>1, <2>1
    <2>11. ~(i < j)
      <3> SUFFICES ASSUME i < j PROVE FALSE
        OBVIOUS
      <3>1. j \in (i + 1)..k
        BY <2>1
      <3> QED
        BY <1>2, <2>3, <2>8, <3>1
    <2>12. ~(j < i)
      <3> SUFFICES ASSUME j < i PROVE FALSE
        OBVIOUS
      <3>1. i \in (j + 1)..k
        BY <2>1
      <3>2. parents[log[i]][m] \in ParentSet(log[i])
        BY DEF ParentSet
      <3> QED
        BY <2>3, <2>9, <3>1, <3>2
    <2>13. i = j
      BY <2>1, <2>11, <2>12
    <2>14. DOMAIN parents[log[j]] = 1..Len(parents[log[j]]) /\ Len(parents[log[j]]) \in Nat
      BY <2>4, ParentsAreListed
    <2>15. ~(m < n)
      <3> SUFFICES ASSUME m < n PROVE FALSE
        OBVIOUS
      <3>1. m \in 1..(n - 1)
        BY <2>13, <2>14
      <3> QED
        BY <2>3, <2>9, <2>13, <3>1
    <2>16. ~(n < m)
      <3> SUFFICES ASSUME n < m PROVE FALSE
        OBVIOUS
      <3>1. n \in 1..(m - 1)
        BY <2>13, <2>14
      <3> QED
        BY <1>2, <2>3, <2>9, <2>13, <3>1
    <2>17. m = n
      BY <2>13, <2>14, <2>15, <2>16
    <2> QED
      BY <2>3, <2>5, <2>9, <2>13, <2>17
  <1> QED
    BY <1>3, <1>4

\* Its parents come before what was there already.
LEMMA AdvanceReturned ==
    ASSUME TypeOK, log \in Logs(parents, head), NEW k \in 0..Len(log), Returned(k), HasNext,
           Advance, UNCHANGED repo
    PROVE  Returned(k + 1)'
  <1> DEFINE x == Current
             px == parents[x]
  <1>1. /\ DOMAIN log = 1..Len(log) /\ Len(log) \in Nat /\ k \in Nat
        /\ k + 1 \in DOMAIN log /\ log[k + 1] = x /\ x \in Commits
    BY LogIsSeq, NextInLog
  <1>2. log' = log /\ parents' = parents /\ \A c : ParentSet(c)' = ParentSet(c)
    BY BranchStays DEF repo
  <1>3. /\ Len(todo) \in Nat \ {0} /\ DOMAIN todo = 1..Len(todo) /\ x = todo[1]
        /\ Tail(todo) \in Seq(Commits) /\ Len(Tail(todo)) = Len(todo) - 1
        /\ \A i \in 1..Len(Tail(todo)) : Tail(todo)[i] = todo[i + 1]
    BY LenProperties, EmptySeq, HeadTailProperties DEF TypeOK, HasNext, Current
  <1>4. px \in Seq(Commits) /\ DOMAIN px = 1..Len(px) /\ Len(px) \in Nat
        /\ ParentSet(x) = {px[n] : n \in 1..Len(px)}
    BY <1>1, ParentsAreListed DEF ParentSet
  <1>5. todo' = px \o Tail(todo) /\ seen' = seen \cup {x}
    BY DEF Advance
  <1> HIDE DEF x, px
  <1>6. /\ Len(todo') = Len(px) + Len(Tail(todo)) /\ todo' \in Seq(Commits)
        /\ \A i \in 1..(Len(px) + Len(Tail(todo))) :
              todo'[i] = IF i <= Len(px) THEN px[i] ELSE Tail(todo)[i - Len(px)]
    BY <1>3, <1>4, <1>5, ConcatProperties
  <1>7. DOMAIN todo' = 1..(Len(px) + (Len(todo) - 1))
    BY <1>3, <1>6, LenProperties
  <1>8. \A i \in 1..Len(px) : i \in DOMAIN todo' /\ todo'[i] = px[i]
    BY <1>3, <1>4, <1>6, <1>7
  <1>9. \A i \in 2..Len(todo) : todo'[Len(px) + (i - 1)] = todo[i]
    <2> SUFFICES ASSUME NEW i \in 2..Len(todo) PROVE todo'[Len(px) + (i - 1)] = todo[i]
      OBVIOUS
    <2>1. /\ i - 1 \in 1..Len(Tail(todo)) /\ (i - 1) + 1 = i
          /\ Len(px) + (i - 1) \in 1..(Len(px) + Len(Tail(todo)))
          /\ ~(Len(px) + (i - 1) <= Len(px)) /\ (Len(px) + (i - 1)) - Len(px) = i - 1
      BY <1>3, <1>4
    <2> QED
      BY <1>3, <1>6, <2>1
  <1>10. seen' = {log[i] : i \in 1..(k + 1)}
    <2>1. 1..(k + 1) = (1..k) \cup {k + 1}
      BY <1>1
    <2> QED
      BY <1>1, <1>5, <2>1 DEF Returned
  <1>11. ASSUME NEW a \in DOMAIN todo'
         PROVE  \E j \in 1..(k + 1) : \E n \in DOMAIN parents[log[j]] :
                   /\ todo'[a] = parents[log[j]][n]
                   /\ \A l \in (j + 1)..(k + 1) :
                         ParentSet(log[l]) \subseteq seen' \cup {todo'[b] : b \in 1..(a - 1)}
                   /\ \A m \in 1..(n - 1) :
                         parents[log[j]][m] \in seen' \cup {todo'[b] : b \in 1..(a - 1)}
    <2> DEFINE gone == seen' \cup {todo'[b] : b \in 1..(a - 1)}
    <2>1. CASE a <= Len(px)
      <3>1. a \in 1..Len(px) /\ a \in DOMAIN px /\ k + 1 \in 1..(k + 1)
            /\ ((k + 1) + 1)..(k + 1) = {}
        BY <1>1, <1>3, <1>4, <1>7, <2>1
      <3>2. \A m \in 1..(a - 1) : px[m] \in gone
        <4> SUFFICES ASSUME NEW m \in 1..(a - 1) PROVE px[m] \in gone
          OBVIOUS
        <4>1. m \in 1..Len(px)
          BY <1>4, <3>1
        <4> QED
          BY <1>8, <4>1
      <3>3. parents[log[k + 1]] = px
        BY <1>1 DEF px
      <3> QED
        BY <1>8, <3>1, <3>2, <3>3
    <2>2. CASE ~(a <= Len(px))
      <3> DEFINE c == (a - Len(px)) + 1
      <3>1. c \in 2..Len(todo) /\ c \in DOMAIN todo /\ Len(px) + (c - 1) = a
        BY <1>3, <1>4, <1>7, <2>2
      <3>2. todo'[a] = todo[c]
        BY <1>9, <3>1
      <3>3. seen \cup {todo[b] : b \in 1..(c - 1)} \subseteq gone
        <4> SUFFICES ASSUME NEW b \in 1..(c - 1) PROVE todo[b] \in gone
          BY <1>5
        <4>1. CASE b = 1
          BY <1>3, <1>5, <4>1
        <4>2. CASE b # 1
          <5>1. b \in 2..Len(todo) /\ Len(px) + (b - 1) \in 1..(a - 1)
            BY <1>3, <1>4, <3>1, <4>2
          <5> QED
            BY <1>9, <5>1
        <4> QED
          BY <4>1, <4>2
      <3>4. ParentSet(x) \subseteq gone
        <4> SUFFICES ASSUME NEW n \in 1..Len(px) PROVE px[n] \in gone
          BY <1>4
        <4>1. n \in 1..(a - 1)
          BY <1>4, <1>7, <2>2
        <4> QED
          BY <1>8, <4>1
      <3>5. k > 0
        <4>1. k = 0 => todo = <<head>>
          BY DEF Returned
        <4>2. Len(<<head>>) = 1
          OBVIOUS
        <4> QED
          BY <1>1, <1>3, <3>1, <4>1, <4>2
      <3> HIDE DEF gone, c
      <3>6. PICK j \in 1..k : \E n \in DOMAIN parents[log[j]] :
               /\ todo[c] = parents[log[j]][n]
               /\ \A l \in (j + 1)..k : ParentSet(log[l]) \subseteq gone
               /\ \A m \in 1..(n - 1) : parents[log[j]][m] \in gone
        <4>1. PICK j \in 1..k : \E n \in DOMAIN parents[log[j]] :
               /\ todo[c] = parents[log[j]][n]
               /\ \A l \in (j + 1)..k :
                     ParentSet(log[l]) \subseteq seen \cup {todo[b] : b \in 1..(c - 1)}
               /\ \A m \in 1..(n - 1) :
                     parents[log[j]][m] \in seen \cup {todo[b] : b \in 1..(c - 1)}
          BY <3>1, <3>5 DEF Returned, InTurn
        <4> QED
          BY <3>3, <4>1
      <3>7. \A l \in (j + 1)..(k + 1) : ParentSet(log[l]) \subseteq gone
        <4> SUFFICES ASSUME NEW l \in (j + 1)..(k + 1) PROVE ParentSet(log[l]) \subseteq gone
          OBVIOUS
        <4>1. l = k + 1 \/ l \in (j + 1)..k
          BY <1>1
        <4> QED
          BY <1>1, <3>4, <3>6, <4>1
      <3>8. j \in 1..(k + 1)
        BY <1>1
      <3> QED
        BY <3>2, <3>6, <3>7, <3>8 DEF gone
    <2> QED
      BY <2>1, <2>2
  <1>12. k + 1 > 0 /\ k + 1 # 0
    BY <1>1
  <1> QED
    BY <1>2, <1>10, <1>11, <1>12 DEF Returned, InTurn

\* A commit that is passed over has been returned.
LEMMA PassOverReturned ==
    ASSUME TypeOK, NEW k \in Nat, Returned(k), PassOver
    PROVE  Returned(k)'
  <1>1. log' = log /\ parents' = parents /\ head' = head /\ seen' = seen
        /\ \A c : ParentSet(c)' = ParentSet(c)
    BY BranchStays DEF PassOver, repo
  <1>2. /\ Len(todo) \in Nat \ {0} /\ DOMAIN todo = 1..Len(todo) /\ todo[1] \in seen
        /\ todo' \in Seq(Commits) /\ Len(todo') = Len(todo) - 1
        /\ \A i \in 1..Len(todo') : todo'[i] = todo[i + 1]
        /\ DOMAIN todo' = 1..Len(todo')
    BY LenProperties, EmptySeq, HeadTailProperties DEF TypeOK, PassOver
  <1>3. k # 0
    <2> SUFFICES ASSUME k = 0 PROVE FALSE
      OBVIOUS
    <2>1. 1..k = {}
      OBVIOUS
    <2> QED
      BY <1>2, <2>1 DEF Returned
  <1>4. ASSUME NEW a \in DOMAIN todo'
        PROVE  InTurn(k, a)'
    <2>1. a + 1 \in DOMAIN todo /\ a \in Nat /\ (a + 1) - 1 = a /\ todo'[a] = todo[a + 1]
      BY <1>2
    <2>2. seen \cup {todo[b] : b \in 1..a} = seen \cup {todo'[b] : b \in 1..(a - 1)}
      <3>1. ASSUME NEW b \in 1..a
            PROVE  todo[b] \in seen \cup {todo'[c] : c \in 1..(a - 1)}
        <4>1. CASE b = 1
          BY <1>2, <4>1
        <4>2. CASE b # 1
          <5>1. b - 1 \in 1..(a - 1) /\ b - 1 \in 1..Len(todo') /\ (b - 1) + 1 = b
            BY <1>2, <4>2, <2>1
          <5> QED
            BY <1>2, <5>1
        <4> QED
          BY <4>1, <4>2
      <3>2. ASSUME NEW b \in 1..(a - 1)
            PROVE  todo'[b] \in seen \cup {todo[c] : c \in 1..a}
        <4>1. b + 1 \in 1..a /\ b \in 1..Len(todo')
          BY <1>2, <2>1
        <4> QED
          BY <1>2, <4>1
      <3> QED
        BY <3>1, <3>2
    <2>3. InTurn(k, a + 1)
      BY <1>3, <2>1 DEF Returned
    <2>4. PICK gone : gone = seen \cup {todo[b] : b \in 1..a}
      OBVIOUS
    <2>5. PICK j \in 1..k : \E n \in DOMAIN parents[log[j]] :
             /\ todo[a + 1] = parents[log[j]][n]
             /\ \A l \in (j + 1)..k : ParentSet(log[l]) \subseteq gone
             /\ \A m \in 1..(n - 1) : parents[log[j]][m] \in gone
      BY <2>1, <2>3, <2>4 DEF InTurn
    <2>6. gone = seen' \cup {todo'[b] : b \in 1..(a - 1)}
      BY <1>1, <2>2, <2>4
    <2> QED
      BY <1>1, <2>1, <2>5, <2>6 DEF InTurn
  <1> QED
    BY <1>1, <1>3, <1>4 DEF Returned

\* With nothing left to look at, all of the log has been returned.
LEMMA LogIsReturned ==
    ASSUME TypeOK, Covering, log \in Logs(parents, head), NEW k \in 0..Len(log), Returned(k),
           pc = "search", todo = <<>>
    PROVE  \A i \in DOMAIN log : log[i] \in seen
  <1>1. DOMAIN log = 1..Len(log) /\ Len(log) \in Nat \ {0}
    BY LogIsSeq
  <1>2. Elements(todo) = {} /\ Len(todo) = 0
    BY EmptySeq DEF Elements
  <1>3. k # 0
    <2>1. Len(<<head>>) = 1
      OBVIOUS
    <2> QED
      BY <1>2, <2>1 DEF Returned
  <1>4. ~(k < Len(log))
    <2> SUFFICES ASSUME k < Len(log) PROVE FALSE
      OBVIOUS
    <2>1. k + 1 \in DOMAIN log /\ k + 1 > 1 /\ (k + 1) - 1 = k
      BY <1>1, <1>3
    <2>2. ComesNext(parents, log, k + 1)
      BY <2>1 DEF Logs
    <2>3. PICK j \in 1..k : \E n \in DOMAIN parents[log[j]] :
              log[k + 1] = parents[log[j]][n] /\ log[k + 1] \notin seen
      BY <2>1, <2>2 DEF ComesNext, Returned
    <2>4. log[j] \in seen
      BY DEF Returned
    <2> QED
      BY <1>2, <2>3, <2>4 DEF Covering, ParentSet
  <1>5. k = Len(log)
    <2>1. PICK n \in Nat : n = Len(log)
      BY <1>1
    <2>2. k \in 0..n /\ ~(k < n)
      BY <1>4, <2>1
    <2> QED
      BY <2>1, <2>2
  <1> QED
    BY <1>1, <1>5 DEF Returned

LEMMA InitRule == Init => RuleInv
  <1> SUFFICES ASSUME Init PROVE RuleInv
    OBVIOUS
  <1>1. SearchInv
    BY InitInv
  <1> QED
    BY <1>1 DEF Init, RuleInv, WalkInv, SearchFollowsRule

LEMMA RuleStep == RuleInv /\ [Next]_vars => RuleInv'
  <1> SUFFICES ASSUME RuleInv, [Next]_vars PROVE WalkInv' /\ SearchFollowsRule'
    BY StepInv DEF RuleInv
  <1> DEFINE good == {c \in Commits : Processable(c)}
  <1>1. UNCHANGED repo /\ log' = log /\ parents' = parents /\ head' = head /\ last' = last
    BY DEF vars, repo, Next, Loop, HeadIsBoundary, OpenLog, Fail, PassOver, ReachBoundary,
       SkipUnverified, SkipFuture, SkipOlder, ReturnCommit, Exhausted
  <1>2. /\ TypeOK /\ Covering /\ log \in Logs(parents, head) /\ Logs(parents', head') = Logs(parents, head)
        /\ DOMAIN log = 1..Len(log) /\ Len(log) \in Nat \ {0} /\ log[1] = head
        /\ \A i \in DOMAIN log : log[i] \in Commits
    BY <1>1, LogIsSeq DEF RuleInv, WalkInv, SearchInv
  <1>3. \A c : Processable(c)' <=> Processable(c)
    BY <1>1, BranchStays
  <1>4. NoCommit \notin Commits
    BY SearchAssumption DEF Commits
  \* What the rule says once the search has ended.
  <1>5. SUFFICES /\ pc' = "search" => last \notin seen' /\ \E k \in 0..Len(log) : Returned(k)'
                 /\ pc' = "found" => \E i \in DOMAIN log :
                       /\ result' = log[i] /\ log[i] \in good
                       /\ \A j \in 1..i : log[j] # last /\ (j < i => log[j] \notin good)
                 /\ pc' = "none" => \A i \in 1..Len(log) :
                       log[i] \in good => \E j \in 1..i : log[j] = last
    <2>1. WalkInv'
      BY <1>1, <1>2, <1>5 DEF WalkInv
    <2>2. {c \in Commits : Processable(c)}' = good
      BY <1>3
    <2> HIDE DEF good
    <2>3. SearchFollowsRule'
      BY <1>1, <1>5, <2>2 DEF SearchFollowsRule, Rules!FirstHit, Rules!NoHit
    <2> QED
      BY <2>1, <2>3
  <1> HIDE DEF good
  <1>6. CASE UNCHANGED vars
    <2>1. UNCHANGED <<parents, log, head, todo, seen, pc, result>>
      BY <1>1, <1>6 DEF vars
    <2>2. \A k : Returned(k)' = Returned(k)
      BY <2>1 DEF Returned, InTurn, ParentSet
    <2> QED
      BY <2>1, <2>2 DEF RuleInv, WalkInv, SearchFollowsRule, Rules!FirstHit, Rules!NoHit, good
  <1>7. CASE HeadIsBoundary
    BY <1>2, <1>7 DEF HeadIsBoundary, Finish
  <1>8. CASE OpenLog
    <2>1. pc' = "search" /\ seen' = {} /\ todo' = <<head>>
      BY <1>2, <1>8 DEF OpenLog, Covering
    <2>2. Returned(0)'
      <3>1. 1..0 = {}
        OBVIOUS
      <3> QED
        BY <1>1, <2>1, <3>1 DEF Returned
    <2> QED
      BY <1>2, <2>1, <2>2
  <1>9. CASE Fail
    BY <1>9 DEF Fail, Finish
  <1>10. CASE Exhausted
    <2>1. PICK k \in 0..Len(log) : Returned(k)
      BY <1>10 DEF Exhausted, RuleInv, WalkInv
    <2>2. \A i \in DOMAIN log : log[i] \in seen
      BY <1>2, <1>10, <2>1, LogIsReturned DEF Exhausted
    <2> QED
      BY <1>2, <1>10, <2>2 DEF Exhausted, Finish, Covering, good
  <1>11. CASE PassOver
    <2>1. pc = "search" /\ pc' = "search" /\ seen' = seen
      BY <1>11 DEF PassOver
    <2>2. PICK k \in 0..Len(log) : Returned(k)
      BY <2>1 DEF RuleInv, WalkInv
    <2>3. Returned(k)'
      BY <1>2, <1>11, <2>2, PassOverReturned
    <2> QED
      BY <2>1, <2>3 DEF RuleInv, WalkInv
  <1>12. CASE ReachBoundary \/ SkipUnverified \/ SkipFuture \/ SkipOlder \/ ReturnCommit
    <2>1. HasNext /\ Advance /\ pc = "search"
      BY <1>12 DEF ReachBoundary, SkipUnverified, SkipFuture, SkipOlder, ReturnCommit, HasNext
    <2>2. PICK k \in 0..Len(log) : Returned(k)
      BY <2>1 DEF RuleInv, WalkInv
    <2>3. k + 1 \in DOMAIN log /\ log[k + 1] = Current /\ Current \in Commits
      BY <1>2, <2>1, <2>2, NextInLog
    <2>4. Returned(k + 1)' /\ k + 1 \in 0..Len(log)
      BY <1>1, <1>2, <2>1, <2>2, <2>3, AdvanceReturned
    <2>5. \A j \in 1..k : log[j] \in seen /\ log[j] # last /\ log[j] \notin good
      BY <2>1, <2>2 DEF Returned, RuleInv, WalkInv, SearchInv, Covering, good
    <2>6. CASE ReachBoundary
      <3>1. log[k + 1] = last /\ pc' = "none"
        BY <2>3, <2>6 DEF ReachBoundary, AtBoundary, Finish
      <3>2. ASSUME NEW i \in 1..Len(log), log[i] \in good
            PROVE  k + 1 \in 1..i
        BY <1>2, <2>5, <3>2
      <3> QED
        BY <3>1, <3>2
    <2>7. CASE ReturnCommit
      <3>1. pc' = "found" /\ result' = log[k + 1] /\ log[k + 1] # last
        BY <1>4, <2>3, <2>7 DEF ReturnCommit, Finish, AtBoundary
      <3>2. log[k + 1] \in good
        <4>1. date[Current] \in Nat /\ Current \in verified /\ ~InFuture /\ ~TooOld
          BY <1>2, <2>3, <2>7, SearchAssumption DEF ReturnCommit, TypeOK
        <4>2. last # NoCommit => date[last] \in Nat
          BY <1>2, SearchAssumption DEF TypeOK
        <4>3. Processable(Current)
          BY <4>1, <4>2, SearchAssumption DEF InFuture, TooOld, Processable
        <4> QED
          BY <2>3, <4>3 DEF good
      <3>3. ASSUME NEW j \in 1..(k + 1)
            PROVE  log[j] # last /\ (j < k + 1 => log[j] \notin good)
        <4>1. j = k + 1 \/ j \in 1..k
          OBVIOUS
        <4> QED
          BY <2>5, <3>1, <4>1
      <3> QED
        BY <2>3, <3>1, <3>2, <3>3
    <2>8. CASE SkipUnverified \/ SkipFuture \/ SkipOlder
      <3>1. pc' = "search" /\ seen' = seen \cup {Current} /\ ~AtBoundary
        BY <2>1, <2>8 DEF SkipUnverified, SkipFuture, SkipOlder, Advance
      <3>2. Current # last
        BY <1>4, <2>3, <3>1 DEF AtBoundary
      <3>3. last \notin seen'
        BY <2>1, <3>1, <3>2 DEF RuleInv, WalkInv
      <3> QED
        BY <2>4, <3>1, <3>3
    <2> QED
      BY <1>12, <2>6, <2>7, <2>8
  <1> QED
    BY <1>6, <1>7, <1>8, <1>9, <1>10, <1>11, <1>12 DEF Next, Loop

\* SearchFollowsRule: in the log of any history the search returns the first commit that
\* can be processed before the boundary, and none only if there is none (git.go:94); this
\* is what the periodic task relies on.
THEOREM SearchIsTheRule == Spec => []SearchFollowsRule
  <1>1. RuleInv => SearchFollowsRule
    BY DEF RuleInv
  <1> QED
    BY <1>1, InitRule, RuleStep, PTL DEF Spec
-----------------------------------------------------------------------------
\* Every history has a log from every commit.

LEMMA LeastOf ==
    ASSUME NEW S, S \subseteq Nat, S # {}
    PROVE  \E i \in S : \A j \in S : i <= j
  <1> DEFINE R == {ss \in Nat \X Nat : ss[1] < ss[2]}
  <1>1. IsWellFoundedOn(R, Nat)
    BY NatLessThanWellFounded DEF OpToRel
  <1>2. PICK i \in S : \A j \in S : ~(<<j, i>> \in R)
    BY <1>1, WFMin, Zenon
  <1>3. ASSUME NEW j \in S PROVE i <= j
    <2>1. i \in Nat /\ j \in Nat
      OBVIOUS
    <2>2. j < i => <<j, i>> \in R
      BY <2>1
    <2> QED
      BY <1>2, <2>1, <2>2
  <1> QED
    BY <1>3

LEMMA GreatestOf ==
    ASSUME NEW n \in Nat, NEW S, S \subseteq 1..n, S # {}
    PROVE  \E i \in S : \A j \in S : j <= i
  <1> DEFINE T == {n - i : i \in S}
  <1>1. T \subseteq Nat
    OBVIOUS
  <1>2. T # {}
    OBVIOUS
  <1>3. PICK t \in T : \A u \in T : t <= u
    BY <1>1, <1>2, LeastOf
  <1>4. PICK i \in S : t = n - i
    OBVIOUS
  <1>5. ASSUME NEW j \in S PROVE j <= i
    <2>1. n - j \in T
      OBVIOUS
    <2>2. n - i <= n - j
      BY <1>3, <1>4, <2>1
    <2> QED
      BY <2>2
  <1> QED
    BY <1>5

\* The first n commits of a walk from c that has not ended yet, or has.
BeginsLog(f, c, s, n) ==
    /\ s \in [1..n -> Commits] /\ s[1] = c
    /\ \A i \in 1..n : i > 1 => ComesNext(f, s, i)

\* A walk names no commit twice, so it ends.
LEMMA WalksAreShort ==
    ASSUME NEW f, NEW c, NEW n \in Nat \ {0}, NEW s, BeginsLog(f, c, s, n)
    PROVE  n <= N
  <1>1. s \in [1..n -> Commits]
    BY DEF BeginsLog
  <1>2. ASSUME NEW i \in 1..n, NEW j \in 1..n, s[i] = s[j]
        PROVE  ~(i < j)
    <2> SUFFICES ASSUME i < j PROVE FALSE
      OBVIOUS
    <2>1. j > 1 /\ i \in 1..(j - 1)
      OBVIOUS
    <2>2. ComesNext(f, s, j)
      BY <2>1 DEF BeginsLog
    <2>3. s[j] \notin {s[l] : l \in 1..(j - 1)}
      BY <2>2 DEF ComesNext
    <2> QED
      BY <1>2, <2>1, <2>3
  <1>3. \A i, j \in 1..n : s[i] = s[j] => i = j
    <2> SUFFICES ASSUME NEW i \in 1..n, NEW j \in 1..n, s[i] = s[j] PROVE i = j
      OBVIOUS
    <2>1. ~(i < j) /\ ~(j < i)
      BY <1>2
    <2> QED
      BY <2>1
  <1>4. s \in Injection(1..n, Commits)
    BY <1>1, <1>3 DEF Injection, IsInjective
  <1>5. /\ IsFiniteSet(Commits) /\ Cardinality(Commits) = N /\ Cardinality(1..n) = n
    <2>1. N \in Int /\ n \in Int /\ 1 \in Int /\ N > 0 /\ n > 0
      BY SearchAssumption
    <2>2. IsFiniteSet(1..N) /\ Cardinality(1..N) = IF 1 > N THEN 0 ELSE N - 1 + 1
      BY <2>1, FS_Interval
    <2>3. Cardinality(1..n) = IF 1 > n THEN 0 ELSE n - 1 + 1
      BY <2>1, FS_Interval
    <2> QED
      BY <2>1, <2>2, <2>3 DEF Commits
  <1>6. Cardinality(1..n) <= Cardinality(Commits)
    BY <1>4, <1>5, FS_Injection
  <1> QED
    BY <1>5, <1>6

\* A walk that has not seen every parent of what it has passed goes on.
LEMMA WalksGoOn ==
    ASSUME NEW f \in Histories, NEW c \in Commits, NEW n \in Nat \ {0}, NEW s, BeginsLog(f, c, s, n),
           ~(\A i \in 1..n : \A m \in DOMAIN f[s[i]] : \E l \in 1..n : s[l] = f[s[i]][m])
    PROVE  \E t : BeginsLog(f, c, t, n + 1)
  <1> DEFINE before == {s[l] : l \in 1..n}
             Open(j) == \E m \in DOMAIN f[s[j]] : f[s[j]][m] \notin before
             O == {j \in 1..n : Open(j)}
  <1>1. O # {}
    OBVIOUS
  <1>2. PICK j \in O : \A i \in O : i <= j
    <2>1. O \subseteq 1..n
      OBVIOUS
    <2> HIDE DEF O
    <2> QED
      BY <1>1, <2>1, GreatestOf
  <1>3. j \in 1..n /\ s[j] \in Commits
    BY DEF BeginsLog
  <1> DEFINE p == f[s[j]]
             M == {m \in DOMAIN p : p[m] \notin before}
  <1>4. PICK d \in Nat : p \in [1..d -> 1..(N - 1)]
    <2>1. p \in ParentLists
      BY <1>3 DEF Histories
    <2>2. PICK d \in 0..MaxParents : p \in [1..d -> 1..(N - 1)]
      BY <2>1 DEF ParentLists
    <2>3. d \in Nat
      BY SearchAssumption
    <2> QED
      BY <2>2, <2>3
  <1>5. M # {} /\ M \subseteq Nat
    <2>1. DOMAIN p = 1..d
      BY <1>4
    <2> QED
      BY <1>2, <2>1
  <1>6. PICK m \in M : \A i \in M : m <= i
    <2> HIDE DEF M
    <2> QED
      BY <1>5, LeastOf
  <1>7. m \in 1..d /\ p[m] \notin before /\ p[m] \in Commits
    <2>1. N \in Nat
      BY SearchAssumption
    <2>2. m \in 1..d /\ p[m] \in 1..(N - 1)
      BY <1>4
    <2> QED
      BY <2>1, <2>2 DEF Commits
  <1>8. \A i \in 1..(m - 1) : p[i] \in before
    <2> SUFFICES ASSUME NEW i \in 1..(m - 1), p[i] \notin before PROVE FALSE
      OBVIOUS
    <2>1. i \in 1..d /\ i < m
      BY <1>7
    <2>2. i \in M
      BY <1>4, <2>1
    <2> QED
      BY <1>6, <1>7, <2>1, <2>2
  <1>9. \A l \in (j + 1)..n : \A i \in DOMAIN f[s[l]] : f[s[l]][i] \in before
    <2> SUFFICES ASSUME NEW l \in (j + 1)..n, Open(l) PROVE FALSE
      OBVIOUS
    <2>1. l \in 1..n /\ l > j
      BY <1>3
    <2>2. l \in O
      BY <2>1
    <2> QED
      BY <1>2, <1>3, <2>1, <2>2
  <1> DEFINE t == [i \in 1..(n + 1) |-> IF i = n + 1 THEN p[m] ELSE s[i]]
  <1>10. /\ t[n + 1] = p[m] /\ \A i \in 1..n : t[i] = s[i]
         /\ t \in [1..(n + 1) -> Commits]
    BY <1>7 DEF BeginsLog
  <1> HIDE DEF t, p, M, O, Open
  <1>11. ComesNext(f, t, n + 1)
    <2>1. (n + 1) - 1 = n
      OBVIOUS
    <2>2. {t[l] : l \in 1..n} = before
      BY <1>10
    <2>3. t[j] = s[j] /\ \A l \in (j + 1)..n : t[l] = s[l]
      BY <1>3, <1>10
    <2>4. m \in DOMAIN f[s[j]] /\ p = f[s[j]]
      BY <1>4, <1>7 DEF p
    <2> HIDE DEF before
    <2> QED
      BY <1>3, <1>7, <1>8, <1>9, <1>10, <2>1, <2>2, <2>3, <2>4 DEF ComesNext
  <1>12. ASSUME NEW i \in 1..n, i > 1
         PROVE  ComesNext(f, t, i)
    <2>1. ComesNext(f, s, i)
      BY <1>12 DEF BeginsLog
    <2>2. t[i] = s[i] /\ \A l \in 1..(i - 1) : t[l] = s[l]
      BY <1>10
    <2>3. {t[l] : l \in 1..(i - 1)} = {s[l] : l \in 1..(i - 1)}
      BY <2>2
    <2> DEFINE gone == {s[l] : l \in 1..(i - 1)}
    <2>4. PICK k \in 1..(i - 1) :
             /\ \A l \in (k + 1)..(i - 1) : \A q \in DOMAIN f[s[l]] : f[s[l]][q] \in gone
             /\ \E q \in DOMAIN f[s[k]] : /\ s[i] = f[s[k]][q] /\ s[i] \notin gone
                                         /\ \A r \in 1..(q - 1) : f[s[k]][r] \in gone
      BY <2>1 DEF ComesNext
    <2>5. t[k] = s[k] /\ \A l \in (k + 1)..(i - 1) : t[l] = s[l]
      <3>1. \A l \in (k + 1)..(i - 1) : l \in 1..(i - 1)
        OBVIOUS
      <3> QED
        BY <2>2, <3>1
    <2> HIDE DEF gone
    <2>6. {t[l] : l \in 1..(i - 1)} = gone
      BY <2>3 DEF gone
    <2>7. \A l \in (k + 1)..(i - 1) : \A q \in DOMAIN f[t[l]] : f[t[l]][q] \in gone
      BY <2>4, <2>5
    <2>8. \E q \in DOMAIN f[t[k]] : /\ t[i] = f[t[k]][q] /\ t[i] \notin gone
                                   /\ \A r \in 1..(q - 1) : f[t[k]][r] \in gone
      BY <2>2, <2>4, <2>5
    <2> QED
      BY <2>6, <2>7, <2>8, Zenon DEF ComesNext
  <1>13. t[1] = c
    BY <1>10 DEF BeginsLog
  <1> QED
    BY <1>10, <1>11, <1>12, <1>13 DEF BeginsLog

\* What SearchIsTheRule says is never empty: every history has a log from every commit.
\* The longest walk has nowhere to go.
THEOREM EveryHistoryHasALog ==
    ASSUME NEW f \in Histories, NEW c \in Commits
    PROVE  Logs(f, c) # {}
  <1> DEFINE L == {n \in 1..N : \E s : BeginsLog(f, c, s, n)}
  <1>1. L # {}
    <2> DEFINE s == [i \in 1..1 |-> c]
    <2>1. BeginsLog(f, c, s, 1)
      BY DEF BeginsLog
    <2>2. 1 \in 1..N
      BY SearchAssumption
    <2> QED
      BY <2>1, <2>2
  <1>2. PICK n \in L : \A k \in L : k <= n
    <2>1. N \in Nat /\ L \subseteq 1..N
      BY SearchAssumption
    <2> HIDE DEF L
    <2> QED
      BY <1>1, <2>1, GreatestOf
  <1>3. n \in Nat \ {0} /\ n \in 1..N
    BY SearchAssumption
  <1>4. PICK s : BeginsLog(f, c, s, n)
    OBVIOUS
  <1>5. \A i \in 1..n : \A m \in DOMAIN f[s[i]] : \E l \in 1..n : s[l] = f[s[i]][m]
    <2> SUFFICES ASSUME NEW t, BeginsLog(f, c, t, n + 1) PROVE FALSE
      BY <1>3, <1>4, WalksGoOn
    <2>1. n + 1 \in Nat \ {0}
      BY <1>3
    <2>2. n + 1 <= N
      BY <2>1, WalksAreShort
    <2>3. n + 1 \in L
      BY <1>3, <2>2, SearchAssumption
    <2> QED
      BY <1>2, <1>3, <2>3
  <1>6. DOMAIN s = 1..n /\ s \in UNION {[1..k -> Commits] : k \in 1..N}
    BY <1>3, <1>4 DEF BeginsLog
  <1> QED
    BY <1>4, <1>5, <1>6 DEF Logs, BeginsLog
=============================================================================
