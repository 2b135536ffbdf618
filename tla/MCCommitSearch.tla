--------------------------- MODULE MCCommitSearch ---------------------------
(***************************************************************************)
(* CommitSearch, with the logs that its rule speaks of compared with those *)
(* that a recursive walk gives.                                            *)
(***************************************************************************)
EXTENDS CommitSearch

\* The whole log from a stack of commits, without a search in it.
RECURSIVE Preorder(_, _, _)
Preorder(f, stack, done) ==
    IF stack = <<>> THEN <<>>
    ELSE LET c == Head(stack)
         IN  IF c \in done THEN Preorder(f, Tail(stack), done)
             ELSE <<c>> \o Preorder(f, f[c] \o Tail(stack), done \cup {c})

\* Every history has one log from every commit, which is what the walk gives.
ASSUME LogIsPreorder ==
    \A f \in Histories : \A c \in Commits : Logs(f, c) = {Preorder(f, <<c>>, {})}
=============================================================================
