--------------------------- MODULE CommitProgress ---------------------------
(***************************************************************************)
(* What the periodic task promises, without storage, clones or failures:   *)
(* it works on one commit at a time, finishes only what it has applied,    *)
(* and the finished commit never goes back in time.                        *)
(***************************************************************************)
EXTENDS CommitRules

VARIABLES
    finished,   \* the commit recorded as finished
    working,    \* the commit being processed, or NoCommit
    stage,      \* "none", "begun" or "applied"
    done        \* the commits the engine has applied completely

progressVars == <<finished, working, stage, done>>

Init == finished = NoCommit /\ working = NoCommit /\ stage = "none" /\ done = {}

\* Work starts on a commit that is not older than the finished one.
Begin(c) ==
    /\ working = NoCommit
    /\ NotOlder(c, finished)
    /\ working' = c
    /\ stage' = "begun"
    /\ UNCHANGED <<finished, done>>

\* The engine has applied the whole commit.
Complete ==
    /\ stage = "begun"
    /\ stage' = "applied"
    /\ done' = done \cup {working}
    /\ UNCHANGED <<finished, working>>

\* Work on an applied commit ends with the record of it.
Record ==
    /\ stage = "applied"
    /\ finished' = working
    /\ working' = NoCommit
    /\ stage' = "none"
    /\ UNCHANGED done

\* Work ends without a record.
Abandon ==
    /\ working # NoCommit
    /\ working' = NoCommit
    /\ stage' = "none"
    /\ UNCHANGED <<finished, done>>

Next == (\E c \in Commits : Begin(c)) \/ Complete \/ Record \/ Abandon

Spec == Init /\ [][Next]_progressVars
=============================================================================
