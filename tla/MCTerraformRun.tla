--------------------------- MODULE MCTerraformRun ---------------------------
(***************************************************************************)
(* Instances of TerraformRun.                                              *)
(***************************************************************************)
EXTENDS TerraformRun, TLC

CONSTANTS r1, r2, v1, v2

Config(d) == [files |-> "config", declared |-> d, state |-> NoFile]
NoFiles == [files |-> "none", declared |-> Nothing, state |-> NoFile]
OtherFiles == [files |-> "other", declared |-> Nothing, state |-> NoFile]
\* One of the resources changes its value.
Configs == {Config(d) : d \in {e \in States : e[r2] # v2}}

\* Any commits in a row; the last one has a configuration.
AllHistories ==
    {h \in [1..N -> Configs \cup {NoFiles, OtherFiles}] : h[N] \in Configs}

\* Every commit but the last has the same configuration; the last removes some.
OneConfig == {[n \in 1..N |-> Config([r \in Resources |-> v1])]}

\* A state file is checked in with the configuration.
CheckedIn ==
    {[n \in 1..N |-> [Config([r \in Resources |-> v1]) EXCEPT
                        !.state = IF n = N THEN Nothing ELSE NoFile]]}

\* Everything but a state file that is cut off.
AllButWrite == Ops \ {"write"}
OnlyWrite == {"write"}
=============================================================================
