---------------------------- MODULE MCVaultToken ----------------------------
(***************************************************************************)
(* Instances of VaultToken: 8 hours to a unit, so three to a day.  A token *)
(* lives for four units from a renewal, a long one for seven.              *)
(***************************************************************************)
EXTENDS VaultToken, TLC

CONSTANTS t1, t2, t3, c1, c2, r1, r2

LongTokens == [t \in Tokens |-> 4]
UnequalTokens == [t \in Tokens |-> IF t = t1 THEN 7 ELSE 4]

Bring(t) == [does |-> "write", token |-> t]
Rotate == [does |-> "rotate", token |-> NoToken]
Delete == [does |-> "delete", token |-> NoToken]

\* The operator brings the first token; after that it is rotated, only other
\* settings are written, or the configuration is deleted.
OneToken == {Bring(t1), Rotate, NoKind, Delete}
Rotations == {Rotate, NoKind}
\* The operator brings another token.
Replacement == {Bring(t2)}
OtherSettings == {NoKind}

\* Everything but the read whose error is dropped.
AllButExisting == Ops \ {"getExisting"}
OnlyExisting == {"getExisting"}
=============================================================================
