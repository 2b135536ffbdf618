--------------------------- MODULE MCLimitedClone ---------------------------
(***************************************************************************)
(* Two requests at a time and three objects.                               *)
(***************************************************************************)
EXTENDS LimitedClone

SomeLimits == {-1, 0, 2, 3}
SomeSizes  == {-1, 1, 2}
=============================================================================
