--------------------------- MODULE SignatureRule ---------------------------
(***************************************************************************)
(* When a commit has enough signatures: what VerifyCommitSignatures        *)
(* (pkg/git/signatures.go) decides with VerifyPGPSignatures                *)
(* (pkg/pgp/util.go).  Every trusted key counts at most once.  Zero        *)
(* required signatures accept every commit; a negative number, which the   *)
(* configuration does not refuse, is never reached by the countdown.       *)
(***************************************************************************)
EXTENDS Integers, FiniteSets

Verified(signers, trusted, required) ==
    /\ required >= 0
    /\ Cardinality(signers \cap trusted) >= required
=============================================================================
