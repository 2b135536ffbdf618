-------------------------- MODULE MCSignatureCheck --------------------------
(***************************************************************************)
(* Stores for SignatureCheck, and the changes that may come while they are *)
(* read.                                                                   *)
(***************************************************************************)
EXTENDS SignatureCheck

StoresOf(S, n, bound) ==
    {[store |-> st, maxChanges |-> bound] : st \in UNION {[1..k -> S] : k \in 0..n}}

\* Any entries that stay as they are, and one-key entries of which one changes.
SomeStores == StoresOf(Entries, MaxEntries, 0)
                \cup StoresOf({{k} : k \in Keys}, MaxEntries - 1, 1)

\* Two changes between a listing and its last read.
TwoChanges == StoresOf({{k} : k \in Keys}, MaxEntries - 1, 2)
=============================================================================
