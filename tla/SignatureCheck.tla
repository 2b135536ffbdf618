--------------------------- MODULE SignatureCheck ---------------------------
(***************************************************************************)
(* VerifyCommitSignatures (pkg/git/signatures.go) and the countdown of     *)
(* VerifyPGPSignatures (pkg/pgp/util.go): first the signature in the       *)
(* commit, then those in its notes, each against the trusted entries, as   *)
(* TrustedKeys reads them, that have not been counted yet.                 *)
(*                                                                         *)
(* An entry parses, as it did when it was added; the same key may be in    *)
(* several entries.  A signature is named by the key that made it; one     *)
(* that does not verify is one by a key that is not trusted.               *)
(***************************************************************************)
EXTENDS TrustedKeys, SignatureRule

CONSTANTS
    Unsigned,       \* the empty signature of a commit
    MaxNotes,       \* bound on the signatures in the notes of a commit
    MaxRequired     \* required numbers are -1..MaxRequired

ASSUME SignatureAssumption ==
    /\ Unsigned \notin Keys
    /\ MaxNotes \in Nat /\ MaxRequired \in Nat

VARIABLES
    own,        \* the signature in the commit
    notes,      \* the signatures in its notes
    required,   \* requiredNumberOfVerifiedSignatures as configured
    pgpKeys,    \* the entries that have not been counted, as positions
    missing,    \* requiredNumberOfVerifiedSignatures as it is counted down
    todo,       \* the signatures still to check in this call
    pc          \* "keys", "start", "own", "read", "notes", "accepted", "rejected", "failed"

inputs == <<keysVars, own, notes, required>>
vars   == <<inputs, pgpKeys, missing, todo, pc>>

Lists(S, n) == UNION {[1..k -> S] : k \in 0..n}

Init ==
    /\ KeysInit
    /\ own = Unsigned /\ notes = <<>>
    /\ required \in (-1)..MaxRequired
    /\ pgpKeys = <<>>
    /\ missing = required
    /\ todo = <<>>
    /\ pc = "keys"
-----------------------------------------------------------------------------
\* The search reads the configuration, then the trusted keys, then the commits:
\* any commit may be the next to check.
OpenCommit ==
    /\ pc = "keys" /\ reader = "read"
    /\ own' \in Keys \cup {Unsigned}
    /\ notes' \in Lists(Keys, MaxNotes)
    /\ pgpKeys' = [i \in DOMAIN entries |-> i]
    /\ pc' = "start"
    /\ UNCHANGED <<keysVars, required, missing, todo>>

KeysStep == UNCHANGED <<own, notes, required, pgpKeys, missing, todo, pc>>
ReadKeys == Read /\ KeysStep

\* VerifyPGPSignatures returns at once when nothing is required, and so does its
\* caller.
NothingRequired ==
    /\ pc = "start"
    /\ missing = 0
    /\ pc' = "accepted"
    /\ UNCHANGED <<inputs, pgpKeys, missing, todo>>

\* A commit without a signature goes straight to its notes.
StartOwn ==
    /\ pc = "start"
    /\ missing # 0
    /\ IF own = Unsigned THEN pc' = "read" /\ UNCHANGED todo
       ELSE pc' = "own" /\ todo' = <<own>>
    /\ UNCHANGED <<inputs, pgpKeys, missing>>

Checking == pc \in {"own", "notes"} /\ todo # <<>>

\* The entries that the next signature verifies with; the first of them counts.
Matching == {i \in DOMAIN pgpKeys : Head(todo) \in entries[pgpKeys[i]]}
First(S) == CHOOSE i \in S : \A j \in S : i <= j

Without(s, i) == SubSeq(s, 1, i - 1) \o SubSeq(s, i + 1, Len(s))

\* One signature less is missing, and the entry it verified with is taken off the
\* list; at zero, and only there, the commit is accepted.
Count ==
    /\ Checking /\ Matching # {}
    /\ missing' = missing - 1
    /\ IF missing' = 0 THEN pc' = "accepted" /\ UNCHANGED pgpKeys
       ELSE pgpKeys' = Without(pgpKeys, First(Matching)) /\ UNCHANGED pc
    /\ todo' = Tail(todo)
    /\ UNCHANGED inputs

\* Faulty: the same signature is tried again and again.
PassAgain ==
    /\ Checking /\ Matching = {}
    /\ UNCHANGED vars

\* Faulty: the first signature that no entry knows ends the check.
PassEnds ==
    /\ Checking /\ Matching = {}
    /\ pc' = "rejected"
    /\ UNCHANGED <<inputs, pgpKeys, missing, todo>>

\* A signature that verifies with none of the entries is passed over.
Pass ==
    /\ Checking /\ Matching = {}
    /\ todo' = Tail(todo)
    /\ UNCHANGED <<inputs, pgpKeys, missing, pc>>

\* The signature of the commit was not enough.
OwnChecked ==
    /\ pc = "own" /\ todo = <<>>
    /\ pc' = "read"
    /\ UNCHANGED <<inputs, pgpKeys, missing, todo>>

\* Faulty: the notes are checked against all the trusted entries again.
ReadNotesAnew ==
    /\ pc = "read"
    /\ IF notes = <<>> THEN pc' = "rejected" /\ UNCHANGED todo
       ELSE pc' = "notes" /\ todo' = notes
    /\ pgpKeys' = [i \in DOMAIN entries |-> i]
    /\ UNCHANGED <<inputs, missing>>

\* objectSignaturesFromNotes: no notes, or none for this commit, is a rejection.
ReadNotes ==
    /\ pc = "read"
    /\ IF notes = <<>> THEN pc' = "rejected" /\ UNCHANGED todo
       ELSE pc' = "notes" /\ todo' = notes
    /\ UNCHANGED <<inputs, pgpKeys, missing>>

NotEnough ==
    /\ pc = "notes" /\ todo = <<>>
    /\ pc' = "rejected"
    /\ UNCHANGED <<inputs, pgpKeys, missing, todo>>

\* A git object cannot be read.
Fail ==
    /\ pc \in {"start", "own", "read", "notes"}
    /\ pc' = "failed"
    /\ UNCHANGED <<inputs, pgpKeys, missing, todo>>

Verify ==
    ReadKeys \/ OpenCommit
      \/ NothingRequired \/ StartOwn \/ Count \/ Pass \/ OwnChecked \/ ReadNotes \/ NotEnough

Next == Verify \/ Fail \/ ((Operator \/ ReadFails) /\ KeysStep)

\* A check runs until it returns, without the help of a failure.
Spec == Init /\ [][Next]_vars /\ WF_vars(Verify)
-----------------------------------------------------------------------------
\* All the signatures of the commit: position 1 is its own, if it has one.
Signatures == (IF own = Unsigned THEN <<>> ELSE <<own>>) \o notes
Signers    == {Signatures[i] : i \in DOMAIN Signatures}

\* A commit is accepted only if as many signatures as are required verify with as
\* many different entries, over its own signature and its notes together; never
\* when a negative number is required.
EveryEntryCountsOnce ==
    pc = "accepted" =>
        \E S \in SUBSET DOMAIN Signatures :
            /\ Cardinality(S) = required
            /\ \E by \in [S -> DOMAIN entries] :
                  /\ \A i \in S : Signatures[i] \in entries[by[i]]
                  /\ \A i, j \in S : by[i] = by[j] => i = j

\* Every trusted key is stored once, in an entry of its own.
OneKeyEach(st) ==
    /\ \A n \in DOMAIN st : \E k \in Keys : st[n] = {k}
    /\ \A n, m \in DOMAIN st : st[n] = st[m] => n = m

VerifiedBy(st) == Verified(Signers, UNION {st[n] : n \in DOMAIN st}, required)

\* With one entry for each key the outcome is what SignatureRule says of the keys
\* that were stored at one and the same moment of the check, in whatever order
\* entries and signatures are listed: the number of trusted signers counts, no
\* signer counts twice, and no signature is missed.
CheckFollowsRule ==
    (\A st \in moments : OneKeyEach(st)) =>
        /\ pc = "accepted" => \E st \in moments : VerifiedBy(st)
        /\ pc = "rejected" => \E st \in moments : ~VerifiedBy(st)

\* The check terminates, whatever the signatures and entries are and however often
\* the entries change; the plugin stops only on a name that was deleted.
CheckEnds == <>(pc \in {"accepted", "rejected", "failed"} \/ reader \in {"crashed", "failed"})
=============================================================================
