---------------------------- MODULE TrustedKeys ----------------------------
(***************************************************************************)
(* The trusted PGP keys (pkg/pgp: backend.go, storage.go): armored blocks  *)
(* stored under names, which requests add, replace and delete, and the     *)
(* reader GetTrustedPGPPublicKeys, which lists the names and then gets one *)
(* after the other, while the requests go on.                              *)
(*                                                                         *)
(* A name is its place in a listing, which the storage sorts.  An entry is *)
(* the set of the keys in its block, one or more: IsValidGPGPublicKey      *)
(* refuses a block without a key, and then nothing is stored.              *)
(***************************************************************************)
EXTENDS Integers, Sequences, FiniteSets

CONSTANTS
    Keys,           \* PGP keys, trusted or not
    MaxEntries,     \* bound on the names
    Stores          \* what may be stored at the start, and a bound on the
                    \* requests that change it while it is read

KeyNames == 1..MaxEntries
Entries  == (SUBSET Keys) \ {{}}

ASSUME KeysAssumption ==
    /\ MaxEntries \in Nat
    /\ \A s \in Stores :
          /\ s.maxChanges \in Nat
          /\ DOMAIN s.store \subseteq KeyNames
          /\ \A n \in DOMAIN s.store : s.store[n] \in Entries

VARIABLES
    store,      \* name -> entry
    changes,    \* the changes that may still come
    reader,     \* "list", "get", "read", "crashed" or "failed"
    names,      \* the names listed and not read yet, in order
    entries,    \* trustedPGPPublicKeys: the entries read so far
    moments     \* history: the stores there have been since the listing

keysVars == <<store, changes, reader, names, entries, moments>>

KeysInit ==
    /\ \E s \in Stores : store = s.store /\ changes = s.maxChanges
    /\ reader = "list"
    /\ names = <<>> /\ entries = <<>>
    /\ moments = {store}

\* A change before the listing is another store to start with, and one after
\* the last read is not seen: only those between the two are steps.
Change(new) ==
    /\ reader = "get"
    /\ changes > 0
    /\ changes' = changes - 1
    /\ new # store
    /\ store' = new
    /\ moments' = moments \cup {new}
    /\ UNCHANGED <<reader, names, entries>>

\* pathConfigureTrustedPGPPublicKeyCreateOrUpdate, for a block with one key.
CreateOrUpdate(n, k) ==
    Change([m \in DOMAIN store \cup {n} |-> IF m = n THEN {k} ELSE store[m]])

\* pathConfigureTrustedPGPPublicKeyDelete.
DeleteKey(n) ==
    /\ n \in DOMAIN store
    /\ Change([m \in DOMAIN store \ {n} |-> store[m]])

\* The names as the storage lists them.
Sorted(S) ==
    {s \in [1..Cardinality(S) -> S] : \A i, j \in DOMAIN s : i < j => s[i] < s[j]}

List ==
    /\ reader = "list"
    /\ reader' = "get"
    /\ names' \in Sorted(DOMAIN store)
    /\ UNCHANGED <<store, changes, entries, moments>>

\* Faulty: for a name that is gone the entry before it is taken once more.
GetKeepsLast ==
    /\ reader = "get" /\ names # <<>>
    /\ entries' = IF Head(names) \in DOMAIN store THEN Append(entries, store[Head(names)])
                  ELSE IF entries = <<>> THEN entries
                  ELSE Append(entries, entries[Len(entries)])
    /\ names' = Tail(names)
    /\ UNCHANGED <<store, changes, reader, moments>>

\* The value of the entry is taken without a look whether there is one: the nil
\* that stands for a deleted name stops the plugin.
Get ==
    /\ reader = "get" /\ names # <<>>
    /\ IF Head(names) \in DOMAIN store
       THEN entries' = Append(entries, store[Head(names)]) /\ UNCHANGED reader
       ELSE reader' = "crashed" /\ UNCHANGED entries
    /\ names' = Tail(names)
    /\ UNCHANGED <<store, changes, moments>>

ReadAll ==
    /\ reader = "get" /\ names = <<>>
    /\ reader' = "read"
    /\ UNCHANGED <<store, changes, names, entries, moments>>

\* The storage fails.
ReadFails ==
    /\ reader \in {"list", "get"}
    /\ reader' = "failed"
    /\ UNCHANGED <<store, changes, names, entries, moments>>

Read == List \/ Get \/ ReadAll
Operator == \E n \in KeyNames : DeleteKey(n) \/ \E k \in Keys : CreateOrUpdate(n, k)
=============================================================================
