---------------------------- MODULE LimitedClone ----------------------------
(***************************************************************************)
(* The size limit of a clone in memory (pkg/git/repository.go): the stored *)
(* configuration says how much a clone may hold, and the storage counts    *)
(* what the objects declare as they come in, several at a time: it adds    *)
(* the size to an atomic counter, looks at the sum and, when it is too     *)
(* much or the writer cannot be made, takes the size back.                 *)
(***************************************************************************)
EXTENDS ConfigStore

CONSTANTS
    Objects,        \* objects of the repository
    Sizes           \* the sizes they may declare

ASSUME CloneAssumption == Sizes \subseteq Int /\ IsFiniteSet(Objects)

VARIABLES
    cloning,    \* a clone has begun
    limit,      \* MaxCloneSizeBytes as the clone has read it
    size,       \* what each object declares
    used,       \* the counter
    sum,        \* newUsed of each object
    object      \* where each is: "new", "counted", "writer", "stored", "refused"
                \* or "failed"

cloneVars == <<cloning, limit, size, used, sum, object>>
vars      == <<configVars, cloneVars>>

Init ==
    /\ ConfigInit
    /\ cloning = FALSE /\ limit = 0 /\ used = 0
    /\ size = [o \in Objects |-> 0] /\ sum = [o \in Objects |-> 0]
    /\ object = [o \in Objects |-> "new"]

\* The clone has its own copy of the configuration.  Requests under way do not
\* reach it, so it begins while there are none.
BeginClone ==
    /\ ~cloning /\ cloning' = TRUE
    /\ \A p \in Requests : at[p] = "idle"
    /\ kind = "repository" /\ conf # NoConfig
    /\ limit' = conf.limit
    /\ size' \in [Objects -> Sizes]
    /\ UNCHANGED <<configVars, used, sum, object>>

Declared(o) == IF size[o] < 0 THEN 0 ELSE size[o]
Goes(o, label) == object' = [object EXCEPT ![o] = label]

\* Without a limit the storage is the plain one, which counts nothing.
PlainWriter(o) ==
    /\ cloning /\ object[o] = "new" /\ limit <= 0
    /\ Goes(o, "writer")
    /\ UNCHANGED <<configVars, cloning, limit, size, used, sum>>

Count(o) ==
    /\ cloning /\ object[o] = "new" /\ limit > 0
    /\ used' = used + Declared(o)
    /\ sum' = [sum EXCEPT ![o] = used + Declared(o)]
    /\ Goes(o, "counted")
    /\ UNCHANGED <<configVars, cloning, limit, size>>

Refuse(o) ==
    /\ object[o] = "counted" /\ sum[o] > limit
    /\ used' = used - Declared(o)
    /\ Goes(o, "refused")
    /\ UNCHANGED <<configVars, cloning, limit, size, sum>>

\* Faulty: the counter is set back to what this object has found there.
WriterSetsBack(o) ==
    /\ object[o] = "counted" /\ sum[o] <= limit
    /\ \/ Works /\ Goes(o, "writer") /\ UNCHANGED used
       \/ Fault /\ Goes(o, "failed") /\ used' = sum[o] - Declared(o)
    /\ UNCHANGED <<kind, conf, requests, cloning, limit, size, sum>>

\* The storage below gives a writer, or an error.
Writer(o) ==
    /\ object[o] = "counted" /\ sum[o] <= limit
    /\ \/ Works /\ Goes(o, "writer") /\ UNCHANGED used
       \/ Fault /\ Goes(o, "failed") /\ used' = used - Declared(o)
    /\ UNCHANGED <<kind, conf, requests, cloning, limit, size, sum>>

WriteObject(o) ==
    /\ object[o] = "writer"
    /\ Goes(o, "stored")
    /\ UNCHANGED <<configVars, cloning, limit, size, used, sum>>

Clone == \E o \in Objects :
    PlainWriter(o) \/ Count(o) \/ Refuse(o) \/ Writer(o) \/ WriteObject(o)

\* Nor do later ones: the two are not interleaved.
Configure == ~cloning /\ (\E p \in Requests : Request(p)) /\ UNCHANGED cloneVars

Next == Configure \/ BeginClone \/ Clone
Spec == Init /\ [][Next]_vars
-----------------------------------------------------------------------------
\* What the objects of S declare together: each of them brings bytes of its own.
Bytes(S) == UNION {{o} \X (1..Declared(o)) : o \in S}
Total(S) == Cardinality(Bytes(S))
In(labels) == {o \in Objects : object[o] \in labels}

\* "limits total size of objects stored during in-memory clone (0 = no limit)"
\* (repository.go:36): however the objects come in, those that may be written never
\* declare more than the limit, and one is refused only if all that have come in
\* are more than that.
CloneKeepsLimit ==
    limit > 0 =>
        /\ Total(In({"writer", "stored"})) <= limit
        /\ In({"refused"}) # {} => Total(Objects \ In({"new"})) > limit
=============================================================================
