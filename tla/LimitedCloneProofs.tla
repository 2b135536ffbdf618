------------------------- MODULE LimitedCloneProofs -------------------------
(***************************************************************************)
(* Proofs about the stored configurations, for any number of requests and  *)
(* of failures: what is stored was validated, and an update keeps what it  *)
(* does not give; and about the size limit of a clone, for any objects and *)
(* however their writers are interleaved.                                  *)
(*                                                                         *)
(* The first rests on what an update has read: it was stored while the     *)
(* request was under way (WasStored), whatever has been written over it    *)
(* since.  The limit rests on the last object among any that are counted   *)
(* together: the sum that it looks at holds all of them (Covered).         *)
(***************************************************************************)
EXTENDS LimitedClone, FiniteSetTheorems, TLAPS

RequestType ==
    /\ at \in [Requests -> {"idle", "read", "put"}]
    /\ op \in [Requests -> {"create", "update"}]
    /\ DOMAIN base = Requests /\ DOMAIN seen = Requests
    /\ kind \in DOMAIN FieldsOf

\* Request p is an update that is about to store what it has read, with its fields
\* over it.
Updating(p) == at[p] = "put" /\ op[p] = "update" /\ ~Replaces

WasStored == \A p \in Requests :
    /\ at[p] # "idle" => conf \in seen[p]
    /\ Updating(p) => base[p] \in seen[p] \ {NoConfig}

StoreInv == RequestType /\ WasStored /\ StoredWasValidated

LEMMA InitStore == Init => StoreInv
  BY DEF Init, ConfigInit, StoreInv, RequestType, WasStored, Updating, StoredWasValidated

\* What is written is seen by every other request under way, which forgets nothing.
LEMMA WriteIsSeen ==
    ASSUME RequestType, NEW p \in Requests, NEW c, Write(p, c)
    PROVE  /\ DOMAIN seen' = Requests /\ conf' = c
           /\ \A q \in Requests \ {p} :
                  at[q] # "idle" => c \in seen'[q] /\ seen[q] \subseteq seen'[q]
  BY DEF RequestType, Write

\* An answered request is idle, and nothing else about the requests changes.
LEMMA AnswerIdles ==
    ASSUME RequestType, NEW p \in Requests, Answer(p)
    PROVE  /\ at' \in [Requests -> {"idle", "read", "put"}] /\ at'[p] = "idle"
           /\ op' \in [Requests -> {"create", "update"}] /\ DOMAIN base' = Requests
           /\ kind' = kind
           /\ \A q \in Requests \ {p} : at'[q] = at[q] /\ op'[q] = op[q] /\ base'[q] = base[q]
  BY DEF RequestType, Answer

\* With the answer of one request, what holds of the others goes on to hold: they
\* keep what they have seen, and it includes what is stored now.
LEMMA AnswerKeepsOthers ==
    ASSUME StoreInv, NEW p \in Requests, Answer(p), DOMAIN seen' = Requests,
           \A q \in Requests \ {p} :
               at[q] # "idle" => conf' \in seen'[q] /\ seen[q] \subseteq seen'[q]
    PROVE  RequestType' /\ WasStored'
  <1>1. RequestType'
    BY AnswerIdles DEF StoreInv, RequestType
  <1>2. ASSUME NEW q \in Requests, at'[q] # "idle"
        PROVE  conf' \in seen'[q] /\ (Updating(q)' => base'[q] \in seen'[q] \ {NoConfig})
    <2>1. /\ q # p /\ at'[q] = at[q] /\ op'[q] = op[q] /\ base'[q] = base[q] /\ kind' = kind
          /\ conf' \in seen'[q] /\ seen[q] \subseteq seen'[q]
      BY <1>2, AnswerIdles DEF StoreInv
    <2>2. Updating(q)' => Updating(q)
      BY <2>1 DEF Updating, Replaces
    <2> QED
      BY <2>1, <2>2 DEF StoreInv, WasStored
  <1> QED
    BY <1>1, <1>2 DEF WasStored, Updating

LEMMA LeaveKeepsOthers ==
    ASSUME StoreInv, NEW p \in Requests, Answer(p), Leave(p)
    PROVE  StoreInv'
  <1>1. /\ DOMAIN seen' = Requests /\ conf' = conf /\ kind' = kind
        /\ \A q \in Requests \ {p} : seen'[q] = seen[q]
    BY AnswerIdles DEF Leave, StoreInv, RequestType
  <1>2. RequestType' /\ WasStored'
    BY <1>1, AnswerKeepsOthers DEF StoreInv, WasStored
  <1> QED
    BY <1>1, <1>2 DEF StoreInv, StoredWasValidated, Valid

LEMMA RequestInv ==
    ASSUME StoreInv, NEW p \in Requests, Request(p)
    PROVE  StoreInv'
  <1> USE DEF StoreInv
  <1>1. CASE Receive(p)
    <2>1. RequestType' /\ at'[p] = "read" /\ kind' = kind /\ conf' = conf
      BY <1>1 DEF Receive, RequestType
    <2>2. \A q \in Requests \ {p} :
              (Updating(q)' <=> Updating(q)) /\ seen'[q] = seen[q] /\ at'[q] = at[q]
      BY <1>1 DEF Receive, RequestType, Updating, Replaces
    <2>3. seen'[p] = {conf} /\ base' = base
      BY <1>1 DEF Receive, RequestType
    <2>4. WasStored'
      BY <2>1, <2>2, <2>3 DEF WasStored, Updating
    <2> QED
      BY <2>1, <2>4 DEF StoredWasValidated, Valid
  <1>2. CASE ReadExisting(p)
    <2>1. CASE Answer(p) /\ Leave(p)
      BY <2>1, LeaveKeepsOthers
    <2>2. CASE /\ op[p] = "create" \/ Replaces \/ conf # NoConfig
               /\ at[p] = "read" /\ at' = [at EXCEPT ![p] = "put"]
               /\ base' = [base EXCEPT ![p] = IF op[p] = "create" \/ Replaces THEN Zero ELSE conf]
               /\ UNCHANGED <<kind, conf, op, seen, sent>>
      <3>1. RequestType'
        BY <2>2 DEF RequestType
      <3>2. \A q \in Requests \ {p} :
                (Updating(q)' <=> Updating(q)) /\ base'[q] = base[q] /\ at'[q] = at[q]
        BY <2>2 DEF RequestType, Updating, Replaces
      <3>3. Updating(p)' => base'[p] = conf /\ conf # NoConfig
        BY <2>2 DEF RequestType, Updating, Replaces
      <3>4. conf \in seen[p]
        BY <2>2 DEF WasStored
      <3>5. WasStored'
        BY <2>2, <3>2, <3>3, <3>4 DEF WasStored
      <3> QED
        BY <2>2, <3>1, <3>5 DEF StoredWasValidated, Valid
    <2> QED
      BY <1>2, <2>1, <2>2 DEF ReadExisting
  <1>3. ASSUME NEW g \in Given, Put(p, g)
        PROVE  StoreInv'
    <2>1. Answer(p)
      BY <1>3 DEF Put
    <2>2. CASE Accepted(p, g) /\ Write(p, Merged(p, g))
      <3>1. RequestType' /\ WasStored'
        BY <2>1, <2>2, WriteIsSeen, AnswerKeepsOthers
      <3>2. StoredWasValidated'
        BY <2>1, <2>2, AnswerIdles DEF Accepted, Write, StoredWasValidated, Valid
      <3> QED
        BY <3>1, <3>2
    <2>3. CASE Leave(p)
      BY <2>1, <2>3, LeaveKeepsOthers
    <2> QED
      BY <1>3, <2>2, <2>3 DEF Put
  <1>4. CASE Delete(p)
    <2>1. /\ DOMAIN seen' = Requests /\ conf' = NoConfig /\ at[p] = "idle"
          /\ UNCHANGED <<kind, at, op, base>>
          /\ \A q \in Requests \ {p} :
                 at[q] # "idle" => conf' \in seen'[q] /\ seen[q] \subseteq seen'[q]
      BY <1>4, WriteIsSeen DEF Delete
    <2>2. RequestType' /\ WasStored'
      BY <2>1 DEF RequestType, WasStored, Updating, Replaces
    <2> QED
      BY <2>1, <2>2 DEF StoredWasValidated
  <1> QED
    BY <1>1, <1>2, <1>3, <1>4 DEF Request

LEMMA StepStore == StoreInv /\ [Next]_vars => StoreInv'
  <1> SUFFICES ASSUME StoreInv, [Next]_vars PROVE StoreInv'
    OBVIOUS
  <1>1. CASE Configure
    BY <1>1, RequestInv DEF Configure
  <1>2. CASE UNCHANGED <<kind, conf, requests>>
    BY <1>2 DEF requests, StoreInv, RequestType, WasStored, Updating, Replaces,
                StoredWasValidated, Valid
  <1>3. CASE BeginClone \/ Clone \/ UNCHANGED vars
    BY <1>2, <1>3 DEF BeginClone, Clone, PlainWriter, Count, Refuse, Writer, WriteObject,
                      vars, configVars
  <1>4. QED
    BY <1>1, <1>3 DEF Next

\* The inductive invariant of the stored configurations.
THEOREM StoreInvariance == Spec => []StoreInv
  BY InitStore, StepStore, PTL DEF Spec

\* However many requests are under way together, what is stored was validated as a
\* whole (git_repository/backend.go:170, terraform/backend.go:142).
THEOREM ConfigurationsAreValidated == Spec => []StoredWasValidated
  <1>1. StoreInv => StoredWasValidated
    BY DEF StoreInv
  <1>2. QED
    BY <1>1, StoreInvariance, PTL

LEMMA GivenLimit ==
    ASSUME NEW g \in Given, kind \in DOMAIN FieldsOf, "limit" \in DOMAIN g
    PROVE  kind = "repository" /\ g["limit"] \in Int
  <1>1. PICK F \in SUBSET FieldsOf[kind] :
            /\ g \in [F -> Limits \cup {Empty, Good, Other, Bad}]
            /\ \A f \in F : g[f] \in Values(f)
    BY DEF Given, GivenOf
  <1>2. "limit" \in FieldsOf[kind]
    BY <1>1
  <1>3. kind = "repository"
    BY <1>2 DEF FieldsOf
  <1>4. Values("limit") = Limits
    BY DEF Values
  <1> QED
    BY <1>1, <1>3, <1>4, ConfigAssumption

\* Whatever is written and deleted meanwhile, an update keeps what it does not give as
\* it was in one configuration that was stored while it was under way
\* (git_repository/backend.go:123).
THEOREM UpdatesKeepTheRest == Spec => UpdateKeepsTheRest
  <1> DEFINE Keeps == \A p \in Requests :
          conf' # conf /\ at'[p] # at[p] /\ op[p] = "update" /\ ~Replaces =>
              \A g \in Given : Put(p, g) =>
                  \E c \in seen[p] \ {NoConfig} : \A f \in Fields :
                      f \notin DOMAIN g \/ (f = "limit" /\ g[f] < 0) => conf'[f] = c[f]
  <1>1. StoreInv /\ [Next]_vars => [Keeps]_configVars
    <2> SUFFICES ASSUME StoreInv, NEW p \in Requests, NEW g \in Given, Put(p, g),
                        op[p] = "update", ~Replaces, conf' # conf
                 PROVE  \E c \in seen[p] \ {NoConfig} : \A f \in Fields :
                            f \notin DOMAIN g \/ (f = "limit" /\ g[f] < 0) => conf'[f] = c[f]
      OBVIOUS
    <2>1. base[p] \in seen[p] \ {NoConfig}
      BY DEF Put, StoreInv, WasStored, Updating
    <2>2. conf' = Merged(p, g)
      BY DEF Put, Write, Leave
    <2>3. kind \in DOMAIN FieldsOf
      BY DEF StoreInv, RequestType
    <2>4. ASSUME NEW f \in Fields, f \notin DOMAIN g \/ (f = "limit" /\ g[f] < 0)
          PROVE  conf'[f] = base[p][f]
      <3>1. CASE f \notin DOMAIN g
        BY <2>2, <3>1 DEF Merged
      <3>2. CASE f = "limit" /\ g[f] < 0 /\ f \in DOMAIN g
        <4>1. ~(g[f] >= 0)
          BY <3>2, <2>3, GivenLimit
        <4> QED
          BY <2>2, <3>2, <4>1 DEF Merged
      <3> QED
        BY <2>4, <3>1, <3>2
    <2> QED
      BY <2>1, <2>4
  <1>2. QED
    BY <1>1, StoreInvariance, PTL DEF Spec, UpdateKeepsTheRest
-----------------------------------------------------------------------------
\* A size that is stored, or about to be, is never negative.
LimitIsNat ==
    kind = "repository" =>
        /\ conf # NoConfig => conf.limit \in Nat
        /\ \A p \in Requests : at[p] = "put" => base[p].limit \in Nat

CloneLabels == {"new", "counted", "writer", "stored", "refused", "failed"}

CloneType ==
    /\ limit \in Nat /\ used \in Int
    /\ size \in [Objects -> Int] /\ sum \in [Objects -> Int]
    /\ object \in [Objects -> CloneLabels]

\* The objects that the counter holds, and those that have come in.
Counted == In({"counted", "writer", "stored"})
Arrived == Objects \ In({"new"})

\* Among any objects that are counted together, the last one has found all of them.
Covered == \A T \in SUBSET Counted : T # {} => \E o \in T : sum[o] >= Total(T)

CountInv ==
    limit > 0 =>
        /\ used = Total(Counted)
        /\ Covered
        /\ \A o \in In({"writer", "stored"}) : sum[o] <= limit
        /\ \A o \in In({"refused"}) : sum[o] > limit
        /\ \A o \in Arrived : sum[o] <= Total(Arrived)

CloneInv ==
    /\ LimitIsNat /\ CloneType /\ CountInv
    /\ ~cloning => limit = 0 /\ used = 0 /\ Arrived = {}

\* The bytes of finitely many objects are finitely many, and every object adds its own.
LEMMA BytesFinite ==
    ASSUME CloneType, NEW S \in SUBSET Objects
    PROVE  IsFiniteSet(Bytes(S)) /\ Total(S) \in Nat
  <1> DEFINE pieces == {{o} \X (1..Declared(o)) : o \in S}
             piece == [o \in S |-> {o} \X (1..Declared(o))]
  <1>1. IsFiniteSet(S)
    BY FS_Subset, CloneAssumption
  <1>2. piece \in Surjection(S, pieces)
    BY DEF Surjection
  <1>3. IsFiniteSet(pieces)
    BY <1>1, <1>2, FS_Surjection
  <1>4. ASSUME NEW o \in S PROVE IsFiniteSet({o} \X (1..Declared(o)))
    <2>1. Declared(o) \in Int
      BY DEF CloneType, Declared
    <2>2. IsFiniteSet(1..Declared(o))
      BY <2>1, FS_Interval
    <2>3. IsFiniteSet({o})
      BY FS_Singleton
    <2> QED
      BY <2>2, <2>3, FS_Product
  <1>5. IsFiniteSet(UNION pieces)
    BY <1>3, <1>4, FS_UNION
  <1> QED
    BY <1>5, FS_CardinalityType DEF Bytes, Total

LEMMA TotalOne ==
    ASSUME CloneType, NEW o \in Objects
    PROVE  Total({o}) = Declared(o) /\ Declared(o) \in Nat
  <1>1. Declared(o) \in Nat
    BY DEF CloneType, Declared
  <1>2. Bytes({o}) = {o} \X (1..Declared(o))
    BY DEF Bytes
  <1>3. IsFiniteSet(1..Declared(o)) /\ Cardinality(1..Declared(o)) = Declared(o)
    <2>1. /\ IsFiniteSet(1..Declared(o))
          /\ Cardinality(1..Declared(o)) = IF 1 > Declared(o) THEN 0 ELSE Declared(o) - 1 + 1
      BY <1>1, FS_Interval
    <2> QED
      BY <1>1, <2>1
  <1>4. IsFiniteSet({o}) /\ Cardinality({o}) = 1
    BY FS_Singleton
  <1>5. Cardinality({o} \X (1..Declared(o))) = 1 * Declared(o)
    BY <1>3, <1>4, FS_Product
  <1> QED
    BY <1>1, <1>2, <1>5 DEF Total

LEMMA TotalUnion ==
    ASSUME CloneType, NEW S \in SUBSET Objects, NEW T \in SUBSET Objects, S \cap T = {}
    PROVE  Total(S \cup T) = Total(S) + Total(T)
  <1>1. IsFiniteSet(Bytes(S)) /\ IsFiniteSet(Bytes(T))
    BY BytesFinite
  <1>2. Bytes(S \cup T) = Bytes(S) \cup Bytes(T) /\ Bytes(S) \cap Bytes(T) = {}
    BY DEF Bytes
  <1>3. Cardinality(Bytes(S) \cup Bytes(T)) =
            Cardinality(Bytes(S)) + Cardinality(Bytes(T)) - Cardinality(Bytes(S) \cap Bytes(T))
    BY <1>1, FS_Union
  <1>4. Total(S \cup T) = Total(S) + Total(T) - 0
    BY <1>2, <1>3, FS_EmptySet DEF Total
  <1> QED
    BY <1>4, BytesFinite

LEMMA TotalGrows ==
    ASSUME CloneType, NEW T \in SUBSET Objects, NEW S \in SUBSET T
    PROVE  Total(S) <= Total(T)
  <1>1. Bytes(S) \subseteq Bytes(T) /\ IsFiniteSet(Bytes(T))
    BY BytesFinite DEF Bytes
  <1> QED
    BY <1>1, FS_Subset DEF Total

LEMMA TotalNothing == Total({}) = 0
  <1>1. Bytes({}) = {}
    BY DEF Bytes
  <1> QED
    BY <1>1, FS_EmptySet DEF Total
-----------------------------------------------------------------------------
LEMMA InitClone == Init => CloneInv
  <1> SUFFICES ASSUME Init PROVE CloneInv
    OBVIOUS
  <1>1. LimitIsNat /\ CloneType
    BY DEF Init, ConfigInit, LimitIsNat, CloneType, CloneLabels
  <1>2. Arrived = {}
    BY DEF Init, Arrived, In
  <1> QED
    BY <1>1, <1>2 DEF Init, CloneInv, CountInv

LEMMA RequestKeepsLimit ==
    ASSUME StoreInv, LimitIsNat, NEW p \in Requests, Request(p)
    PROVE  LimitIsNat'
  <1> SUFFICES ASSUME kind' = "repository"
               PROVE  /\ conf' # NoConfig => conf'.limit \in Nat
                      /\ \A q \in Requests : at'[q] = "put" => base'[q].limit \in Nat
    BY DEF LimitIsNat
  <1>1. RequestType /\ (kind = "repository" =>
            /\ conf # NoConfig => conf.limit \in Nat
            /\ \A q \in Requests : at[q] = "put" => base[q].limit \in Nat)
    BY DEF StoreInv, LimitIsNat
  <1>2. Fields = {"url", "limit", "other"} \/ kind # "repository"
    BY DEF Fields, FieldsOf
  <1>3. CASE Receive(p)
    BY <1>1, <1>3 DEF Receive, RequestType
  <1>4. CASE ReadExisting(p)
    <2>1. CASE Answer(p) /\ Leave(p)
      BY <1>1, <2>1, AnswerIdles DEF Leave
    <2>2. CASE /\ op[p] = "create" \/ Replaces \/ conf # NoConfig
               /\ at' = [at EXCEPT ![p] = "put"]
               /\ base' = [base EXCEPT ![p] = IF op[p] = "create" \/ Replaces THEN Zero ELSE conf]
               /\ UNCHANGED <<kind, conf>>
      <3>1. Zero.limit = 0
        BY <1>2, <2>2 DEF Zero
      <3>2. base'[p].limit \in Nat
        BY <1>1, <2>2, <3>1 DEF RequestType
      <3> QED
        BY <1>1, <2>2, <3>2 DEF RequestType
    <2> QED
      BY <1>4, <2>1, <2>2 DEF ReadExisting
  <1>5. ASSUME NEW g \in Given, Put(p, g)
        PROVE  /\ conf' # NoConfig => conf'.limit \in Nat
               /\ \A q \in Requests : at'[q] = "put" => base'[q].limit \in Nat
    <2>1. kind = "repository" /\ at[p] = "put"
          /\ \A q \in Requests : at'[q] = "put" => at[q] = "put" /\ base'[q] = base[q]
      BY <1>1, <1>5, AnswerIdles DEF Put
    <2>2. Merged(p, g).limit \in Nat
      BY <1>1, <1>2, <2>1, GivenLimit DEF Merged, RequestType
    <2> QED
      BY <1>1, <1>5, <2>1, <2>2 DEF Put, Write, Leave
  <1>6. CASE Delete(p)
    BY <1>1, <1>6 DEF Delete, Write
  <1> QED
    BY <1>3, <1>4, <1>5, <1>6 DEF Request

\* An object that goes on changes nothing of the others.
LEMMA LabelStep ==
    ASSUME CloneType, NEW o \in Objects, NEW l \in CloneLabels \ {"new"}, Goes(o, l)
    PROVE  /\ object' \in [Objects -> CloneLabels] /\ object'[o] = l
           /\ Arrived' = Arrived \cup {o}
           /\ Counted' = (Counted \ {o}) \cup
                         (IF l \in {"counted", "writer", "stored"} THEN {o} ELSE {})
           /\ \A q \in Objects \ {o} : object'[q] = object[q]
  BY DEF CloneType, Goes, Arrived, Counted, In

\* With a limit, an object is counted when it comes in.
LEMMA CountStep ==
    ASSUME CloneInv, NEW o \in Objects, Count(o)
    PROVE  CloneType' /\ CountInv'
  <1> USE DEF CloneInv
  <1>1. /\ object[o] = "new" /\ limit > 0 /\ limit' = limit /\ size' = size
        /\ used' = used + Declared(o) /\ sum' = [sum EXCEPT ![o] = used + Declared(o)]
        /\ Goes(o, "counted")
    BY DEF Count
  <1>2. /\ Counted' = Counted \cup {o} /\ Arrived' = Arrived \cup {o} /\ object'[o] = "counted"
        /\ \A q \in Objects \ {o} : object'[q] = object[q]
        /\ object' \in [Objects -> CloneLabels]
        /\ o \notin Arrived /\ o \notin Counted
    <2>1. "counted" \in CloneLabels \ {"new"}
      BY DEF CloneLabels
    <2> QED
      BY <1>1, <2>1, LabelStep DEF Arrived, Counted, In
  <1>3. Declared(o) \in Nat /\ Total({o}) = Declared(o)
    BY TotalOne
  <1>4. CloneType'
    <2>1. used + Declared(o) \in Int /\ used' \in Int
      BY <1>1, <1>3 DEF CloneType
    <2>2. sum' \in [Objects -> Int]
      BY <1>1, <2>1 DEF CloneType
    <2> QED
      BY <1>1, <1>2, <2>1, <2>2 DEF CloneType
  <1>5. /\ Counted \in SUBSET Arrived /\ Arrived \in SUBSET Objects
        /\ Counted' \in SUBSET Arrived' /\ Arrived' \in SUBSET Objects
    BY DEF Counted, Arrived, In
  <1>6. \A S : Total(S)' = Total(S)
    BY <1>1 DEF Total, Bytes, Declared
  <1>7. Total(Counted') = used + Declared(o) /\ Total(Arrived) <= Total(Arrived')
        /\ Total(Counted') <= Total(Arrived')
    <2>1. Total(Counted \cup {o}) = Total(Counted) + Total({o})
      BY <1>2, <1>5, TotalUnion
    <2>2. Arrived \in SUBSET Arrived'
      BY <1>2
    <2> QED
      BY <1>1, <1>2, <1>3, <1>5, <2>1, <2>2, TotalGrows DEF CountInv
  <1>8. /\ sum'[o] = used + Declared(o) /\ \A q \in Objects \ {o} : sum'[q] = sum[q]
        /\ sum \in [Objects -> Int] /\ used \in Int
    BY <1>1 DEF CloneType
  <1>9. ASSUME NEW T \in SUBSET Counted', T # {}
        PROVE  \E q \in T : sum'[q] >= Total(T)
    <2>1. CASE o \in T
      <3>1. Total(T) <= Total(Counted')
        BY <1>5, TotalGrows
      <3>2. sum'[o] >= Total(T)
        BY <1>7, <1>8, <3>1
      <3> QED
        BY <2>1, <3>2
    <2>2. CASE o \notin T
      <3>1. T \in SUBSET Counted /\ T \in SUBSET Objects
        BY <1>2, <1>5, <2>2
      <3>2. PICK q \in T : sum[q] >= Total(T)
        BY <1>1, <1>9, <3>1 DEF CountInv, Covered
      <3> QED
        BY <1>8, <2>2, <3>1, <3>2
    <2> QED
      BY <2>1, <2>2
  <1>10. ASSUME NEW q \in Arrived' PROVE sum'[q] <= Total(Arrived')
    <2>1. CASE q = o
      BY <1>7, <1>8, <2>1
    <2>2. CASE q # o
      <3>1. q \in Arrived /\ q \in Objects /\ Total(Arrived) \in Int /\ Total(Arrived') \in Int
        BY <1>2, <1>5, <2>2, BytesFinite
      <3>2. sum[q] <= Total(Arrived)
        BY <1>1, <3>1 DEF CountInv
      <3> QED
        BY <1>7, <1>8, <2>2, <3>1, <3>2
    <2> QED
      BY <2>1, <2>2
  <1>11. /\ \A q \in In({"writer", "stored"})' : sum'[q] <= limit
         /\ \A q \in In({"refused"})' : sum'[q] > limit
    <2>1. In({"writer", "stored"})' = In({"writer", "stored"})
          /\ In({"refused"})' = In({"refused"})
          /\ o \notin In({"writer", "stored"}) /\ o \notin In({"refused"})
      BY <1>1, <1>2 DEF In
    <2> QED
      BY <1>1, <1>8, <2>1 DEF CountInv, In
  <1>12. used' = Total(Counted)' /\ (\A q \in Arrived' : sum'[q] <= Total(Arrived)') /\ Covered'
    BY <1>1, <1>6, <1>7, <1>9, <1>10 DEF Covered
  <1> QED
    BY <1>1, <1>4, <1>11, <1>12 DEF CountInv

\* An object that goes on is counted, or taken back when it is not written after all.
LEMMA MoveStep ==
    ASSUME CloneInv, NEW o \in Objects, NEW l \in CloneLabels \ {"new"}, Goes(o, l),
           object[o] # "new", limit' = limit, size' = size, sum' = sum,
           limit > 0 => IF l \in {"writer", "stored"}
                        THEN used' = used /\ sum[o] <= limit /\ o \in Counted
                        ELSE used' = used - Declared(o) /\ o \in Counted,
           used' \in Int,
           l = "refused" => sum[o] > limit, l # "counted"
    PROVE  CloneType' /\ CountInv' /\ Arrived' = Arrived
  <1> USE DEF CloneInv
  <1>1. /\ object' \in [Objects -> CloneLabels] /\ object'[o] = l
        /\ Counted' = (Counted \ {o}) \cup (IF l \in {"writer", "stored"} THEN {o} ELSE {})
        /\ \A q \in Objects \ {o} : object'[q] = object[q]
    BY LabelStep
  <1>2. Arrived' = Arrived
    BY LabelStep DEF Arrived, In
  <1>3. CloneType'
    BY <1>1 DEF CloneType
  <1>4. \A S : Total(S)' = Total(S)
    BY DEF Total, Bytes, Declared
  <1>5. ASSUME limit > 0
        PROVE  used' = Total(Counted') /\ Counted' \subseteq Counted
    <2>1. CASE l \in {"writer", "stored"}
      BY <1>1, <1>5, <2>1 DEF CountInv
    <2>2. CASE l \notin {"writer", "stored"}
      <3>1. /\ Counted' = Counted \ {o} /\ o \in Counted
            /\ Counted \ {o} \in SUBSET Objects /\ {o} \in SUBSET Objects
            /\ (Counted \ {o}) \cap {o} = {} /\ Counted = (Counted \ {o}) \cup {o}
        BY <1>1, <1>5, <2>2 DEF Counted, In
      <3>2. Total((Counted \ {o}) \cup {o}) = Total(Counted \ {o}) + Total({o})
        BY <3>1, TotalUnion
      <3>3. Total(Counted) = Total(Counted') + Declared(o)
        BY <3>1, <3>2, TotalOne
      <3>4. Total(Counted') \in Nat /\ Declared(o) \in Nat
        BY <3>1, BytesFinite, TotalOne
      <3>5. used = Total(Counted) /\ used' = used - Declared(o)
        BY <1>5, <2>2 DEF CountInv
      <3> QED
        BY <3>1, <3>3, <3>4, <3>5
    <2> QED
      BY <2>1, <2>2
  <1>6. ASSUME limit > 0
        PROVE  /\ \A q \in In({"writer", "stored"})' : sum[q] <= limit
               /\ \A q \in In({"refused"})' : sum[q] > limit
    <2>1. /\ \A q \in In({"writer", "stored"})' : q # o => q \in In({"writer", "stored"})
          /\ \A q \in In({"refused"})' : q # o => q \in In({"refused"})
          /\ o \in In({"writer", "stored"})' => l \in {"writer", "stored"}
          /\ o \in In({"refused"})' => l = "refused"
      BY <1>1 DEF In
    <2> QED
      BY <1>6, <2>1 DEF CountInv
  <1>7. CountInv'
    <2> SUFFICES ASSUME limit > 0
                 PROVE  /\ used' = Total(Counted)' /\ Covered'
                        /\ \A q \in In({"writer", "stored"})' : sum[q] <= limit
                        /\ \A q \in In({"refused"})' : sum[q] > limit
                        /\ \A q \in Arrived' : sum[q] <= Total(Arrived)'
      BY DEF CountInv
    <2>1. used' = Total(Counted)' /\ Covered'
      BY <1>4, <1>5 DEF CountInv, Covered
    <2>2. \A q \in Arrived' : sum[q] <= Total(Arrived)'
      BY <1>2, <1>4 DEF CountInv
    <2> QED
      BY <1>6, <2>1, <2>2
  <1> QED
    BY <1>2, <1>3, <1>7

LEMMA ObjectStep ==
    ASSUME CloneInv, NEW o \in Objects,
           PlainWriter(o) \/ Count(o) \/ Refuse(o) \/ Writer(o) \/ WriteObject(o)
    PROVE  CloneInv'
  <1> USE DEF CloneInv
  <1>1. LimitIsNat' /\ cloning
    <2>1. conf' = conf /\ at' = at /\ base' = base /\ kind' = kind
      BY DEF PlainWriter, Count, Refuse, Writer, WriteObject, configVars, requests
    <2>2. cloning
      BY DEF PlainWriter, Count, Refuse, Writer, WriteObject, Arrived, In
    <2> QED
      BY <2>1, <2>2 DEF LimitIsNat
  <1>2. cloning' = cloning
    BY DEF PlainWriter, Count, Refuse, Writer, WriteObject
  <1>3. Declared(o) \in Nat /\ used \in Int /\ used - Declared(o) \in Int
    <2>1. Declared(o) \in Nat /\ used \in Int
      BY TotalOne DEF CloneType
    <2> QED
      BY <2>1
  <1>4. CASE PlainWriter(o)
    <2>1. limit' = limit /\ ~(limit > 0) /\ CloneType'
      BY <1>4 DEF PlainWriter, CloneType, Goes, CloneLabels
    <2> QED
      BY <1>1, <1>2, <2>1 DEF CountInv
  <1>5. CASE Count(o)
    BY <1>1, <1>2, <1>5, CountStep
  <1>6. ASSUME NEW l \in {"writer", "stored", "refused", "failed"}, Goes(o, l),
               object[o] \in {"counted", "writer"}, limit' = limit, size' = size, sum' = sum,
               used' \in Int, l = "refused" => sum[o] > limit,
               limit > 0 => IF l \in {"writer", "stored"} THEN used' = used /\ sum[o] <= limit
                            ELSE used' = used - Declared(o)
        PROVE  CloneType' /\ CountInv'
    <2>1. o \in Counted /\ object[o] # "new" /\ l \in CloneLabels \ {"new"}
      BY <1>6 DEF Counted, In, CloneLabels
    <2> QED
      BY <1>6, <2>1, MoveStep
  <1>7. CASE Refuse(o)
    BY <1>1, <1>2, <1>3, <1>6, <1>7 DEF Refuse
  <1>8. CASE Writer(o)
    BY <1>1, <1>2, <1>3, <1>6, <1>8 DEF Writer
  <1>9. CASE WriteObject(o)
    <2>1. o \in In({"writer", "stored"})
      BY <1>9 DEF WriteObject, In
    <2> QED
      BY <1>1, <1>2, <1>3, <1>6, <1>9, <2>1 DEF WriteObject, CountInv
  <1> QED
    BY <1>4, <1>5, <1>7, <1>8, <1>9

LEMMA BeginCloneStep == CloneInv /\ BeginClone => CloneInv'
  <1> SUFFICES ASSUME CloneInv, BeginClone PROVE CloneInv'
    OBVIOUS
  <1> USE DEF CloneInv
  <1>1. /\ ~cloning /\ cloning' /\ limit' = conf.limit /\ conf # NoConfig /\ kind = "repository"
        /\ size' \in [Objects -> Sizes] /\ used' = used /\ sum' = sum /\ object' = object
        /\ conf' = conf /\ at' = at /\ base' = base /\ kind' = kind
    BY DEF BeginClone, configVars, requests
  <1>2. LimitIsNat' /\ limit' \in Nat
    BY <1>1 DEF LimitIsNat
  <1>3. CloneType'
    BY <1>1, <1>2, CloneAssumption DEF CloneType
  <1>4. Arrived = {} /\ Arrived' = {}
    BY <1>1 DEF Arrived, In
  <1>5. CountInv'
    <2>1. Counted' = {} /\ In({"writer", "stored"})' = {} /\ In({"refused"})' = {}
      BY <1>4 DEF Counted, Arrived, In
    <2>2. Total(Counted)' = 0
      BY <2>1, TotalNothing DEF Total, Bytes
    <2> QED
      BY <1>1, <1>4, <2>1, <2>2 DEF CountInv, Covered
  <1> QED
    BY <1>1, <1>2, <1>3, <1>5

LEMMA StepClone == StoreInv /\ CloneInv /\ [Next]_vars => CloneInv'
  <1> SUFFICES ASSUME StoreInv, CloneInv, [Next]_vars PROVE CloneInv'
    OBVIOUS
  <1>1. CASE Configure \/ UNCHANGED vars
    <2>1. LimitIsNat'
      <3>1. CASE \E p \in Requests : Request(p)
        BY <3>1, RequestKeepsLimit DEF CloneInv
      <3>2. CASE UNCHANGED configVars
        BY <3>2 DEF CloneInv, LimitIsNat, configVars, requests
      <3> QED
        BY <1>1, <3>1, <3>2 DEF Configure, vars
    <2>2. UNCHANGED cloneVars
      BY <1>1 DEF Configure, vars
    <2>3. /\ Counted' = Counted /\ Arrived' = Arrived
          /\ \A labels : In(labels)' = In(labels)
          /\ \A S : Total(S)' = Total(S)
      BY <2>2 DEF cloneVars, Counted, Arrived, In, Total, Bytes, Declared
    <2>4. CloneType' /\ (~cloning => limit = 0 /\ used = 0 /\ Arrived = {})'
      BY <2>2, <2>3 DEF cloneVars, CloneInv, CloneType
    <2>5. CountInv'
      <3>1. Total(Counted)' = Total(Counted) /\ Total(Arrived)' = Total(Arrived)
        BY <2>2, <2>3 DEF cloneVars, Total, Bytes, Declared
      <3> QED
        BY <2>2, <2>3, <3>1 DEF cloneVars, CloneInv, CountInv, Covered
    <2> QED
      BY <2>1, <2>4, <2>5 DEF CloneInv
  <1>2. CASE BeginClone
    BY <1>2, BeginCloneStep
  <1>3. CASE Clone
    BY <1>3, ObjectStep DEF Clone
  <1> QED
    BY <1>1, <1>2, <1>3 DEF Next

\* The inductive invariant of the counter, for any objects and any interleaving.
THEOREM CloneInvariance == Spec => [](StoreInv /\ CloneInv)
  BY InitStore, InitClone, StepStore, StepClone, PTL DEF Spec

\* However the objects come in, what may be written keeps to the limit, and nothing is
\* refused that would have fitted (RawObjectWriter, pkg/git/repository.go:44).
THEOREM ClonesKeepTheLimit == Spec => []CloneKeepsLimit
  <1>1. ASSUME CloneInv PROVE CloneKeepsLimit
    <2> SUFFICES ASSUME limit > 0
                 PROVE  /\ Total(In({"writer", "stored"})) <= limit
                        /\ In({"refused"}) # {} => Total(Arrived) > limit
      BY DEF CloneKeepsLimit, Arrived
    <2> DEFINE T == In({"writer", "stored"})
    <2>1. /\ T \in SUBSET Counted /\ T \in SUBSET Objects /\ Arrived \in SUBSET Objects
          /\ In({"refused"}) \subseteq Arrived /\ CountInv /\ CloneType
      BY <1>1 DEF CloneInv, Counted, Arrived, In
    <2>2. Total(T) \in Nat /\ Total(Arrived) \in Nat /\ limit \in Nat
      BY <2>1, BytesFinite DEF CloneType
    <2>3. Total(T) <= limit
      <3>1. CASE T = {}
        BY <2>2, <3>1, TotalNothing
      <3>2. CASE T # {}
        <4>1. PICK o \in T : sum[o] >= Total(T)
          BY <2>1, <3>2 DEF CountInv, Covered
        <4>2. sum[o] <= limit /\ sum[o] \in Int
          BY <2>1 DEF CountInv, CloneType
        <4> QED
          BY <2>2, <4>1, <4>2
      <3> QED
        BY <3>1, <3>2
    <2>4. ASSUME NEW o \in In({"refused"}) PROVE Total(Arrived) > limit
      <3>1. sum[o] > limit /\ sum[o] <= Total(Arrived) /\ sum[o] \in Int
        BY <2>1 DEF CountInv, CloneType
      <3> QED
        BY <2>2, <3>1
    <2> QED
      BY <2>3, <2>4
  <1> QED
    BY CloneInvariance, <1>1, PTL
=============================================================================
