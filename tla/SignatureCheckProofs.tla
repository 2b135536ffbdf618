------------------------ MODULE SignatureCheckProofs ------------------------
(***************************************************************************)
(* Proofs about the signature check, for any entries, signatures and       *)
(* required number: no trusted entry counts twice, however the entries     *)
(* change; and where each key has one entry, of which at most one changes  *)
(* during the read, the outcome is that of the rule.                       *)
(*                                                                         *)
(* The countdown keeps no record of what it has counted.  The invariant    *)
(* says that there is such a record: as many signatures as the countdown   *)
(* has gone down, all of them dealt with, each with an entry of its own    *)
(* that verifies it and that is no longer on the list (RecordInv).  With   *)
(* one entry for each key it has gone down by the trusted keys that have   *)
(* signed (Exact), and what has been read of the entries is what they were *)
(* at one moment (ReadInv).                                                *)
(***************************************************************************)
EXTENDS SignatureCheck, SequenceTheorems, FiniteSetTheorems, WellFoundedInduction, TLAPS

Elements(s)  == {s[i] : i \in DOMAIN s}
Unrepeated(s) == \A i, j \in DOMAIN s : s[i] = s[j] => i = j

\* The signatures that are still to be checked.
Ahead ==
    IF pc = "start" THEN Signatures
    ELSE IF pc = "own" THEN todo \o notes
    ELSE IF pc = "read" THEN notes ELSE todo

Passed == Len(Signatures) - Len(Ahead)

Counting == pc \in {"start", "own", "read", "notes"}

CheckType ==
    /\ pc \in {"keys", "start", "own", "read", "notes", "accepted", "rejected", "failed"}
    /\ own \in Keys \cup {Unsigned} /\ notes \in Seq(Keys)
    /\ required \in Int /\ missing \in Int /\ todo \in Seq(Keys)
    /\ \A n \in DOMAIN store : store[n] \in Entries
    /\ entries \in Seq(Entries)
    /\ pc = "keys" => missing = required
    /\ pc # "keys" => reader = "read"

\* The list of entries holds none twice, and what is still to be checked is the end
\* of all the signatures.
ListInv ==
    Counting =>
        /\ pgpKeys \in Seq(DOMAIN entries) /\ Unrepeated(pgpKeys)
        /\ Len(Ahead) <= Len(Signatures)
        /\ \A i \in 1..Len(Ahead) : Ahead[i] = Signatures[Passed + i]

\* S are the signatures counted so far, by the entries each of them was counted for.
Record(S, by) ==
    /\ S \subseteq 1..Passed
    /\ Cardinality(S) = required - missing
    /\ \A i \in S : Signatures[i] \in entries[by[i]] /\ by[i] \notin Elements(pgpKeys)
    /\ \A i, j \in S : by[i] = by[j] => i = j

RecordInv ==
    Counting => \E S \in SUBSET DOMAIN Signatures : \E by \in [S -> DOMAIN entries] :
                    Record(S, by)

CheckInv == CheckType /\ ListInv /\ RecordInv /\ EveryEntryCountsOnce
-----------------------------------------------------------------------------
LEMMA SequencesOver ==
    \A A, n, f : n \in Nat /\ f \in [1..n -> A] => f \in Seq(A)
  OBVIOUS

LEMMA LeastElement ==
    ASSUME NEW S, S \subseteq Nat, S # {}
    PROVE  First(S) \in S
  <1> DEFINE R == {ss \in Nat \X Nat : ss[1] < ss[2]}
  <1>1. IsWellFoundedOn(R, Nat)
    BY NatLessThanWellFounded DEF OpToRel
  <1>2. PICK i \in S : \A j \in S : ~(<<j, i>> \in R)
    BY <1>1, WFMin, Zenon
  <1>3. ASSUME NEW j \in S
        PROVE  i <= j
    <2>1. i \in Nat /\ j \in Nat
      OBVIOUS
    <2>2. j < i => <<j, i>> \in R
      BY <2>1
    <2>3. QED
      BY <1>2, <2>1, <2>2
  <1>4. QED
    BY <1>3 DEF First

\* Without takes the entry at one position off the list, and only that.
LEMMA WithoutRemoves ==
    ASSUME NEW S, NEW s \in Seq(S), Unrepeated(s), NEW m \in DOMAIN s
    PROVE  /\ Without(s, m) \in Seq(S)
           /\ Unrepeated(Without(s, m))
           /\ Elements(Without(s, m)) = Elements(s) \ {s[m]}
  <1> DEFINE w == Without(s, m)
             left == SubSeq(s, 1, m - 1)
             right == SubSeq(s, m + 1, Len(s))
             at(i) == IF i <= m - 1 THEN i ELSE i + 1
  <1>1. /\ Len(s) \in Nat /\ DOMAIN s = 1..Len(s) /\ m \in 1..Len(s)
        /\ \A i \in 1..Len(s) : s[i] \in S
    BY LenProperties, ElementOfSeq
  <1>2. /\ left \in Seq(S) /\ Len(left) = m - 1
        /\ \A i \in 1..(m - 1) : left[i] = s[i]
    BY <1>1, SubSeqProperties
  <1>3. /\ right \in Seq(S) /\ Len(right) = Len(s) - m
        /\ \A i \in 1..(Len(s) - m) : right[i] = s[m + i]
    BY <1>1, SubSeqProperties
  <1>4. /\ w \in Seq(S) /\ Len(w) = Len(s) - 1
        /\ \A i \in 1..(Len(s) - 1) : w[i] = IF i <= m - 1 THEN left[i] ELSE right[i - (m - 1)]
    <2>1. w = left \o right
      BY DEF Without
    <2>2. Len(left) + Len(right) = Len(s) - 1
      BY <1>1, <1>2, <1>3
    <2> HIDE DEF w, left, right
    <2>3. /\ left \o right \in Seq(S) /\ Len(left \o right) = Len(left) + Len(right)
          /\ \A i \in 1..Len(left) + Len(right) :
                (left \o right)[i] = IF i <= Len(left) THEN left[i] ELSE right[i - Len(left)]
      BY <1>2, <1>3, ConcatProperties
    <2>4. QED
      BY <1>2, <2>1, <2>2, <2>3
  <1>5. DOMAIN w = 1..(Len(s) - 1)
    BY <1>4, LenProperties
  <1> HIDE DEF w, left, right
  <1>6. ASSUME NEW i \in DOMAIN w
        PROVE  w[i] = s[at(i)] /\ at(i) \in DOMAIN s /\ at(i) # m
    <2>1. CASE i <= m - 1
      <3>1. i \in 1..(m - 1) /\ i \in 1..(Len(s) - 1)
        BY <1>1, <1>5, <2>1
      <3>2. QED
        BY <1>1, <1>2, <1>4, <2>1, <3>1
    <2>2. CASE ~(i <= m - 1)
      <3>1. i - (m - 1) \in 1..(Len(s) - m) /\ i \in 1..(Len(s) - 1) /\ m + (i - (m - 1)) = i + 1
        BY <1>1, <1>5, <2>2
      <3>2. w[i] = right[i - (m - 1)]
        BY <1>4, <2>2, <3>1
      <3>3. right[i - (m - 1)] = s[i + 1]
        BY <1>3, <3>1
      <3>4. i + 1 \in DOMAIN s /\ i + 1 # m /\ at(i) = i + 1
        BY <1>1, <1>5, <2>2
      <3>5. QED
        BY <3>2, <3>3, <3>4
    <2>3. QED
      BY <2>1, <2>2
  <1>7. \A i, j \in DOMAIN w : at(i) = at(j) => i = j
    BY <1>1, <1>5
  <1> HIDE DEF at
  <1>8. Unrepeated(w)
    BY <1>6, <1>7 DEF Unrepeated
  <1>b. ASSUME NEW i \in DOMAIN s, i # m
        PROVE  \E l \in DOMAIN w : at(l) = i
    <2>1. CASE i < m
      <3>1. i \in DOMAIN w /\ i <= m - 1
        BY <1>1, <1>5, <2>1
      <3> QED
        BY <3>1 DEF at
    <2>2. CASE i > m
      <3>1. i - 1 \in DOMAIN w /\ ~(i - 1 <= m - 1) /\ (i - 1) + 1 = i
        BY <1>1, <1>5, <2>2
      <3> QED
        BY <3>1 DEF at
    <2> QED
      BY <1>1, <1>b, <2>1, <2>2
  <1>9. Elements(w) = Elements(s) \ {s[m]}
    <2>1. Elements(w) \subseteq Elements(s) \ {s[m]}
      BY <1>6 DEF Elements, Unrepeated
    <2>2. ASSUME NEW i \in DOMAIN s, s[i] # s[m]
          PROVE  s[i] \in Elements(w)
      <3>1. PICK l \in DOMAIN w : at(l) = i
        BY <1>b, <2>2
      <3> QED
        BY <1>6, <3>1 DEF Elements
    <2> QED
      BY <2>1, <2>2 DEF Elements
  <1>10. QED
    BY <1>4, <1>8, <1>9 DEF w
-----------------------------------------------------------------------------
LEMMA SignaturesType ==
    ASSUME CheckType
    PROVE  /\ Signatures \in Seq(Keys) /\ Len(Signatures) \in Nat
           /\ DOMAIN Signatures = 1..Len(Signatures)
           /\ own = Unsigned => Signatures = notes
           /\ own # Unsigned => Signatures = <<own>> \o notes
  <1>1. CASE own = Unsigned
    <2>1. Signatures = notes
      BY <1>1, ConcatEmptySeq DEF Signatures, CheckType
    <2>2. QED
      BY <1>1, <2>1, LenProperties DEF CheckType
  <1>2. CASE own # Unsigned
    <2>1. Signatures = <<own>> \o notes /\ <<own>> \in Seq(Keys)
      BY <1>2 DEF Signatures, CheckType
    <2>2. Signatures \in Seq(Keys)
      BY <2>1, ConcatProperties DEF CheckType
    <2>3. QED
      BY <1>2, <2>1, <2>2, LenProperties
  <1>3. QED
    BY <1>1, <1>2

LEMMA AheadType ==
    ASSUME CheckType, Counting
    PROVE  /\ Ahead \in Seq(Keys) /\ Len(Ahead) \in Nat
           /\ Passed \in Int /\ Passed + Len(Ahead) = Len(Signatures)
  <1>1. todo \o notes \in Seq(Keys)
    BY ConcatProperties DEF CheckType
  <1>2. Ahead \in Seq(Keys)
    BY <1>1, SignaturesType DEF Ahead, CheckType
  <1>3. Len(Ahead) \in Nat /\ Len(Signatures) \in Nat
    BY <1>2, SignaturesType, LenProperties
  <1>4. QED
    BY <1>2, <1>3 DEF Passed

\* What the next signature is, and what is left behind it.
LEMMA NextAhead ==
    ASSUME CheckType, ListInv, Checking
    PROVE  /\ Len(Ahead) > 0 /\ Passed + 1 \in DOMAIN Signatures
           /\ Signatures[Passed + 1] = Head(todo)
           /\ Tail(Ahead) = IF pc = "own" THEN Tail(todo) \o notes ELSE Tail(todo)
  <1>1. Counting /\ todo \in Seq(Keys) /\ notes \in Seq(Keys) /\ todo # <<>>
    BY DEF Checking, Counting, CheckType
  <1>2. /\ Len(todo) \in Nat \ {0} /\ Len(notes) \in Nat /\ Head(todo) = todo[1]
        /\ Tail(todo) \in Seq(Keys) /\ Len(Tail(todo)) = Len(todo) - 1
        /\ \A i \in 1..Len(Tail(todo)) : Tail(todo)[i] = todo[i + 1]
    BY <1>1, HeadTailProperties, EmptySeq, LenProperties
  <1>3. CASE pc = "own"
    <2>1. Ahead = todo \o notes
      BY <1>3 DEF Ahead
    <2>2. /\ Ahead \in Seq(Keys) /\ Len(Ahead) = Len(todo) + Len(notes)
          /\ \A i \in 1..Len(todo) + Len(notes) :
                Ahead[i] = IF i <= Len(todo) THEN todo[i] ELSE notes[i - Len(todo)]
      BY <1>1, <2>1, ConcatProperties
    <2>3. Len(Ahead) > 0 /\ Ahead[1] = Head(todo) /\ Ahead # <<>>
      BY <1>2, <2>2
    <2>4. /\ Tail(Ahead) \in Seq(Keys) /\ Len(Tail(Ahead)) = Len(Ahead) - 1
          /\ \A i \in 1..Len(Tail(Ahead)) : Tail(Ahead)[i] = Ahead[i + 1]
      BY <2>2, <2>3, HeadTailProperties
    <2> DEFINE rest == Tail(todo) \o notes
    <2>5. /\ rest \in Seq(Keys) /\ Len(rest) = Len(Tail(todo)) + Len(notes)
          /\ \A i \in 1..Len(Tail(todo)) + Len(notes) :
                rest[i] = IF i <= Len(Tail(todo)) THEN Tail(todo)[i]
                          ELSE notes[i - Len(Tail(todo))]
      BY <1>1, <1>2, ConcatProperties
    <2> HIDE DEF rest
    <2>6. Len(rest) = Len(Tail(Ahead))
      BY <1>2, <2>2, <2>4, <2>5
    <2>7. ASSUME NEW i \in 1..Len(Tail(Ahead))
          PROVE  Tail(Ahead)[i] = rest[i]
      <3>1. /\ i \in Nat \ {0} /\ i + 1 \in 1..Len(todo) + Len(notes)
            /\ i \in 1..Len(Tail(todo)) + Len(notes)
        BY <1>2, <2>2, <2>4
      <3>2. CASE i <= Len(Tail(todo))
        <4>1. i \in 1..Len(Tail(todo)) /\ i + 1 <= Len(todo)
          BY <1>2, <3>1, <3>2
        <4>2. Tail(Ahead)[i] = todo[i + 1] /\ rest[i] = Tail(todo)[i]
          BY <2>2, <2>4, <2>5, <2>7, <3>1, <3>2, <4>1
        <4>3. QED
          BY <1>2, <4>1, <4>2
      <3>3. CASE ~(i <= Len(Tail(todo)))
        <4>1. ~(i + 1 <= Len(todo)) /\ i + 1 - Len(todo) = i - Len(Tail(todo))
          BY <1>2, <3>1, <3>3
        <4>2. Tail(Ahead)[i] = notes[i + 1 - Len(todo)] /\ rest[i] = notes[i - Len(Tail(todo))]
          BY <2>2, <2>4, <2>5, <2>7, <3>1, <3>3, <4>1
        <4>3. QED
          BY <4>1, <4>2
      <3>4. QED
        BY <3>2, <3>3
    <2>8. Tail(Ahead) = rest
      BY <2>4, <2>5, <2>6, <2>7, SeqEqual
    <2>9. QED
      BY <1>1, <1>3, <2>3, <2>8, AheadType, SignaturesType DEF ListInv, rest
  <1>4. CASE pc = "notes"
    <2>1. Ahead = todo
      BY <1>4 DEF Ahead
    <2>2. QED
      BY <1>1, <1>2, <1>4, <2>1, AheadType, SignaturesType DEF ListInv
  <1>5. QED
    BY <1>3, <1>4 DEF Checking
-----------------------------------------------------------------------------
\* A step that neither counts nor passes a signature leaves lists and record alone.
LEMMA NothingPassed ==
    ASSUME CheckInv, Counting, UNCHANGED <<inputs, pgpKeys, missing>>, Ahead' = Ahead
    PROVE  ListInv' /\ RecordInv'
  <1>1. UNCHANGED <<own, notes, required, entries>> /\ Signatures' = Signatures /\ Passed' = Passed
    BY DEF inputs, keysVars, Signatures, Passed
  <1>2. ListInv'
    BY <1>1 DEF CheckInv, ListInv, Unrepeated
  <1>3. RecordInv'
    BY <1>1 DEF CheckInv, RecordInv, Record, Elements
  <1>4. QED
    BY <1>2, <1>3

\* A signature that is passed is behind; the record may grow or stay.
LEMMA OnePassed ==
    ASSUME CheckInv, Checking, UNCHANGED inputs, UNCHANGED pc, todo' = Tail(todo)
    PROVE  /\ Passed' = Passed + 1
           /\ Len(Ahead') <= Len(Signatures')
           /\ \A i \in 1..Len(Ahead') : Ahead'[i] = Signatures'[Passed' + i]
  <1>1. UNCHANGED <<own, notes>> /\ Signatures' = Signatures
    BY DEF inputs, Signatures
  <1>2. /\ Ahead \in Seq(Keys) /\ Ahead # <<>> /\ Len(Ahead) \in Nat \ {0}
        /\ Passed \in Int /\ Passed + Len(Ahead) = Len(Signatures)
        /\ Len(Ahead) <= Len(Signatures)
        /\ \A i \in 1..Len(Ahead) : Ahead[i] = Signatures[Passed + i]
    BY AheadType, NextAhead DEF CheckInv, ListInv, Checking, Counting
  <1>3. Ahead' = Tail(Ahead)
    BY <1>1, NextAhead DEF CheckInv, Checking, Ahead
  <1>4. /\ Len(Tail(Ahead)) = Len(Ahead) - 1
        /\ \A i \in 1..Len(Tail(Ahead)) : Tail(Ahead)[i] = Ahead[i + 1]
    BY <1>2, HeadTailProperties
  <1>5. Passed' = Len(Signatures) - Len(Tail(Ahead)) /\ Len(Signatures) \in Nat
    BY <1>1, <1>3, SignaturesType DEF CheckInv, Passed
  <1>6. Passed' = Passed + 1 /\ Len(Ahead') <= Len(Signatures')
    BY <1>1, <1>2, <1>3, <1>4, <1>5
  <1>7. ASSUME NEW i \in 1..Len(Ahead')
        PROVE  Ahead'[i] = Signatures'[Passed' + i]
    <2>1. i + 1 \in 1..Len(Ahead) /\ Passed + (i + 1) = Passed' + i /\ i \in 1..Len(Tail(Ahead))
      BY <1>2, <1>3, <1>4, <1>6
    <2>2. QED
      BY <1>1, <1>2, <1>3, <1>4, <2>1
  <1>8. QED
    BY <1>6, <1>7

LEMMA PassKeepsRecord ==
    ASSUME CheckInv, Pass
    PROVE  ListInv' /\ RecordInv'
  <1>1. /\ Checking /\ UNCHANGED inputs /\ UNCHANGED pc /\ todo' = Tail(todo)
        /\ UNCHANGED <<pgpKeys, missing, own, notes, required, entries>> /\ Counting
        /\ Signatures' = Signatures
    BY DEF Pass, inputs, keysVars, Checking, Counting, Signatures
  <1>2. ListInv'
    BY <1>1, OnePassed DEF CheckInv, ListInv, Unrepeated
  <1>3. PICK S \in SUBSET DOMAIN Signatures : \E by \in [S -> DOMAIN entries] : Record(S, by)
    BY <1>1 DEF CheckInv, RecordInv
  <1>4. PICK by \in [S -> DOMAIN entries] : Record(S, by)
    BY <1>3
  <1>5. S \subseteq 1..Passed'
    BY <1>1, <1>4, OnePassed, AheadType DEF CheckInv, Record
  <1>6. Record(S, by)'
    BY <1>1, <1>4, <1>5 DEF Record, Elements
  <1>7. QED
    BY <1>1, <1>2, <1>6 DEF RecordInv

\* The record with the next signature, counted for entry j.
LEMMA RecordGrows ==
    ASSUME CheckInv, Checking, NEW j \in DOMAIN entries, j \in Elements(pgpKeys),
           Head(todo) \in entries[j],
           NEW S \in SUBSET DOMAIN Signatures, NEW by \in [S -> DOMAIN entries], Record(S, by)
    PROVE  \E T \in SUBSET DOMAIN Signatures : \E for \in [T -> DOMAIN entries] :
              /\ T \subseteq 1..(Passed + 1)
              /\ Cardinality(T) = required - (missing - 1)
              /\ \A i \in T : /\ Signatures[i] \in entries[for[i]]
                            /\ for[i] \notin Elements(pgpKeys) \ {j}
              /\ \A i, k \in T : for[i] = for[k] => i = k
  <1> DEFINE n == Passed + 1
             T == S \cup {n}
             for == [i \in T |-> IF i = n THEN j ELSE by[i]]
  <1>1. /\ n \in DOMAIN Signatures /\ Signatures[n] = Head(todo)
        /\ Passed \in Int /\ S \subseteq 1..Passed
    BY NextAhead, AheadType DEF CheckInv, Checking, Counting, Record
  <1>2. n \notin S /\ T \subseteq 1..n /\ n \in 1..n
    <2>1. n \in 1..Len(Signatures) /\ Len(Signatures) \in Nat
      BY <1>1, SignaturesType DEF CheckInv
    <2>2. QED
      BY <1>1, <2>1
  <1>3. IsFiniteSet(S)
    <2>1. IsFiniteSet(1..Passed)
      BY <1>1, FS_Interval
    <2>2. QED
      BY <1>1, <2>1, FS_Subset
  <1>4. Cardinality(T) = required - (missing - 1)
    <2>1. Cardinality(T) = Cardinality(S) + 1
      BY <1>2, <1>3, FS_AddElement
    <2>2. QED
      BY <2>1 DEF CheckInv, CheckType, Record
  <1>5. for \in [T -> DOMAIN entries] /\ T \in SUBSET DOMAIN Signatures
    BY <1>1
  <1>6. \A i \in S : for[i] = by[i]
    BY <1>2
  <1>7. for[n] = j
    OBVIOUS
  <1> HIDE DEF for, n
  <1>8. \A i \in T : Signatures[i] \in entries[for[i]] /\ for[i] \notin Elements(pgpKeys) \ {j}
    BY <1>1, <1>6, <1>7 DEF Record
  <1>9. \A i \in S : for[i] # j
    BY <1>6 DEF Record
  <1>10. \A i, k \in T : for[i] = for[k] => i = k
    BY <1>6, <1>7, <1>9 DEF Record
  <1>11. QED
    BY <1>2, <1>4, <1>5, <1>8, <1>10 DEF n

LEMMA CountKeepsRecord ==
    ASSUME CheckInv, Count
    PROVE  ListInv' /\ RecordInv' /\ EveryEntryCountsOnce'
  <1> DEFINE m == First(Matching)
  <1>1. /\ Checking /\ Counting /\ UNCHANGED inputs /\ todo' = Tail(todo)
        /\ UNCHANGED <<own, notes, required, entries>> /\ missing' = missing - 1
        /\ Signatures' = Signatures /\ Matching # {}
    BY DEF Count, inputs, keysVars, Checking, Counting, Signatures
  <1>2. pgpKeys \in Seq(DOMAIN entries) /\ Unrepeated(pgpKeys)
    BY <1>1 DEF CheckInv, ListInv
  <1>3. m \in DOMAIN pgpKeys /\ Head(todo) \in entries[pgpKeys[m]]
    <2>1. DOMAIN pgpKeys \subseteq Nat
      BY <1>2, LenProperties
    <2>2. First(Matching) \in Matching
      BY <1>1, <2>1, LeastElement DEF Matching
    <2>3. QED
      BY <2>2 DEF Matching
  <1> DEFINE j == pgpKeys[m]
  <1>4. j \in DOMAIN entries /\ j \in Elements(pgpKeys)
    BY <1>2, <1>3, LenProperties, ElementOfSeq DEF Elements
  <1>5. PICK S \in SUBSET DOMAIN Signatures : \E by \in [S -> DOMAIN entries] : Record(S, by)
    BY <1>1 DEF CheckInv, RecordInv
  <1>6. PICK by \in [S -> DOMAIN entries] : Record(S, by)
    BY <1>5
  <1>7. PICK T \in SUBSET DOMAIN Signatures : \E for \in [T -> DOMAIN entries] :
              /\ T \subseteq 1..(Passed + 1)
              /\ Cardinality(T) = required - (missing - 1)
              /\ \A i \in T : /\ Signatures[i] \in entries[for[i]]
                            /\ for[i] \notin Elements(pgpKeys) \ {j}
              /\ \A i, k \in T : for[i] = for[k] => i = k
    BY <1>1, <1>3, <1>4, <1>6, RecordGrows
  <1>8. PICK for \in [T -> DOMAIN entries] :
              /\ T \subseteq 1..(Passed + 1)
              /\ Cardinality(T) = required - (missing - 1)
              /\ \A i \in T : /\ Signatures[i] \in entries[for[i]]
                            /\ for[i] \notin Elements(pgpKeys) \ {j}
              /\ \A i, k \in T : for[i] = for[k] => i = k
    BY <1>7
  <1> HIDE DEF j
  <1>9. CASE missing' = 0
    <2>1. pc' = "accepted" /\ Cardinality(T) = required
      BY <1>1, <1>8, <1>9 DEF Count, CheckInv, CheckType
    <2>2. EveryEntryCountsOnce'
      BY <1>1, <1>8, <2>1 DEF EveryEntryCountsOnce
    <2>3. QED
      BY <2>1, <2>2 DEF ListInv, RecordInv, Counting
  <1>10. CASE missing' # 0
    <2>1. UNCHANGED pc /\ pgpKeys' = Without(pgpKeys, m)
      BY <1>10 DEF Count
    <2>2. /\ pgpKeys' \in Seq(DOMAIN entries) /\ Unrepeated(pgpKeys')
          /\ Elements(pgpKeys') \subseteq Elements(pgpKeys) \ {j}
      BY <1>2, <1>3, <2>1, WithoutRemoves DEF j
    <2>3. ListInv'
      BY <1>1, <2>1, <2>2, OnePassed DEF ListInv, Unrepeated
    <2>4. Passed' = Passed + 1
      BY <1>1, <2>1, OnePassed
    <2>5. Record(T, for)'
      BY <1>1, <1>8, <2>2, <2>4 DEF Record, Elements
    <2>6. pc' # "accepted"
      BY <1>1, <2>1 DEF Counting
    <2>7. QED
      BY <1>1, <2>3, <2>5, <2>6 DEF RecordInv, EveryEntryCountsOnce
  <1>11. QED
    BY <1>9, <1>10
-----------------------------------------------------------------------------
LEMMA InitCheck == Init => CheckInv
  <1> SUFFICES ASSUME Init PROVE CheckInv
    OBVIOUS
  <1>1. \A n \in DOMAIN store : store[n] \in Entries
    BY KeysAssumption DEF Init, KeysInit
  <1>2. CheckType
    BY <1>1, EmptySeq DEF Init, KeysInit, CheckType
  <1>3. QED
    BY <1>2 DEF Init, CheckInv, ListInv, RecordInv, EveryEntryCountsOnce, Counting

\* The entries are read, and change, only before the first commit is opened.
LEMMA KeysStepInv ==
    ASSUME CheckInv, Read \/ Operator \/ ReadFails, KeysStep
    PROVE  CheckInv'
  <1> USE DEF CheckInv, CheckType
  <1>1. pc = "keys" /\ pc' = "keys"
    BY DEF Read, List, Get, ReadAll, ReadFails, Operator, DeleteKey, CreateOrUpdate, Change, KeysStep
  <1>2. (\A n \in DOMAIN store : store[n] \in Entries)'
    <2>1. CASE Read \/ ReadFails
      BY <2>1 DEF Read, List, Get, ReadAll, ReadFails
    <2>2. ASSUME NEW n, DeleteKey(n)
          PROVE  (\A m \in DOMAIN store : store[m] \in Entries)'
      BY <2>2 DEF DeleteKey, Change
    <2>3. ASSUME NEW n, NEW k \in Keys, CreateOrUpdate(n, k)
          PROVE  (\A m \in DOMAIN store : store[m] \in Entries)'
      <3>1. {k} \in Entries
        BY DEF Entries
      <3>2. store' = [m \in DOMAIN store \cup {n} |-> IF m = n THEN {k} ELSE store[m]]
        BY <2>3 DEF CreateOrUpdate, Change
      <3>3. QED
        BY <3>1, <3>2
    <2>4. QED
      BY <2>1, <2>2, <2>3 DEF Operator
  <1>3. entries' \in Seq(Entries)
    <2>1. CASE Get
      <3>1. ASSUME NEW e \in Entries
            PROVE  Append(entries, e) \in Seq(Entries)
        BY AppendProperties
      <3>2. QED
        BY <2>1, <3>1 DEF Get
    <2>2. CASE List \/ ReadAll \/ ReadFails \/ Operator
      BY <2>2 DEF List, ReadAll, ReadFails, Operator, DeleteKey, CreateOrUpdate, Change
    <2>3. QED
      BY <2>1, <2>2 DEF Read
  <1>4. CheckType'
    BY <1>1, <1>2, <1>3 DEF KeysStep
  <1>5. QED
    BY <1>1, <1>4 DEF ListInv, RecordInv, EveryEntryCountsOnce, Counting

LEMMA OpenCommitInv ==
    ASSUME CheckInv, OpenCommit
    PROVE  CheckInv'
  <1>1. /\ notes' \in Seq(Keys) /\ own' \in Keys \cup {Unsigned} /\ pc' = "start"
        /\ UNCHANGED <<keysVars, required, missing, todo>> /\ reader = "read"
        /\ entries' = entries /\ missing' = required'
    BY SequencesOver DEF OpenCommit, Lists, CheckInv, CheckType, keysVars
  <1>2. CheckType'
    BY <1>1 DEF CheckInv, CheckType, keysVars
  <1>3. /\ pgpKeys' \in Seq(DOMAIN entries) /\ Unrepeated(pgpKeys')
    <2>1. Len(entries) \in Nat /\ DOMAIN entries = 1..Len(entries)
      BY LenProperties DEF CheckInv, CheckType
    <2>2. pgpKeys' \in [1..Len(entries) -> DOMAIN entries]
      BY <2>1 DEF OpenCommit
    <2>3. QED
      BY <2>1, <2>2, SequencesOver DEF OpenCommit, Unrepeated
  <1>4. Ahead' = Signatures' /\ Len(Signatures') \in Nat /\ Passed' = 0
    <2>1. Ahead' = Signatures'
      BY <1>1 DEF Ahead
    <2>2. Len(Signatures') \in Nat
      BY <1>2, SignaturesType
    <2>3. QED
      BY <2>1, <2>2 DEF Passed
  <1>5. ListInv'
    BY <1>1, <1>3, <1>4 DEF ListInv, Unrepeated
  <1>6. RecordInv'
    <2> DEFINE S == {}
               by == [i \in S |-> 0]
    <2>1. S \in SUBSET DOMAIN Signatures' /\ by \in [S -> DOMAIN entries']
      OBVIOUS
    <2>2. Cardinality(S) = required' - missing'
      BY <1>1, <1>2, FS_EmptySet DEF CheckType
    <2>3. Record(S, by)'
      BY <2>2 DEF Record
    <2>4. QED
      BY <2>1, <2>3 DEF RecordInv
  <1>7. QED
    BY <1>1, <1>2, <1>5, <1>6 DEF CheckInv, EveryEntryCountsOnce

LEMMA StepCheck == CheckInv /\ [Next]_vars => CheckInv'
  <1> SUFFICES ASSUME CheckInv, [Next]_vars PROVE CheckInv'
    OBVIOUS
  <1>1. CASE UNCHANGED vars
    <2>1. UNCHANGED <<pc, own, notes, required, entries, store, reader, missing, todo, pgpKeys>>
      BY <1>1 DEF vars, inputs, keysVars
    <2>2. Signatures' = Signatures /\ Ahead' = Ahead
      BY <2>1 DEF Signatures, Ahead
    <2>3. Passed' = Passed /\ (Counting' <=> Counting)
      BY <2>1, <2>2 DEF Passed, Counting
    <2>4. CheckType' /\ ListInv' /\ EveryEntryCountsOnce'
      BY <2>1, <2>2, <2>3
         DEF CheckInv, CheckType, ListInv, Unrepeated, EveryEntryCountsOnce
    <2>5. RecordInv'
      BY <2>1, <2>2, <2>3 DEF CheckInv, RecordInv, Record, Elements
    <2>6. QED
      BY <2>4, <2>5 DEF CheckInv
  <1>2. CASE ReadKeys \/ ((Operator \/ ReadFails) /\ KeysStep)
    BY <1>2, KeysStepInv DEF ReadKeys
  <1>3. CASE OpenCommit
    BY <1>3, OpenCommitInv
  <1>4. CASE NothingRequired
    <2>1. CheckType'
      BY <1>4 DEF NothingRequired, inputs, keysVars, CheckInv, CheckType
    <2>2. PICK S \in SUBSET DOMAIN Signatures : \E by \in [S -> DOMAIN entries] : Record(S, by)
      BY <1>4 DEF NothingRequired, CheckInv, RecordInv, Counting
    <2>3. Cardinality(S) = required
      BY <1>4, <2>2 DEF NothingRequired, Record, CheckInv, CheckType
    <2>4. EveryEntryCountsOnce'
      BY <1>4, <2>2, <2>3
         DEF NothingRequired, Record, EveryEntryCountsOnce, inputs, keysVars, Signatures
    <2>5. QED
      BY <1>4, <2>1, <2>4 DEF NothingRequired, CheckInv, ListInv, RecordInv, Counting
  <1>5. CASE StartOwn
    <2>a. /\ UNCHANGED <<own, notes, required, entries, store, reader, missing>>
          /\ pc = "start" /\ pc' \in {"read", "own"}
      BY <1>5 DEF StartOwn, inputs, keysVars
    <2>b. todo' \in Seq(Keys)
      <3>1. CASE own = Unsigned
        BY <1>5, <3>1 DEF StartOwn, CheckInv, CheckType
      <3>2. CASE own # Unsigned
        <4>1. own \in Keys
          BY <3>2 DEF CheckInv, CheckType
        <4>2. <<own>> \in Seq(Keys)
          BY <4>1
        <4>3. QED
          BY <1>5, <3>2, <4>2 DEF StartOwn
      <3>3. QED
        BY <3>1, <3>2
    <2>1. CheckType' /\ Counting /\ pc' # "accepted"
      BY <2>a, <2>b DEF CheckInv, CheckType, Counting
    <2>2. Ahead' = Ahead
      BY <1>5, SignaturesType DEF StartOwn, inputs, CheckInv, CheckType, Ahead
    <2>3. QED
      BY <1>5, <2>1, <2>2, NothingPassed DEF StartOwn, CheckInv, EveryEntryCountsOnce
  <1>6. CASE Count
    <2>1. CheckType'
      BY <1>6, HeadTailProperties
         DEF Count, Checking, inputs, keysVars, CheckInv, CheckType
    <2>2. QED
      BY <1>6, <2>1, CountKeepsRecord DEF CheckInv
  <1>7. CASE Pass
    <2>1. CheckType' /\ pc' # "accepted"
      BY <1>7, HeadTailProperties
         DEF Pass, Checking, inputs, keysVars, CheckInv, CheckType
    <2>2. QED
      BY <1>7, <2>1, PassKeepsRecord DEF CheckInv, EveryEntryCountsOnce
  <1>8. CASE OwnChecked
    <2>1. CheckType' /\ Counting /\ pc' # "accepted"
      BY <1>8 DEF OwnChecked, inputs, keysVars, CheckInv, CheckType, Counting
    <2>2. Ahead' = Ahead
      BY <1>8, ConcatEmptySeq DEF OwnChecked, inputs, CheckInv, CheckType, Ahead
    <2>3. QED
      BY <1>8, <2>1, <2>2, NothingPassed DEF OwnChecked, CheckInv, EveryEntryCountsOnce
  <1>9. CASE ReadNotes
    <2>1. CheckType' /\ Counting /\ pc' # "accepted"
      BY <1>9 DEF ReadNotes, inputs, keysVars, CheckInv, CheckType, Counting
    <2>2. CASE pc' = "notes"
      <3>1. Ahead' = Ahead
        BY <1>9, <2>2 DEF ReadNotes, inputs, Ahead
      <3>2. QED
        BY <1>9, <2>1, <3>1, NothingPassed DEF ReadNotes, CheckInv, EveryEntryCountsOnce
    <2>3. CASE pc' = "rejected"
      BY <2>1, <2>3 DEF CheckInv, ListInv, RecordInv, EveryEntryCountsOnce, Counting
    <2>4. QED
      BY <1>9, <2>2, <2>3 DEF ReadNotes
  <1>10. CASE NotEnough \/ Fail
    <2>1. CheckType' /\ pc' \in {"rejected", "failed"}
      BY <1>10 DEF NotEnough, Fail, inputs, keysVars, CheckInv, CheckType
    <2>2. QED
      BY <2>1 DEF CheckInv, ListInv, RecordInv, EveryEntryCountsOnce, Counting
  <1>11. QED
    BY <1>1, <1>2, <1>3, <1>4, <1>5, <1>6, <1>7, <1>8, <1>9, <1>10 DEF Next, Verify

\* The inductive invariant of the check: there is a record of what was counted.
THEOREM CheckInvariance == Spec => []CheckInv
  BY InitCheck, StepCheck, PTL DEF Spec

\* A commit is accepted only if as many of its signatures as are required verify with
\* as many different trusted entries (pkg/pgp/util.go:44, pkg/git/signatures.go:70).
THEOREM EntriesCountOnce == Spec => []EveryEntryCountsOnce
  <1>1. CheckInv => EveryEntryCountsOnce
    BY DEF CheckInv
  <1>2. QED
    BY <1>1, CheckInvariance, PTL
-----------------------------------------------------------------------------
\* What is read of the keys while at most one of them changes.

\* Two stores that differ at one name at most.
AlikeBut(n, s, t) ==
    \A m \in KeyNames \ {n} : (m \in DOMAIN s <=> m \in DOMAIN t) /\ (m \in DOMAIN s => s[m] = t[m])

\* What has been read is what one of the stores has under the first of the names.
ReadFrom(listed, st) ==
    \A i \in DOMAIN entries : listed[i] \in DOMAIN st /\ entries[i] = st[listed[i]]

\* The names are those of the first store; the ones that are left are still to be read.
Listing(first, listed) ==
    /\ Unrepeated(listed) /\ Elements(listed) = DOMAIN first
    /\ Len(listed) = Len(entries) + Len(names)
    /\ \A i \in DOMAIN names : names[i] = listed[Len(entries) + i]
    /\ \E st \in moments : ReadFrom(listed, st)
    /\ reader = "read" => names = <<>>

ReadType ==
    /\ reader \in {"list", "get", "read", "crashed", "failed"}
    /\ changes \in {0, 1} /\ names \in Seq(KeyNames) /\ entries \in Seq(Entries)
    /\ DOMAIN store \subseteq KeyNames

OneChange(first) ==
    /\ DOMAIN first \subseteq KeyNames
    /\ moments = {first, store}
    /\ changes = 1 \/ reader = "list" => store = first
    /\ \E n \in Nat : AlikeBut(n, first, store)

ReadInv ==
    /\ ReadType
    /\ reader = "list" => entries = <<>>
    /\ \E first \in moments :
          /\ OneChange(first)
          /\ reader \in {"get", "read"} => \E listed \in Seq(KeyNames) : Listing(first, listed)

\* A listing has every name once.
LEMMA SortedListing ==
    ASSUME NEW S, S \subseteq KeyNames, NEW s \in Sorted(S)
    PROVE  s \in Seq(KeyNames) /\ Unrepeated(s) /\ Elements(s) = S
  <1> DEFINE n == Cardinality(S)
  <1>1. IsFiniteSet(KeyNames)
    BY KeysAssumption, FS_Interval DEF KeyNames
  <1>2. IsFiniteSet(S) /\ n \in Nat
    BY <1>1, FS_Subset, FS_CardinalityType
  <1>3. s \in [1..n -> S] /\ \A i, j \in DOMAIN s : i < j => s[i] < s[j]
    BY DEF Sorted
  <1> HIDE DEF n
  <1>4. \A i \in 1..n : s[i] \in Nat
    BY <1>3, KeysAssumption DEF KeyNames
  <1>5. Unrepeated(s)
    <2> SUFFICES ASSUME NEW i \in 1..n, NEW j \in 1..n, s[i] = s[j] PROVE i = j
      BY <1>3 DEF Unrepeated
    <2>1. ~(i < j) /\ ~(j < i)
      BY <1>3, <1>4
    <2> QED
      BY <1>2, <2>1
  <1>6. s \in Injection(1..n, S)
    BY <1>3, <1>5 DEF Injection, IsInjective, Unrepeated
  <1>7. Cardinality(1..n) = n
    BY <1>2, FS_Interval
  <1>8. s \in Surjection(1..n, S)
    BY <1>2, <1>6, <1>7, FS_Injection DEF n
  <1>9. Elements(s) = S
    BY <1>3, <1>8 DEF Surjection, Elements
  <1>10. s \in Seq(KeyNames)
    BY <1>2, <1>3, SequencesOver
  <1> QED
    BY <1>5, <1>9, <1>10

LEMMA InitRead ==
    ASSUME \A s \in Stores : s.maxChanges <= 1, Init
    PROVE  ReadInv
  <1>1. PICK s \in Stores : store = s.store /\ changes = s.maxChanges
    BY DEF Init, KeysInit
  <1>2. changes \in {0, 1} /\ DOMAIN store \subseteq KeyNames
    <2>1. changes \in Nat /\ changes <= 1
      BY <1>1, KeysAssumption
    <2> QED
      BY <1>1, <2>1, KeysAssumption
  <1>3. ReadType
    BY <1>2, EmptySeq DEF Init, KeysInit, ReadType
  <1>4. OneChange(store)
    BY <1>2 DEF Init, KeysInit, OneChange, AlikeBut
  <1> QED
    BY <1>3, <1>4 DEF Init, KeysInit, ReadInv

LEMMA ListRead ==
    ASSUME ReadInv, List
    PROVE  ReadInv'
  <1>1. PICK first \in moments : OneChange(first)
    BY DEF ReadInv
  <1>2. /\ reader = "list" /\ reader' = "get" /\ names' \in Sorted(DOMAIN store)
        /\ UNCHANGED <<store, changes, entries, moments>> /\ entries = <<>> /\ store = first
    BY <1>1 DEF List, ReadInv, OneChange
  <1>3. names' \in Seq(KeyNames) /\ Unrepeated(names') /\ Elements(names') = DOMAIN first
    BY <1>2, SortedListing DEF ReadInv, ReadType
  <1>4. ReadType'
    BY <1>2, <1>3 DEF ReadInv, ReadType
  <1>5. OneChange(first)'
    BY <1>1, <1>2 DEF OneChange
  <1>6. PICK listed : listed = names'
    OBVIOUS
  <1>7. Listing(first, listed)'
    <2>1. Len(names') \in Nat /\ Len(entries') = 0 /\ DOMAIN names' = 1..Len(names')
      BY <1>2, <1>3, LenProperties, EmptySeq
    <2>2. ReadFrom(listed, first)'
      BY <1>2 DEF ReadFrom
    <2>3. first \in moments'
      BY <1>2
    <2> QED
      BY <1>2, <1>3, <1>6, <2>1, <2>2, <2>3 DEF Listing, Unrepeated, Elements
  <1> QED
    BY <1>2, <1>3, <1>4, <1>5, <1>6, <1>7 DEF ReadInv

\* What comes next agrees with all stores there have been, or nothing before it is
\* at the name that has changed.
LEMMA GetRead ==
    ASSUME ReadInv, CheckType, Get
    PROVE  ReadInv'
  <1> DEFINE m == Head(names)
             k == Len(entries)
  <1>1. PICK first \in moments :
            OneChange(first) /\ \E listed \in Seq(KeyNames) : Listing(first, listed)
    BY DEF ReadInv, Get
  <1>2. PICK listed \in Seq(KeyNames) : Listing(first, listed)
    BY <1>1
  <1>3. /\ reader = "get" /\ names # <<>> /\ names' = Tail(names)
        /\ UNCHANGED <<store, changes, moments>>
    BY DEF Get
  <1>4. /\ Len(names) \in Nat \ {0} /\ DOMAIN names = 1..Len(names) /\ m = names[1]
        /\ names' \in Seq(KeyNames) /\ Len(names') = Len(names) - 1
        /\ \A i \in 1..Len(names') : names'[i] = names[i + 1]
        /\ DOMAIN names' = 1..Len(names')
    BY <1>3, HeadTailProperties, EmptySeq, LenProperties DEF ReadInv, ReadType
  <1>5. k \in Nat /\ DOMAIN entries = 1..k
    BY LenProperties DEF ReadInv, ReadType
  <1>6. /\ Len(listed) = k + Len(names) /\ DOMAIN listed = 1..Len(listed)
        /\ listed[k + 1] = m /\ k + 1 \in DOMAIN listed /\ m \in KeyNames
    <2>1. Len(listed) = k + Len(names) /\ DOMAIN listed = 1..Len(listed)
      BY <1>2, LenProperties DEF Listing
    <2>2. k + 1 \in DOMAIN listed /\ 1 \in DOMAIN names
      BY <1>4, <1>5, <2>1
    <2>3. names[1] = listed[k + 1]
      BY <1>2, <2>2 DEF Listing
    <2>4. listed[k + 1] \in KeyNames
      BY <2>1, <2>2, ElementOfSeq
    <2> QED
      BY <1>4, <2>1, <2>2, <2>3, <2>4
  <1> HIDE DEF m, k
  <1>7. OneChange(first)'
    <2>1. reader' # "list"
      BY <1>3 DEF Get
    <2> QED
      BY <1>1, <1>3, <2>1 DEF OneChange
  <1>8. CASE m \notin DOMAIN store
    <2>1. reader' = "crashed" /\ entries' = entries
      BY <1>8 DEF Get, m
    <2> QED
      BY <1>1, <1>3, <1>4, <1>7, <2>1 DEF ReadInv, ReadType
  <1>9. CASE m \in DOMAIN store
    <2>1. reader' = reader /\ entries' = Append(entries, store[m]) /\ store[m] \in Entries
      BY <1>9 DEF Get, m, CheckType
    <2>2. /\ entries' \in Seq(Entries) /\ Len(entries') = k + 1 /\ DOMAIN entries' = 1..(k + 1)
          /\ \A i \in 1..k : entries'[i] = entries[i]
          /\ entries'[k + 1] = store[m]
      BY <1>5, <2>1, AppendProperties, LenProperties DEF ReadInv, ReadType, k
    <2>3. ReadType'
      BY <1>3, <1>4, <2>1, <2>2 DEF ReadInv, ReadType
    <2>4. PICK st \in moments : ReadFrom(listed, st)
      BY <1>2 DEF Listing
    <2>5. PICK n \in Nat : AlikeBut(n, first, store)
      BY <1>1 DEF OneChange
    <2>6. \E su \in moments' : ReadFrom(listed, su)'
      <3>1. store \in moments /\ st \in {first, store}
        BY <1>1, <2>4 DEF OneChange
      <3>2. CASE m # n
        <4>1. m \in DOMAIN st /\ st[m] = store[m]
          BY <1>6, <1>9, <2>5, <3>1, <3>2 DEF AlikeBut
        <4>2. ASSUME NEW i \in 1..(k + 1)
              PROVE  listed[i] \in DOMAIN st /\ entries'[i] = st[listed[i]]
          BY <1>5, <1>6, <2>2, <2>4, <4>1 DEF ReadFrom
        <4> QED
          BY <1>3, <2>2, <4>2 DEF ReadFrom
      <3>3. CASE m = n
        <4>1. ASSUME NEW i \in 1..(k + 1)
              PROVE  listed[i] \in DOMAIN store /\ entries'[i] = store[listed[i]]
          <5>1. CASE i = k + 1
            BY <1>6, <1>9, <2>2, <5>1
          <5>2. CASE i # k + 1
            <6>1. i \in 1..k /\ i \in DOMAIN listed
              BY <1>4, <1>5, <1>6, <5>2
            <6>2. listed[i] # m /\ listed[i] \in KeyNames
              BY <1>2, <1>6, <5>2, <6>1, ElementOfSeq DEF Listing, Unrepeated
            <6>3. listed[i] \in DOMAIN st /\ entries[i] = st[listed[i]]
              BY <1>5, <2>4, <6>1 DEF ReadFrom
            <6> QED
              BY <2>2, <2>5, <3>1, <3>3, <6>1, <6>2, <6>3 DEF AlikeBut
          <5> QED
            BY <5>1, <5>2
        <4> QED
          BY <1>3, <2>2, <3>1, <4>1 DEF ReadFrom
      <3> QED
        BY <3>2, <3>3
    <2>7. Len(listed) = Len(entries') + Len(names')
      BY <1>4, <1>5, <1>6, <2>2
    <2>8. ASSUME NEW i \in DOMAIN names'
          PROVE  names'[i] = listed[Len(entries') + i]
      <3>1. i \in 1..(Len(names) - 1) /\ i \in Nat
        BY <1>4
      <3>a. i + 1 \in DOMAIN names
        BY <1>4, <3>1
      <3>b. k + (i + 1) = Len(entries') + i
        BY <1>5, <2>2, <3>1
      <3>2. names[i + 1] = listed[k + (i + 1)]
        BY <1>2, <3>a DEF Listing, k
      <3> QED
        BY <1>4, <3>1, <3>b, <3>2
    <2>9. Listing(first, listed)'
      BY <1>2, <1>3, <2>1, <2>6, <2>7, <2>8 DEF Listing
    <2> QED
      BY <1>1, <1>3, <1>7, <2>1, <2>3, <2>9 DEF ReadInv
  <1> QED
    BY <1>8, <1>9

\* A change at one name after the listing.
LEMMA ChangeRead ==
    ASSUME ReadInv, NEW n \in KeyNames, NEW new, Change(new),
           DOMAIN new \subseteq KeyNames, AlikeBut(n, store, new)
    PROVE  ReadInv'
  <1>1. PICK first \in moments : OneChange(first)
                /\ (reader \in {"get", "read"} =>
                        \E listed \in Seq(KeyNames) : Listing(first, listed))
    BY DEF ReadInv
  <1>2. /\ reader = "get" /\ changes = 1 /\ changes' = 0 /\ store' = new
        /\ moments' = moments \cup {new} /\ UNCHANGED <<reader, names, entries>>
    BY DEF Change, ReadInv, ReadType
  <1>3. store = first /\ moments = {first} /\ first \in moments'
    BY <1>1, <1>2 DEF OneChange
  <1>4. OneChange(first)'
    <2>1. n \in Nat
      BY KeysAssumption DEF KeyNames
    <2> QED
      BY <1>1, <1>2, <1>3, <2>1 DEF OneChange, AlikeBut
  <1>5. PICK listed \in Seq(KeyNames) : Listing(first, listed)
    BY <1>1, <1>2
  <1>6. Listing(first, listed)'
    BY <1>2, <1>3, <1>5 DEF Listing, ReadFrom
  <1>7. ReadType'
    BY <1>2 DEF ReadInv, ReadType
  <1> QED
    BY <1>2, <1>3, <1>4, <1>6, <1>7 DEF ReadInv

LEMMA ReadStep ==
    ASSUME ReadInv, CheckType, [Next]_vars
    PROVE  ReadInv'
  <1>1. CASE List
    BY <1>1, ListRead
  <1>2. CASE Get
    BY <1>2, GetRead
  <1>3. CASE ReadAll
    <2>1. /\ reader = "get" /\ names = <<>> /\ reader' = "read"
          /\ UNCHANGED <<store, changes, names, entries, moments>>
      BY <1>3 DEF ReadAll
    <2>2. \A first, listed : Listing(first, listed) => Listing(first, listed)'
      BY <2>1 DEF Listing, ReadFrom
    <2>3. \A first : OneChange(first) => OneChange(first)'
      BY <2>1 DEF OneChange
    <2> QED
      BY <2>1, <2>2, <2>3 DEF ReadInv, ReadType
  <1>4. CASE ReadFails
    <2>1. /\ reader' = "failed"
          /\ UNCHANGED <<store, changes, names, entries, moments>>
      BY <1>4 DEF ReadFails
    <2>2. \A first : OneChange(first) => OneChange(first)'
      BY <2>1 DEF OneChange
    <2> QED
      BY <2>1, <2>2 DEF ReadInv, ReadType
  <1>5. CASE Operator
    <2>1. ASSUME NEW n \in KeyNames, DeleteKey(n)
          PROVE  ReadInv'
      <3>1. PICK new : new = [m \in DOMAIN store \ {n} |-> store[m]]
        OBVIOUS
      <3>2. AlikeBut(n, store, new) /\ DOMAIN new \subseteq KeyNames /\ Change(new)
        BY <2>1, <3>1 DEF DeleteKey, AlikeBut, ReadInv, ReadType
      <3> QED
        BY <3>2, ChangeRead
    <2>2. ASSUME NEW n \in KeyNames, NEW k \in Keys, CreateOrUpdate(n, k)
          PROVE  ReadInv'
      <3>1. PICK new : new = [m \in DOMAIN store \cup {n} |-> IF m = n THEN {k} ELSE store[m]]
        OBVIOUS
      <3>2. AlikeBut(n, store, new) /\ DOMAIN new \subseteq KeyNames /\ Change(new)
        BY <2>2, <3>1 DEF CreateOrUpdate, AlikeBut, ReadInv, ReadType
      <3> QED
        BY <3>2, ChangeRead
    <2> QED
      BY <1>5, <2>1, <2>2 DEF Operator
  <1>6. CASE UNCHANGED keysVars
    <2>1. UNCHANGED <<store, changes, reader, names, entries, moments>>
      BY <1>6 DEF keysVars
    <2>2. \A first, listed : Listing(first, listed) => Listing(first, listed)'
      BY <2>1 DEF Listing, ReadFrom
    <2>3. \A first : OneChange(first) => OneChange(first)'
      BY <2>1 DEF OneChange
    <2> QED
      BY <2>1, <2>2, <2>3 DEF ReadInv, ReadType
  <1>7. CASE Next /\ ~(ReadKeys \/ ((Operator \/ ReadFails) /\ KeysStep))
    BY <1>6, <1>7 DEF Next, Verify, OpenCommit, NothingRequired, StartOwn, Count, Pass, OwnChecked,
                      ReadNotes, NotEnough, Fail, inputs
  <1> QED
    BY <1>1, <1>2, <1>3, <1>4, <1>5, <1>6, <1>7 DEF ReadKeys, Read, vars, inputs

\* What has been read to its end are the entries of one of the stores, each once.
LEMMA ReadIsOneStore ==
    ASSUME ReadInv, reader = "read"
    PROVE  \E st \in moments :
              /\ Elements(entries) = {st[n] : n \in DOMAIN st}
              /\ OneKeyEach(st) =>
                    /\ Unrepeated(entries)
                    /\ \A i \in DOMAIN entries : \E k \in Keys : entries[i] = {k}
  <1>1. PICK first \in moments :
            OneChange(first) /\ \E listed \in Seq(KeyNames) : Listing(first, listed)
    BY DEF ReadInv
  <1>2. PICK listed \in Seq(KeyNames) : Listing(first, listed)
    BY <1>1
  <1>3. names = <<>> /\ Len(names) = 0 /\ Len(entries) \in Nat
    BY <1>2, EmptySeq, LenProperties DEF Listing, ReadInv, ReadType
  <1>4. DOMAIN listed = DOMAIN entries /\ Unrepeated(listed) /\ Elements(listed) = DOMAIN first
    BY <1>2, <1>3, LenProperties DEF Listing, ReadInv, ReadType
  <1>5. PICK n \in Nat : AlikeBut(n, first, store)
    BY <1>1 DEF OneChange
  <1>6. \E st \in moments : ReadFrom(listed, st) /\ DOMAIN st = DOMAIN first
    <2>1. PICK st \in moments : ReadFrom(listed, st)
      BY <1>2 DEF Listing
    <2>2. DOMAIN first \subseteq DOMAIN st
      BY <1>4, <2>1 DEF ReadFrom, Elements
    <2>3. CASE st = first
      BY <2>1, <2>3
    <2>4. CASE st = store /\ n \in DOMAIN first
      <3>1. DOMAIN st \subseteq DOMAIN first
        BY <1>5, <2>4 DEF AlikeBut, ReadInv, ReadType
      <3> QED
        BY <2>1, <2>2, <3>1
    <2>5. CASE st = store /\ n \notin DOMAIN first
      <3>1. ASSUME NEW i \in DOMAIN entries
            PROVE  listed[i] \in DOMAIN first /\ entries[i] = first[listed[i]]
        <4>1. listed[i] \in DOMAIN first /\ listed[i] \in KeyNames
          BY <1>1, <1>4 DEF Elements, OneChange
        <4> QED
          BY <1>5, <2>1, <2>5, <4>1 DEF ReadFrom, AlikeBut
      <3> QED
        BY <3>1 DEF ReadFrom
    <2> QED
      BY <1>1, <2>3, <2>4, <2>5, <2>1 DEF OneChange
  <1>7. PICK st \in moments : ReadFrom(listed, st) /\ DOMAIN st = DOMAIN first
    BY <1>6
  <1>8. Elements(entries) = {st[m] : m \in DOMAIN st}
    <2>1. ASSUME NEW i \in DOMAIN entries
          PROVE  entries[i] \in {st[m] : m \in DOMAIN st}
      BY <1>7 DEF ReadFrom
    <2>2. ASSUME NEW m \in DOMAIN st
          PROVE  st[m] \in Elements(entries)
      <3>1. PICK i \in DOMAIN listed : listed[i] = m
        BY <1>4, <1>7 DEF Elements
      <3> QED
        BY <1>4, <1>7, <3>1 DEF ReadFrom, Elements
    <2> QED
      BY <2>1, <2>2 DEF Elements
  <1>9. ASSUME OneKeyEach(st)
        PROVE  /\ Unrepeated(entries)
               /\ \A i \in DOMAIN entries : \E k \in Keys : entries[i] = {k}
    <2>1. Unrepeated(entries)
      BY <1>4, <1>7, <1>9 DEF OneKeyEach, ReadFrom, Unrepeated
    <2>2. \A i \in DOMAIN entries : \E k \in Keys : entries[i] = {k}
      BY <1>7, <1>9 DEF OneKeyEach, ReadFrom
    <2> QED
      BY <2>1, <2>2
  <1> QED
    BY <1>8, <1>9
-----------------------------------------------------------------------------
\* The countdown where every trusted key is stored once.

Trusted == UNION Elements(entries)
OneEach == \A st \in moments : OneKeyEach(st)

\* The trusted signers among the signatures that are behind.
Counted == {Signatures[i] : i \in 1..Passed} \cap Trusted

\* The number has gone down by those, and what is left of the list are the other keys.
Exact ==
    OneEach /\ Counting =>
        /\ missing = required - Cardinality(Counted)
        /\ required >= 0 => missing >= 0
        /\ pc # "start" => missing # 0
        /\ \A j \in DOMAIN entries : j \in Elements(pgpKeys) <=> entries[j] \cap Counted = {}

RuleInv == CheckInv /\ ReadInv /\ Exact /\ CheckFollowsRule

\* One trusted entry for each trusted key.
LEMMA OneEntryEach ==
    ASSUME CheckType, ReadInv, OneEach, pc # "keys"
    PROVE  /\ Unrepeated(entries)
           /\ \A i \in DOMAIN entries : \E k \in Keys : entries[i] = {k}
           /\ \E st \in moments : Trusted = UNION {st[n] : n \in DOMAIN st}
  <1>1. PICK st \in moments :
              /\ Elements(entries) = {st[n] : n \in DOMAIN st}
              /\ OneKeyEach(st) =>
                    /\ Unrepeated(entries)
                    /\ \A i \in DOMAIN entries : \E k \in Keys : entries[i] = {k}
    BY ReadIsOneStore DEF CheckType
  <1> QED
    BY <1>1 DEF OneEach, Trusted

LEMMA SignersAreFinite ==
    ASSUME CheckType
    PROVE  IsFiniteSet(Signers)
  <1>1. Signatures \in Seq(Keys) /\ Len(Signatures) \in Nat /\ DOMAIN Signatures = 1..Len(Signatures)
    BY SignaturesType
  <1> DEFINE n == Len(Signatures)
  <1>2. IsFiniteSet(1..n)
    BY <1>1, FS_Interval
  <1>3. Signatures \in [1..n -> Signers]
    <2>1. Signatures = [i \in 1..n |-> Signatures[i]]
      BY <1>1
    <2> QED
      BY <1>1, <2>1 DEF Signers
  <1>4. Signatures \in Surjection(1..n, Signers)
    BY <1>1, <1>3 DEF Surjection, Signers
  <1> QED
    BY <1>2, <1>4, FS_Surjection

LEMMA CountedIsFinite ==
    ASSUME CheckType, Counting, ListInv
    PROVE  /\ Counted \subseteq Signers \cap Trusted /\ IsFiniteSet(Counted)
           /\ Cardinality(Counted) \in Nat
  <1>1. Len(Signatures) \in Nat /\ DOMAIN Signatures = 1..Len(Signatures)
    BY SignaturesType
  <1>2. Passed \in Int /\ Len(Ahead) \in Nat /\ Passed + Len(Ahead) = Len(Signatures)
    BY AheadType
  <1>3. 1..Passed \subseteq DOMAIN Signatures
    BY <1>1, <1>2
  <1>4. Counted \subseteq Signers \cap Trusted
    BY <1>3 DEF Counted, Signers
  <1> QED
    BY <1>4, SignersAreFinite, FS_Subset, FS_CardinalityType

\* What the rule says of the keys of that one store.
LEMMA RuleIsMet ==
    ASSUME CheckType, ReadInv, pc # "keys", UNCHANGED <<moments, own, notes, required>>,
           pc' \in {"accepted", "rejected"},
           OneEach => (pc' = "accepted" <=> Verified(Signers, Trusted, required))
    PROVE  CheckFollowsRule'
  <1> SUFFICES ASSUME OneEach
               PROVE  /\ pc' = "accepted" => \E st \in moments : VerifiedBy(st)
                      /\ pc' = "rejected" => \E st \in moments : ~VerifiedBy(st)
    <2>1. OneEach' = OneEach /\ Signers' = Signers
      BY DEF OneEach, Signers, Signatures
    <2>2. \A st : VerifiedBy(st)' = VerifiedBy(st)
      BY <2>1 DEF VerifiedBy
    <2> QED
      BY <2>1, <2>2 DEF CheckFollowsRule, OneEach
  <1>1. PICK st \in moments : Trusted = UNION {st[n] : n \in DOMAIN st}
    BY OneEntryEach
  <1> QED
    BY <1>1 DEF VerifiedBy

\* A step that neither counts nor passes a signature leaves the count alone.
LEMMA NothingCounted ==
    ASSUME RuleInv, Counting, UNCHANGED <<inputs, pgpKeys, missing>>, Ahead' = Ahead,
           Counting', pc' = "start" \/ pc # "start" \/ missing # 0
    PROVE  Exact' /\ CheckFollowsRule'
  <1>1. UNCHANGED <<own, notes, required, entries, moments>> /\ Signatures' = Signatures
        /\ Passed' = Passed
    BY DEF inputs, keysVars, Signatures, Passed
  <1>2. OneEach' = OneEach /\ Trusted' = Trusted /\ Counted' = Counted
        /\ Elements(pgpKeys)' = Elements(pgpKeys)
    BY <1>1 DEF OneEach, Trusted, Counted, Elements
  <1>3. Exact'
    BY <1>1, <1>2 DEF RuleInv, Exact
  <1>4. CheckFollowsRule'
    BY DEF CheckFollowsRule, Counting
  <1> QED
    BY <1>3, <1>4

\* The next signature is behind.
LEMMA CountedGrows ==
    ASSUME RuleInv, Checking, UNCHANGED inputs, Passed' = Passed + 1
    PROVE  /\ Counted' = Counted \cup ({Head(todo)} \cap Trusted)
           /\ Trusted' = Trusted /\ OneEach' = OneEach /\ Signers' = Signers
           /\ Head(todo) \in Signers
  <1>1. UNCHANGED <<own, notes, required, entries, moments>> /\ Signatures' = Signatures
    BY DEF inputs, keysVars, Signatures
  <1>2. Trusted' = Trusted /\ OneEach' = OneEach /\ Signers' = Signers
    BY <1>1 DEF OneEach, Trusted, Elements, Signers
  <1>3. Passed + 1 \in DOMAIN Signatures /\ Signatures[Passed + 1] = Head(todo)
    BY NextAhead DEF RuleInv, CheckInv
  <1>4. Passed \in Int /\ Passed + 1 >= 1
    <2>1. Passed \in Int
      BY AheadType DEF RuleInv, CheckInv, Checking, Counting
    <2>2. Passed + 1 \in 1..Len(Signatures)
      BY <1>3, SignaturesType DEF RuleInv, CheckInv
    <2> QED
      BY <2>1, <2>2
  <1> HIDE DEF Passed
  <1>5. 1..(Passed + 1) = (1..Passed) \cup {Passed + 1}
    BY <1>4
  <1>6. {Signatures[i] : i \in 1..(Passed + 1)} = {Signatures[i] : i \in 1..Passed} \cup {Head(todo)}
    BY <1>3, <1>5
  <1>7. Counted' = {Signatures[i] : i \in 1..(Passed + 1)} \cap Trusted
    BY <1>1, <1>2 DEF Counted
  <1>8. Counted' = Counted \cup ({Head(todo)} \cap Trusted)
    BY <1>6, <1>7 DEF Counted
  <1>9. Head(todo) \in Signers
    BY <1>3 DEF Signers
  <1> QED
    BY <1>2, <1>8, <1>9

LEMMA CountStaysExact ==
    ASSUME RuleInv, Count, CheckInv'
    PROVE  Exact' /\ CheckFollowsRule'
  <1> DEFINE s == Head(todo)
             m == First(Matching)
  <1>1. /\ Checking /\ Counting /\ pc \in {"own", "notes"} /\ UNCHANGED inputs /\ todo' = Tail(todo)
        /\ UNCHANGED <<own, notes, required, entries, moments>> /\ missing' = missing - 1
        /\ Matching # {}
    BY DEF Count, inputs, keysVars, Checking, Counting
  <1>2. pgpKeys \in Seq(DOMAIN entries) /\ Unrepeated(pgpKeys)
    BY <1>1 DEF RuleInv, CheckInv, ListInv
  <1>3. m \in DOMAIN pgpKeys /\ s \in entries[pgpKeys[m]]
    <2>1. DOMAIN pgpKeys \subseteq Nat
      BY <1>2, LenProperties
    <2>2. First(Matching) \in Matching
      BY <1>1, <2>1, LeastElement DEF Matching
    <2> QED
      BY <2>2 DEF Matching
  <1> DEFINE j == pgpKeys[m]
  <1>4. j \in DOMAIN entries /\ j \in Elements(pgpKeys)
    BY <1>2, <1>3, LenProperties, ElementOfSeq DEF Elements
  <1>5. s \in Trusted
    BY <1>3, <1>4 DEF Trusted, Elements
  <1>6. required \in Int /\ missing \in Int
    BY DEF RuleInv, CheckInv, CheckType
  <1>7. /\ Counted \subseteq Signers \cap Trusted /\ IsFiniteSet(Counted)
        /\ Cardinality(Counted) \in Nat
    BY <1>1, CountedIsFinite DEF RuleInv, CheckInv
  <1> HIDE DEF s, j
  \* The signer has not been counted before.
  <1>8. ASSUME OneEach
        PROVE  /\ entries[j] = {s} /\ s \notin Counted
               /\ Cardinality(Counted \cup {s}) = required - missing'
    <2>1. entries[j] \cap Counted = {}
      BY <1>1, <1>4, <1>8 DEF RuleInv, Exact
    <2>2. \E k \in Keys : entries[j] = {k}
      BY <1>1, <1>4, <1>8, OneEntryEach DEF RuleInv, CheckInv
    <2>3. entries[j] = {s} /\ s \notin Counted
      BY <1>3, <2>1, <2>2 DEF j
    <2>4. Cardinality(Counted \cup {s}) = Cardinality(Counted) + 1
      BY <1>7, <2>3, FS_AddElement
    <2>5. missing = required - Cardinality(Counted)
      BY <1>1, <1>8 DEF RuleInv, Exact
    <2> QED
      BY <1>1, <1>6, <1>7, <2>3, <2>4, <2>5
  <1>9. CASE missing' = 0
    <2>1. pc' = "accepted" /\ ~Counting'
      BY <1>9 DEF Count, Counting
    <2>2. ASSUME OneEach
          PROVE  Verified(Signers, Trusted, required)
      <3>1. Cardinality(Counted \cup {s}) = required /\ required \in Nat
        <4>1. Cardinality(Counted \cup {s}) = required
          BY <1>6, <1>8, <1>9, <2>2
        <4>2. IsFiniteSet(Counted \cup {s})
          BY <1>7, FS_AddElement
        <4> QED
          BY <4>1, <4>2, FS_CardinalityType
      <3>2. s \in Signers
        BY <1>1, NextAhead DEF s, Signers, RuleInv, CheckInv
      <3>3. Counted \cup {s} \subseteq Signers \cap Trusted
        BY <1>5, <1>7, <3>2
      <3>4. IsFiniteSet(Signers \cap Trusted)
        BY SignersAreFinite, FS_Subset DEF RuleInv, CheckInv
      <3>5. Cardinality(Counted \cup {s}) <= Cardinality(Signers \cap Trusted)
        BY <3>3, <3>4, FS_Subset
      <3>6. Cardinality(Signers \cap Trusted) >= required /\ required >= 0
        BY <3>1, <3>4, <3>5, FS_CardinalityType
      <3> QED
        BY <3>6 DEF Verified
    <2>3. CheckFollowsRule'
      BY <1>1, <2>1, <2>2, RuleIsMet DEF RuleInv, CheckInv
    <2> QED
      BY <2>1, <2>3 DEF Exact
  <1>10. CASE missing' # 0
    <2>1. UNCHANGED pc /\ pgpKeys' = Without(pgpKeys, m) /\ Counting'
      BY <1>1, <1>10 DEF Count, Counting
    <2>2. Elements(pgpKeys') = Elements(pgpKeys) \ {j}
      BY <1>2, <1>3, <2>1, WithoutRemoves DEF j
    <2>3. Passed' = Passed + 1
      BY <1>1, <2>1, OnePassed DEF RuleInv
    <2>4. Counted' = Counted \cup {s} /\ OneEach' = OneEach
      BY <1>1, <1>5, <2>3, CountedGrows DEF s
    <2>5. ASSUME OneEach
          PROVE  /\ missing' = required' - Cardinality(Counted')
                 /\ required' >= 0 => missing' >= 0
                 /\ \A i \in DOMAIN entries' :
                       i \in Elements(pgpKeys') <=> entries'[i] \cap Counted' = {}
      <3>1. missing' = required' - Cardinality(Counted')
        <4>1. Cardinality(Counted') = required - missing'
          BY <1>8, <2>4, <2>5
        <4> QED
          BY <1>1, <1>6, <4>1
      <3>2. required' >= 0 => missing' >= 0
        <4>1. (required >= 0 => missing >= 0) /\ missing # 0
          BY <1>1, <2>5 DEF RuleInv, Exact
        <4> QED
          BY <1>1, <1>6, <4>1
      <3>3. ASSUME NEW i \in DOMAIN entries
            PROVE  i \in Elements(pgpKeys') <=> entries[i] \cap Counted' = {}
        <4>1. i \in Elements(pgpKeys) <=> entries[i] \cap Counted = {}
          BY <1>1, <2>5 DEF RuleInv, Exact
        <4>2. s \in entries[i] <=> i = j
          <5>1. Unrepeated(entries) /\ \E k \in Keys : entries[i] = {k}
            BY <1>1, <2>5, OneEntryEach DEF RuleInv, CheckInv
          <5> QED
            BY <1>4, <1>8, <2>5, <5>1 DEF Unrepeated
        <4>3. entries[i] \cap Counted' = {} <=> entries[i] \cap Counted = {} /\ s \notin entries[i]
          BY <2>4
        <4> QED
          BY <2>2, <4>1, <4>2, <4>3
      <3> QED
        BY <1>1, <3>1, <3>2, <3>3
    <2>6. Exact'
      BY <1>10, <2>4, <2>5 DEF Exact
    <2>7. CheckFollowsRule'
      BY <1>1, <2>1 DEF CheckFollowsRule
    <2> QED
      BY <2>6, <2>7
  <1> QED
    BY <1>9, <1>10

\* A signature that no entry knows is by a key that is not trusted or that has been
\* counted.
LEMMA PassStaysExact ==
    ASSUME RuleInv, Pass
    PROVE  Exact' /\ CheckFollowsRule'
  <1> DEFINE s == Head(todo)
  <1>1. /\ Checking /\ Counting /\ pc \in {"own", "notes"} /\ UNCHANGED inputs /\ todo' = Tail(todo)
        /\ UNCHANGED <<own, notes, required, entries, moments, missing, pgpKeys, pc>>
        /\ Matching = {} /\ Counting'
    BY DEF Pass, inputs, keysVars, Checking, Counting
  <1>2. Passed' = Passed + 1
    BY <1>1, OnePassed DEF RuleInv
  <1>3. Counted' = Counted \cup ({s} \cap Trusted) /\ OneEach' = OneEach
    BY <1>1, <1>2, CountedGrows
  <1>4. Elements(pgpKeys)' = Elements(pgpKeys)
    BY <1>1 DEF Elements
  <1>5. ASSUME OneEach, s \in Trusted
        PROVE  s \in Counted
    <2>1. PICK j \in DOMAIN entries : s \in entries[j]
      BY <1>5 DEF Trusted, Elements
    <2>2. entries[j] = {s}
      BY <1>1, <1>5, <2>1, OneEntryEach DEF RuleInv, CheckInv
    <2>3. j \notin Elements(pgpKeys)
      BY <1>1, <2>1 DEF Matching, Elements
    <2>4. entries[j] \cap Counted # {}
      BY <1>1, <1>5, <2>3 DEF RuleInv, Exact
    <2> QED
      BY <2>2, <2>4
  <1>6. OneEach => Counted' = Counted
    BY <1>3, <1>5
  <1>7. Exact'
    BY <1>1, <1>3, <1>4, <1>6 DEF RuleInv, Exact
  <1>8. CheckFollowsRule'
    BY <1>1 DEF CheckFollowsRule
  <1> QED
    BY <1>7, <1>8

\* A rejection comes when all signatures are behind.
LEMMA RejectionIsRight ==
    ASSUME RuleInv, pc \in {"read", "notes"}, Ahead = <<>>, UNCHANGED inputs, pc' = "rejected"
    PROVE  Exact' /\ CheckFollowsRule'
  <1>1. Counting /\ UNCHANGED <<own, notes, required, moments>> /\ pc # "keys"
    BY DEF Counting, inputs, keysVars
  <1>2. Passed = Len(Signatures) /\ DOMAIN Signatures = 1..Len(Signatures)
    <2>1. Len(Ahead) = 0
      BY EmptySeq
    <2>2. Len(Signatures) \in Nat /\ DOMAIN Signatures = 1..Len(Signatures)
      BY SignaturesType DEF RuleInv, CheckInv
    <2>3. Passed = Len(Signatures) - 0
      BY <2>1 DEF Passed
    <2> QED
      BY <2>2, <2>3
  <1>3. Counted = Signers \cap Trusted
    BY <1>2 DEF Counted, Signers
  <1>4. required \in Int /\ missing \in Int /\ Cardinality(Counted) \in Nat
    BY <1>1, CountedIsFinite DEF RuleInv, CheckInv, CheckType
  <1>5. ASSUME OneEach
        PROVE  ~Verified(Signers, Trusted, required)
    <2>1. /\ missing = required - Cardinality(Counted)
          /\ required >= 0 => missing >= 0
          /\ missing # 0
      BY <1>1, <1>5 DEF RuleInv, Exact
    <2>2. required >= 0 => ~(Cardinality(Counted) >= required)
      BY <1>4, <2>1
    <2>3. Cardinality(Signers \cap Trusted) = Cardinality(Counted)
      BY <1>3
    <2>4. Verified(Signers, Trusted, required)
              <=> required >= 0 /\ Cardinality(Signers \cap Trusted) >= required
      BY DEF Verified
    <2> QED
      BY <2>2, <2>3, <2>4
  <1>6. CheckFollowsRule'
    BY <1>1, <1>5, RuleIsMet DEF RuleInv, CheckInv
  <1> QED
    BY <1>6 DEF Exact, Counting

LEMMA InitRule ==
    ASSUME \A s \in Stores : s.maxChanges <= 1, Init
    PROVE  RuleInv
  <1>1. CheckInv /\ ReadInv
    BY InitCheck, InitRead
  <1> QED
    BY <1>1 DEF Init, RuleInv, Exact, CheckFollowsRule, Counting

LEMMA RuleStep == RuleInv /\ [Next]_vars => RuleInv'
  <1> SUFFICES ASSUME RuleInv, [Next]_vars PROVE Exact' /\ CheckFollowsRule'
    BY StepCheck, ReadStep DEF RuleInv, CheckInv
  <1>a. CheckInv'
    BY StepCheck DEF RuleInv
  <1>1. CASE UNCHANGED vars
    <2>1. UNCHANGED <<pc, own, notes, required, entries, moments, missing, todo, pgpKeys>>
      BY <1>1 DEF vars, inputs, keysVars
    <2>2. Signatures' = Signatures /\ Ahead' = Ahead /\ Counting' = Counting
      BY <2>1 DEF Signatures, Ahead, Counting
    <2>3. Passed' = Passed
      BY <2>2 DEF Passed
    <2>4. OneEach' = OneEach /\ Trusted' = Trusted /\ Counted' = Counted /\ Signers' = Signers
          /\ Elements(pgpKeys)' = Elements(pgpKeys)
      BY <2>1, <2>2, <2>3 DEF OneEach, Trusted, Counted, Elements, Signers
    <2>5. Exact'
      BY <2>1, <2>2, <2>4 DEF RuleInv, Exact
    <2>6. \A st : VerifiedBy(st)' = VerifiedBy(st)
      BY <2>1, <2>4 DEF VerifiedBy
    <2>7. CheckFollowsRule'
      BY <2>1, <2>6 DEF RuleInv, CheckFollowsRule
    <2> QED
      BY <2>5, <2>7
  <1>2. CASE ReadKeys \/ ((Operator \/ ReadFails) /\ KeysStep)
    <2>1. pc = "keys" /\ pc' = "keys"
      BY <1>2 DEF ReadKeys, Read, List, Get, ReadAll, ReadFails, Operator, DeleteKey, CreateOrUpdate,
                  Change, KeysStep, RuleInv, CheckInv, CheckType
    <2> QED
      BY <2>1 DEF Exact, CheckFollowsRule, Counting
  <1>3. CASE OpenCommit
    <2>1. /\ pc' = "start" /\ UNCHANGED <<entries, required, missing>> /\ missing = required
          /\ pgpKeys' = [i \in DOMAIN entries |-> i]
      BY <1>3 DEF OpenCommit, keysVars, RuleInv, CheckInv, CheckType
    <2>2. Ahead' = Signatures' /\ Len(Signatures') \in Nat
      BY <1>a, <2>1, SignaturesType DEF Ahead, CheckInv
    <2>3. Passed' = 0
      BY <2>2 DEF Passed
    <2>4. Counted' = {}
      BY <2>3 DEF Counted
    <2>5. Cardinality(Counted') = 0
      BY <2>4, FS_EmptySet
    <2>6. required \in Int /\ missing' = required' - Cardinality(Counted')
      BY <2>1, <2>5 DEF RuleInv, CheckInv, CheckType
    <2>7. \A j \in DOMAIN entries' : j \in Elements(pgpKeys') /\ entries'[j] \cap Counted' = {}
      BY <2>1, <2>4 DEF Elements
    <2> QED
      BY <2>1, <2>6, <2>7 DEF Exact, CheckFollowsRule
  <1>4. CASE NothingRequired
    <2>1. /\ pc = "start" /\ missing = 0 /\ pc' = "accepted" /\ Counting /\ ~Counting'
          /\ UNCHANGED <<own, notes, required, moments>>
      BY <1>4 DEF NothingRequired, inputs, keysVars, Counting
    <2>2. Cardinality(Counted) \in Nat /\ Counted \subseteq Signers \cap Trusted
      BY <2>1, CountedIsFinite DEF RuleInv, CheckInv
    <2>3. IsFiniteSet(Signers \cap Trusted)
      BY SignersAreFinite, FS_Subset DEF RuleInv, CheckInv
    <2>4. Cardinality(Counted) <= Cardinality(Signers \cap Trusted)
          /\ Cardinality(Signers \cap Trusted) \in Nat
      BY <2>2, <2>3, FS_Subset, FS_CardinalityType
    <2>5. ASSUME OneEach
          PROVE  Verified(Signers, Trusted, required)
      <3>1. required \in Int /\ missing = required - Cardinality(Counted)
        BY <2>1, <2>5 DEF RuleInv, Exact, CheckInv, CheckType
      <3>2. required = Cardinality(Counted)
        BY <2>1, <2>2, <3>1
      <3> QED
        BY <2>2, <2>4, <3>2 DEF Verified
    <2>6. CheckFollowsRule'
      BY <2>1, <2>5, RuleIsMet DEF RuleInv, CheckInv
    <2> QED
      BY <2>1, <2>6 DEF Exact
  <1>5. CASE StartOwn
    <2>1. /\ pc = "start" /\ pc' \in {"read", "own"} /\ missing # 0
          /\ UNCHANGED <<inputs, pgpKeys, missing>>
      BY <1>5 DEF StartOwn
    <2>2. Ahead' = Ahead
      BY <1>5, SignaturesType DEF StartOwn, inputs, RuleInv, CheckInv, CheckType, Ahead
    <2> QED
      BY <2>1, <2>2, NothingCounted DEF Counting
  <1>6. CASE Count
    BY <1>a, <1>6, CountStaysExact
  <1>7. CASE Pass
    BY <1>7, PassStaysExact
  <1>8. CASE OwnChecked
    <2>1. Ahead' = Ahead
      BY <1>8, ConcatEmptySeq DEF OwnChecked, inputs, RuleInv, CheckInv, CheckType, Ahead
    <2> QED
      BY <1>8, <2>1, NothingCounted DEF OwnChecked, Counting
  <1>9. CASE ReadNotes
    <2>1. CASE notes = <<>>
      BY <1>9, <2>1, RejectionIsRight DEF ReadNotes, Ahead
    <2>2. CASE notes # <<>>
      <3>1. Ahead' = Ahead
        BY <1>9, <2>2 DEF ReadNotes, inputs, Ahead
      <3> QED
        BY <1>9, <2>2, <3>1, NothingCounted DEF ReadNotes, Counting
    <2> QED
      BY <2>1, <2>2
  <1>10. CASE NotEnough
    BY <1>10, RejectionIsRight DEF NotEnough, Ahead
  <1>11. CASE Fail
    BY <1>11 DEF Fail, Exact, CheckFollowsRule, Counting
  <1> QED
    BY <1>1, <1>2, <1>3, <1>4, <1>5, <1>6, <1>7, <1>8, <1>9, <1>10, <1>11 DEF Next, Verify

\* CheckFollowsRule, where at most one change of the keys comes between their listing
\* and the last read: with one entry for each key, a commit is accepted exactly if as
\* many trusted keys as are required have signed it (pkg/pgp/util.go:12).
THEOREM CheckIsTheRule ==
    ASSUME \A s \in Stores : s.maxChanges <= 1
    PROVE  Spec => []CheckFollowsRule
  <1>1. Init => RuleInv
    BY InitRule
  <1>2. RuleInv => CheckFollowsRule
    BY DEF RuleInv
  <1> QED
    BY <1>1, <1>2, RuleStep, PTL DEF Spec
=============================================================================
