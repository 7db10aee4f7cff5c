---------------------------- MODULE LedgerProofs ----------------------------
(***************************************************************************)
(* The invariant of the ledger and what follows from it, for any DAG of    *)
(* records, any weights and whatever the network does.                     *)
(***************************************************************************)
EXTENDS AddLoops, RecordDagProofs, SequenceTheorems

(***************************************************************************)
(* What each part of addToTailingRecord does to a table of tailing records *)
(* t and a set of stored records b: lemmas about the operators of          *)
(* TailingRecords.                                                         *)
(***************************************************************************)
TableOK(t) ==
  /\ DOMAIN t \subseteq Record
  /\ t \in [DOMAIN t -> TailingRecordState]

\* The fields of a record have the types of Packet.
LEMMA FieldTypes ==
  ASSUME NEW r \in Record
  PROVE  /\ ProducerPrefix(r) \in Peer
         /\ Type(r) \in RecordType
         /\ PointersFromHeader(r) \in SUBSET Record
         /\ PrevCertificates(r) \in SUBSET Record
         /\ Named(r) \in SUBSET Record
  BY DataAssumption DEF ProducerPrefix, Type, PointersFromHeader, PrevCertificates, Named, Packet

\* A tailing record's fields; its weight is a number.
LEMMA StateFields ==
  ASSUME NEW t, TableOK(t), NEW r \in DOMAIN t
  PROVE  /\ r \in Record
         /\ t[r].parentEndorseVerified \in BOOLEAN
         /\ t[r].recordEndorseVerified \in BOOLEAN
         /\ t[r].refSet \in SUBSET Peer
         /\ t[r].addedTime \in Nat
         /\ IsFiniteSet(t[r].refSet)
         /\ Weight(t, r) \in Nat
<1>1. t[r] \in TailingRecordState /\ r \in Record
  BY DEF TableOK
<1>2. t[r].refSet \in SUBSET Peer
  BY <1>1 DEF TailingRecordState
<1>3. IsFiniteSet(t[r].refSet)
  BY <1>2, DataAssumption, FS_Subset
<1> QED BY <1>1, <1>2, <1>3, FS_CardinalityType DEF TailingRecordState, Weight

-----------------------------------------------------------------------------
(***************************************************************************)
(* Part 1, inserting a record.                                             *)
(***************************************************************************)

LEMMA InsertedTable ==
  ASSUME NEW t, TableOK(t), NEW r \in Record,
         NEW endorseVerified \in BOOLEAN, NEW time \in Nat
  PROVE  /\ TableOK(Inserted(t, r, endorseVerified, time))
         /\ DOMAIN Inserted(t, r, endorseVerified, time) = DOMAIN t \cup {r}
         /\ \A x \in DOMAIN t : x # r => Inserted(t, r, endorseVerified, time)[x] = t[x]
<1> DEFINE i == Inserted(t, r, endorseVerified, time)
           new == [parentEndorseVerified |->
                     /\ endorseVerified
                     /\ \A p \in PointersFromHeader(r) \cap DOMAIN t : t[p].parentEndorseVerified,
                   refSet |-> {}, recordEndorseVerified |-> endorseVerified, addedTime |-> time]
<1>1. i = [x \in DOMAIN t \cup {r} |-> IF x # r THEN t[x] ELSE new]
  BY DEF Inserted
<1>2. new \in TailingRecordState
  BY DEF TailingRecordState
<1> HIDE DEF new
<1>3. \A x \in DOMAIN i : i[x] \in TailingRecordState
  BY <1>1, <1>2 DEF TableOK
<1>4. DOMAIN i \subseteq Record
  BY <1>1 DEF TableOK
<1>5. i \in [DOMAIN i -> TailingRecordState]
  BY <1>1, <1>3
<1> QED BY <1>1, <1>4, <1>5 DEF TableOK

-----------------------------------------------------------------------------
(***************************************************************************)
(* Part 2, the traversal.                                                  *)
(***************************************************************************)

\* What the traversal updates: open records only; from an endorsed record
\* all that can be reached over open ones; and nothing that lies outside a
\* set of open records the traversal cannot leave.
LEMMA UpdatedFacts ==
  ASSUME NEW t, NEW r
  PROVE  /\ UpdatedRecords(t, r) \subseteq Open(t, r)
         /\ t[r].recordEndorseVerified => TraversalClosed(Open(t, r), r, UpdatedRecords(t, r))
         /\ ~ t[r].recordEndorseVerified => UpdatedRecords(t, r) = {}
         /\ \A S \in SUBSET Open(t, r) :
               TraversalClosed(Open(t, r), r, S) => UpdatedRecords(t, r) \subseteq S
<1> DEFINE open == Open(t, r)
           closedSets == {S \in SUBSET open : TraversalClosed(open, r, S)}
           least == {x \in open : \A S \in closedSets : x \in S}
<1>1. UpdatedRecords(t, r) = IF t[r].recordEndorseVerified THEN least ELSE {}
  BY DEF UpdatedRecords
<1>2. TraversalClosed(open, r, least)
  BY DEF TraversalClosed
<1> QED BY <1>1, <1>2

\* The weights after the traversal.
LEMMA WeighedTable ==
  ASSUME NEW t, TableOK(t), NEW r \in Record, NEW U
  PROVE  /\ TableOK(Weighed(t, r, U))
         /\ DOMAIN Weighed(t, r, U) = DOMAIN t
         /\ \A x \in DOMAIN t :
              /\ Weighed(t, r, U)[x].parentEndorseVerified = t[x].parentEndorseVerified
              /\ Weighed(t, r, U)[x].recordEndorseVerified = t[x].recordEndorseVerified
              /\ Weighed(t, r, U)[x].refSet =
                   IF x \in U THEN t[x].refSet \cup {ProducerPrefix(r)} ELSE t[x].refSet
<1> DEFINE w == Weighed(t, r, U)
<1>1. w = [x \in DOMAIN t |->
             IF x \in U THEN [t[x] EXCEPT !.refSet = @ \cup {ProducerPrefix(r)}] ELSE t[x]]
  BY DEF Weighed
<1>2. ASSUME NEW x \in DOMAIN t
      PROVE  /\ w[x] \in TailingRecordState
             /\ w[x].parentEndorseVerified = t[x].parentEndorseVerified
             /\ w[x].recordEndorseVerified = t[x].recordEndorseVerified
             /\ w[x].refSet =
                  IF x \in U THEN t[x].refSet \cup {ProducerPrefix(r)} ELSE t[x].refSet
  <2>1. t[x] \in TailingRecordState
    BY DEF TableOK
  <2>2. ProducerPrefix(r) \in Peer
    BY FieldTypes
  <2>3. w[x] = IF x \in U THEN [t[x] EXCEPT !.refSet = @ \cup {ProducerPrefix(r)}] ELSE t[x]
    BY <1>1
  <2> QED BY <2>1, <2>2, <2>3 DEF TailingRecordState
<1>3. w \in [DOMAIN w -> TailingRecordState] /\ DOMAIN w = DOMAIN t
  BY <1>1, <1>2
<1> QED BY <1>2, <1>3 DEF TableOK

LEMMA WeighedRefSet ==
  ASSUME NEW t, TableOK(t), NEW r \in Record, NEW U, NEW x \in DOMAIN t
  PROVE  Weighed(t, r, U)[x].refSet =
           IF x \in U THEN t[x].refSet \cup {ProducerPrefix(r)} ELSE t[x].refSet
  BY WeighedTable

\* Part 2 leaves the verdicts on the records alone.
LEMMA WeighedVerdict ==
  ASSUME NEW t, TableOK(t), NEW r \in Record, NEW U, NEW x \in DOMAIN t
  PROVE  Weighed(t, r, U)[x].recordEndorseVerified = t[x].recordEndorseVerified
<1>1. Weighed(t, r, U)[x] =
        IF x \in U THEN [t[x] EXCEPT !.refSet = @ \cup {ProducerPrefix(r)}] ELSE t[x]
  BY DEF Weighed
<1>2. t[x] \in TailingRecordState
  BY DEF TableOK
<1> QED BY <1>1, <1>2 DEF TailingRecordState

-----------------------------------------------------------------------------
(***************************************************************************)
(* The parts keep TailInv.                                                 *)
(***************************************************************************)

\* The conjuncts of LinkInv that are about one tailing record.
RecordInv(t, b, r) ==
  /\ t[r].parentEndorseVerified = t[r].recordEndorseVerified
  /\ ~ t[r].recordEndorseVerified => t[r].refSet = {} /\ r \notin b
  /\ ProducerPrefix(r) \notin t[r].refSet
  /\ Interlocked(r)
  /\ PointersFromHeader(r) \subseteq DOMAIN t \cup b
  /\ Weight(t, r) >= confirmWeight => r \in b

PointsToEndorsed(t, c) ==
  \A p \in PointersFromHeader(c) \cap DOMAIN t : t[p].recordEndorseVerified

Closed(b) == \A r \in b : PointersFromHeader(r) \subseteq b

LEMMA LinkInvParts ==
  ASSUME NEW t, NEW b
  PROVE  /\ LinkInv(t, b) <=> /\ \A r \in DOMAIN t : RecordInv(t, b, r)
                              /\ \A c \in DOMAIN t : PointsToEndorsed(t, c)
         /\ TailInv(t, b) <=> /\ LinkInv(t, b)
                              /\ \A c \in DOMAIN t : Approves(t, c)
                              /\ Closed(b)
  BY DEF LinkInv, RecordInv, PointsToEndorsed, TailInv, Closed

\* Part 1 inserts a record whose parents are here: LinkInv holds, and what
\* approved its parents still does.  The new record has not approved its own.
LEMMA InsertedInv ==
  ASSUME NEW t, TableOK(t), NEW b, LinkInv(t, b),
         NEW r \in Record, r \notin DOMAIN t, r \notin b, Interlocked(r),
         NEW endorseVerified \in BOOLEAN, NEW time \in Nat,
         \A p \in PointersFromHeader(r) : HasRecord(t, b, p)
  PROVE  LET i == Inserted(t, r, endorseVerified, time)
         IN  /\ LinkInv(i, b)
             /\ \A c \in DOMAIN t : Approves(t, c) => Approves(i, c)
<1> DEFINE i == Inserted(t, r, endorseVerified, time)
<1>1. /\ DOMAIN i = DOMAIN t \cup {r}
      /\ \A x \in DOMAIN t : i[x] = t[x]
  BY DEF Inserted
<1>2. /\ i[r].refSet = {}
      /\ i[r].recordEndorseVerified = endorseVerified
      /\ i[r].parentEndorseVerified =
           (/\ endorseVerified
            /\ \A p \in PointersFromHeader(r) \cap DOMAIN t : t[p].parentEndorseVerified)
  BY DEF Inserted
<1> HIDE DEF i
<1>3. /\ \A x \in DOMAIN t : RecordInv(t, b, x)
      /\ \A c \in DOMAIN t : PointsToEndorsed(t, c)
  BY LinkInvParts
<1>4. \A p \in PointersFromHeader(r) \cap DOMAIN t :
         t[p].parentEndorseVerified /\ t[p].recordEndorseVerified
  <2> SUFFICES ASSUME NEW p \in PointersFromHeader(r) \cap DOMAIN t
               PROVE  t[p].parentEndorseVerified /\ t[p].recordEndorseVerified
    OBVIOUS
  <2>1. t[p].parentEndorseVerified
    BY DEF HasRecord
  <2>2. t[p].parentEndorseVerified = t[p].recordEndorseVerified
    BY <1>3 DEF RecordInv
  <2> QED BY <2>1, <2>2
<1>5. \A c \in DOMAIN i : r \notin PointersFromHeader(c)
  BY <1>1, <1>3 DEF RecordInv, Interlocked
<1>6. ASSUME NEW x \in DOMAIN i PROVE RecordInv(i, b, x)
  <2>1. CASE x \in DOMAIN t
    BY <2>1, <1>1, <1>3 DEF RecordInv, Weight
  <2>2. CASE x = r
    <3>1. PointersFromHeader(r) \subseteq DOMAIN i \cup b
      BY <1>1 DEF HasRecord
    <3>2. Weight(i, r) = 0
      BY <1>2, FS_EmptySet DEF Weight
    <3>3. ~ (Weight(i, r) >= confirmWeight)
      BY <3>2, WeightAssumption
    <3>4. i[r].parentEndorseVerified = i[r].recordEndorseVerified
      BY <1>2, <1>4
    <3> QED BY <2>2, <3>1, <3>3, <3>4, <1>2 DEF RecordInv
  <2> QED BY <2>1, <2>2, <1>1
<1>7. ASSUME NEW c \in DOMAIN i PROVE PointsToEndorsed(i, c)
  BY <1>1, <1>3, <1>4, <1>5 DEF PointsToEndorsed
<1>8. LinkInv(i, b)
  BY <1>6, <1>7, LinkInvParts
<1>9. ASSUME NEW c \in DOMAIN t, Approves(t, c) PROVE Approves(i, c)
  BY <1>1, <1>5, <1>9 DEF Approves
<1> QED BY <1>8, <1>9 DEF i

\* The traversal updates endorsed records of other producers.
LEMMA UpdatedEndorsed ==
  ASSUME NEW t, NEW r \in DOMAIN t, \A c \in DOMAIN t : PointsToEndorsed(t, c)
  PROVE  \A x \in UpdatedRecords(t, r) :
            /\ x \in DOMAIN t
            /\ t[x].recordEndorseVerified
            /\ ProducerPrefix(x) # ProducerPrefix(r)
            /\ ProducerPrefix(r) \notin t[x].refSet
<1> DEFINE good == {x \in Open(t, r) : t[x].recordEndorseVerified}
<1>1. Open(t, r) \subseteq DOMAIN t
  BY DEF Open
<1>2. TraversalClosed(Open(t, r), r, good)
  BY <1>1 DEF TraversalClosed, PointsToEndorsed
<1>3. UpdatedRecords(t, r) \subseteq good
  <2>1. good \in SUBSET Open(t, r)
    OBVIOUS
  <2> HIDE DEF good
  <2> QED BY <2>1, <1>2, UpdatedFacts
<1> QED BY <1>3 DEF Open

\* An update adds one to the weight.
LEMMA WeighedWeight ==
  ASSUME NEW t, TableOK(t), NEW r \in Record, NEW U \in SUBSET Open(t, r)
  PROVE  \A x \in DOMAIN t :
            Weight(Weighed(t, r, U), x) = IF x \in U THEN Weight(t, x) + 1 ELSE Weight(t, x)
<1> SUFFICES ASSUME NEW x \in DOMAIN t
             PROVE  Weight(Weighed(t, r, U), x)
                      = IF x \in U THEN Weight(t, x) + 1 ELSE Weight(t, x)
  OBVIOUS
<1>1. Weighed(t, r, U)[x].refSet =
        IF x \in U THEN t[x].refSet \cup {ProducerPrefix(r)} ELSE t[x].refSet
  BY WeighedTable
<1>2. IsFiniteSet(t[x].refSet)
  BY StateFields
<1>3. CASE x \in U
  <2>1. ProducerPrefix(r) \notin t[x].refSet
    BY <1>3 DEF Open
  <2>2. Cardinality(t[x].refSet \cup {ProducerPrefix(r)}) = Cardinality(t[x].refSet) + 1
    BY <1>2, <2>1, FS_AddElement
  <2> QED BY <1>1, <1>3, <2>2 DEF Weight
<1>4. CASE x \notin U
  BY <1>1, <1>4 DEF Weight
<1> QED BY <1>3, <1>4

\* Of two endorsed tailing records one pointing to the other, the parent is
\* at least as heavy as the child: the child's producer takes the place the
\* parent's producer may have among the child's approvers.
LEMMA ParentHeavier ==
  ASSUME NEW t, TableOK(t), NEW c \in DOMAIN t, NEW p \in PointersFromHeader(c) \cap DOMAIN t,
         Approves(t, c), t[c].recordEndorseVerified, ProducerPrefix(c) \notin t[c].refSet
  PROVE  Weight(t, c) <= Weight(t, p)
<1> DEFINE C == t[c].refSet
           P == t[p].refSet
           D == (C \ {ProducerPrefix(p)}) \cup {ProducerPrefix(c)}
<1>1. D \subseteq P
  BY DEF Approves
<1>2. IsFiniteSet(C) /\ IsFiniteSet(P) /\ Cardinality(C) \in Nat /\ Cardinality(P) \in Nat
  BY StateFields, FS_CardinalityType
<1>3. ProducerPrefix(c) \notin C
  OBVIOUS
<1> HIDE DEF C, P
<1>4. /\ IsFiniteSet(C \ {ProducerPrefix(p)})
      /\ Cardinality(C \ {ProducerPrefix(p)}) >= Cardinality(C) - 1
      /\ Cardinality(C \ {ProducerPrefix(p)}) \in Nat
  BY <1>2, FS_RemoveElement, FS_CardinalityType
<1>5. Cardinality(D) = Cardinality(C \ {ProducerPrefix(p)}) + 1
  <2>1. ProducerPrefix(c) \notin C \ {ProducerPrefix(p)}
    BY <1>3
  <2> QED BY <1>4, <2>1, FS_AddElement
<1>6. Cardinality(D) <= Cardinality(P)
  BY <1>1, <1>2, FS_Subset
<1>7. Cardinality(C) <= Cardinality(P)
  <2> HIDE DEF D
  <2> QED BY <1>2, <1>4, <1>5, <1>6
<1> QED BY <1>7 DEF C, P, Weight

\* removeWeight is not below confirmWeight: no record is removed unconfirmed.
LEMMA RemoveWeightBound == removeWeight \in Nat /\ removeWeight >= confirmWeight
  BY WeightAssumption DEF removeWeight

\* The records that reach confirmWeight in part 2 are among the stored ones
\* then: LinkInv holds again.
LEMMA WeighedLink ==
  ASSUME NEW i, TableOK(i), NEW b, NEW r \in DOMAIN i, LinkInv(i, b)
  PROVE  LET U == UpdatedRecords(i, r)
             w == Weighed(i, r, U)
         IN  LinkInv(w, b \cup Confirmed(w, U))
<1> DEFINE U == UpdatedRecords(i, r)
           w == Weighed(i, r, U)
           C == Confirmed(w, U)
           me == ProducerPrefix(r)
<1>0. r \in Record
  BY DEF TableOK
<1>1. /\ \A x \in DOMAIN i : RecordInv(i, b, x)
      /\ \A c \in DOMAIN i : PointsToEndorsed(i, c)
  BY LinkInvParts
<1>2. \A x \in U : /\ x \in DOMAIN i
                   /\ i[x].recordEndorseVerified
                   /\ ProducerPrefix(x) # me
                   /\ me \notin i[x].refSet
  BY <1>1, UpdatedEndorsed
<1>3. U \subseteq Open(i, r)
  BY UpdatedFacts
<1>4. /\ DOMAIN w = DOMAIN i
      /\ TableOK(w)
      /\ \A x \in DOMAIN i :
           /\ w[x].parentEndorseVerified = i[x].parentEndorseVerified
           /\ w[x].recordEndorseVerified = i[x].recordEndorseVerified
           /\ w[x].refSet = IF x \in U THEN i[x].refSet \cup {me} ELSE i[x].refSet
  <2>1. w = Weighed(i, r, U)
    OBVIOUS
  <2> HIDE DEF U, w
  <2>2. TableOK(w) /\ DOMAIN w = DOMAIN i
    BY <1>0, <2>1, WeighedTable
  <2>3. \A x \in DOMAIN i :
          /\ w[x].parentEndorseVerified = i[x].parentEndorseVerified
          /\ w[x].recordEndorseVerified = i[x].recordEndorseVerified
          /\ w[x].refSet = IF x \in U THEN i[x].refSet \cup {ProducerPrefix(r)} ELSE i[x].refSet
    BY <1>0, <2>1, WeighedTable
  <2> QED BY <2>2, <2>3
<1>5. \A x \in DOMAIN i : Weight(w, x) = IF x \in U THEN Weight(i, x) + 1 ELSE Weight(i, x)
  BY <1>0, <1>3, WeighedWeight
<1>6. C = {x \in U : Weight(w, x) = confirmWeight}
  BY DEF Confirmed
<1> HIDE DEF U, w, C
<1>7. ASSUME NEW x \in DOMAIN w, Weight(w, x) >= confirmWeight PROVE x \in b \cup C
  <2>1. x \in DOMAIN i /\ Weight(i, x) \in Nat
    BY <1>4, StateFields
  <2>2. CASE Weight(i, x) >= confirmWeight
    BY <2>1, <2>2, <1>1 DEF RecordInv
  <2>3. CASE ~ (Weight(i, x) >= confirmWeight)
    <3>1. x \in U /\ Weight(w, x) = Weight(i, x) + 1
      BY <2>1, <2>3, <1>5, <1>7
    <3>2. Weight(w, x) = confirmWeight
      BY <2>1, <2>3, <3>1, <1>7, WeightAssumption
    <3> QED BY <3>1, <3>2, <1>6
  <2> QED BY <2>2, <2>3
<1>8. ASSUME NEW x \in DOMAIN w PROVE RecordInv(w, b \cup C, x)
  <2>1. x \in DOMAIN i /\ RecordInv(i, b, x)
    BY <1>1, <1>4
  <2>2. w[x].parentEndorseVerified = w[x].recordEndorseVerified
    BY <2>1, <1>4 DEF RecordInv
  <2>3. ~ w[x].recordEndorseVerified => w[x].refSet = {} /\ x \notin b \cup C
    BY <2>1, <1>2, <1>4, <1>6 DEF RecordInv
  <2>4. ProducerPrefix(x) \notin w[x].refSet
    BY <2>1, <1>2, <1>4 DEF RecordInv
  <2>5. Interlocked(x) /\ PointersFromHeader(x) \subseteq DOMAIN w \cup (b \cup C)
    BY <2>1, <1>4 DEF RecordInv
  <2> QED BY <2>2, <2>3, <2>4, <2>5, <1>7 DEF RecordInv
<1>9. ASSUME NEW c \in DOMAIN w PROVE PointsToEndorsed(w, c)
  BY <1>1, <1>4 DEF PointsToEndorsed
<1>10. LinkInv(w, b \cup C)
  BY <1>8, <1>9, LinkInvParts
<1> QED BY <1>10 DEF w, C, U

\* Part 2 makes the new record approve its parents, and all its ancestors up
\* to those that were approved before: all of TailInv holds again.
LEMMA WeighedInv ==
  ASSUME NEW i, TableOK(i), NEW b, NEW r \in DOMAIN i, LinkInv(i, b), Closed(b),
         \A c \in DOMAIN i \ {r} : Approves(i, c), i[r].refSet = {}
  PROVE  LET U == UpdatedRecords(i, r)
             w == Weighed(i, r, U)
         IN  TailInv(w, b \cup Confirmed(w, U))
<1> DEFINE U == UpdatedRecords(i, r)
           w == Weighed(i, r, U)
           C == Confirmed(w, U)
           me == ProducerPrefix(r)
<1>0. r \in Record
  BY DEF TableOK
<1>1. /\ \A x \in DOMAIN i : RecordInv(i, b, x)
      /\ LinkInv(w, b \cup C)
  BY WeighedLink, LinkInvParts
<1>2. \A x \in U : /\ x \in DOMAIN i
                   /\ i[x].recordEndorseVerified
                   /\ ProducerPrefix(x) # me
  BY LinkInvParts, UpdatedEndorsed
<1>3. U \subseteq Open(i, r)
  BY UpdatedFacts
<1>4. /\ DOMAIN w = DOMAIN i
      /\ TableOK(w)
      /\ \A x \in DOMAIN i :
           /\ w[x].parentEndorseVerified = i[x].parentEndorseVerified
           /\ w[x].recordEndorseVerified = i[x].recordEndorseVerified
           /\ w[x].refSet = IF x \in U THEN i[x].refSet \cup {me} ELSE i[x].refSet
  <2>1. w = Weighed(i, r, U)
    OBVIOUS
  <2> HIDE DEF U, w
  <2>2. TableOK(w) /\ DOMAIN w = DOMAIN i
    BY <1>0, <2>1, WeighedTable
  <2>3. \A x \in DOMAIN i :
          /\ w[x].parentEndorseVerified = i[x].parentEndorseVerified
          /\ w[x].recordEndorseVerified = i[x].recordEndorseVerified
          /\ w[x].refSet = IF x \in U THEN i[x].refSet \cup {ProducerPrefix(r)} ELSE i[x].refSet
    BY <1>0, <2>1, WeighedTable
  <2> QED BY <2>2, <2>3
<1>5. C = {x \in U : Weight(w, x) = confirmWeight}
  BY DEF Confirmed
<1>6. i[r].recordEndorseVerified => TraversalClosed(Open(i, r), r, U)
  BY UpdatedFacts
<1>7. ~ i[r].recordEndorseVerified => U = {}
  BY UpdatedFacts
<1> HIDE DEF U, w, C
<1>8. ASSUME NEW c \in DOMAIN i, NEW p \in PointersFromHeader(c) \cap DOMAIN i,
             c \in U \cup {r}, i[c].recordEndorseVerified, ProducerPrefix(p) # me
      PROVE  me \in w[p].refSet
  <2>1. i[r].recordEndorseVerified
    BY <1>7, <1>8
  <2>2. CASE me \in i[p].refSet
    BY <2>2, <1>4
  <2>3. CASE me \notin i[p].refSet
    <3>1. p \in Open(i, r)
      BY <2>3, <1>8 DEF Open
    <3>2. p \in U
      BY <2>1, <3>1, <1>6, <1>8 DEF TraversalClosed
    <3> QED BY <3>2, <1>4
  <2> QED BY <2>2, <2>3
<1>9. ASSUME NEW c \in DOMAIN w PROVE Approves(w, c)
  <2> SUFFICES ASSUME NEW p \in PointersFromHeader(c) \cap DOMAIN w,
                      w[c].recordEndorseVerified
               PROVE  (w[c].refSet \ {ProducerPrefix(p)}) \cup {ProducerPrefix(c)}
                         \subseteq w[p].refSet
    BY DEF Approves
  <2>1. i[c].recordEndorseVerified /\ c \in DOMAIN i /\ p \in DOMAIN i
    BY <1>4
  <2>2. ProducerPrefix(p) # ProducerPrefix(c)
    BY <1>1, <2>1 DEF RecordInv, Interlocked
  <2>3. i[p].refSet \subseteq w[p].refSet
    BY <1>4, <2>1
  <2>4. CASE c = r
    <3>1. r \notin U
      BY <1>2
    <3>2. w[c].refSet = {}
      BY <2>1, <2>4, <3>1, <1>4
    <3>3. ProducerPrefix(c) \in w[p].refSet
      BY <2>1, <2>2, <2>4, <1>8
    <3> QED BY <3>2, <3>3
  <2>5. CASE c # r
    <3>1. (i[c].refSet \ {ProducerPrefix(p)}) \cup {ProducerPrefix(c)} \subseteq i[p].refSet
      BY <2>1, <2>5 DEF Approves
    <3>2. CASE c \in U
      <4>1. w[c].refSet = i[c].refSet \cup {me}
        BY <2>1, <3>2, <1>4
      <4>2. ProducerPrefix(p) # me => me \in w[p].refSet
        BY <2>1, <3>2, <1>8
      <4> QED BY <3>1, <4>1, <4>2, <2>3
    <3>3. CASE c \notin U
      <4>1. w[c].refSet = i[c].refSet
        BY <2>1, <3>3, <1>4
      <4> QED BY <3>1, <4>1, <2>3
    <3> QED BY <3>2, <3>3
  <2> QED BY <2>4, <2>5
<1>10. \A x \in DOMAIN w : RecordInv(w, b \cup C, x)
  BY <1>1, LinkInvParts
<1>11. Closed(b \cup C)
  <2> SUFFICES ASSUME NEW x \in C, NEW p \in PointersFromHeader(x)
               PROVE  p \in b \cup C
    BY DEF Closed
  <2>1. /\ x \in DOMAIN w
        /\ w[x].recordEndorseVerified
        /\ Weight(w, x) = confirmWeight
        /\ RecordInv(w, b \cup C, x)
    BY <1>2, <1>4, <1>5, <1>10
  <2>2. CASE p \in DOMAIN w
    <3>1. ProducerPrefix(x) \notin w[x].refSet
      BY <2>1 DEF RecordInv
    <3>2. Weight(w, x) <= Weight(w, p)
      BY <1>4, <1>9, <2>1, <2>2, <3>1, ParentHeavier
    <3>3. Weight(w, p) >= confirmWeight
      BY <2>1, <3>2
    <3> QED BY <1>4, <2>2, <3>3, <1>10 DEF RecordInv
  <2>3. CASE p \notin DOMAIN w
    <3>1. x \in DOMAIN i /\ p \notin DOMAIN i
      BY <2>1, <2>3, <1>4
    <3> QED BY <3>1, <1>1 DEF RecordInv
  <2> QED BY <2>2, <2>3
<1>12. TailInv(w, b \cup C)
  BY <1>1, <1>9, <1>11, LinkInvParts
<1> QED BY <1>12 DEF w, C, U

\* Removing records none of whose children stay keeps LinkInv and TailInv.
LEMMA RestrictInv ==
  ASSUME NEW t, TableOK(t), NEW b, LinkInv(t, b), NEW K \in SUBSET DOMAIN t,
         \A x \in K : PointersFromHeader(x) \subseteq K \cup b
  PROVE  LET s == [x \in K |-> t[x]]
         IN  TableOK(s) /\ LinkInv(s, b) /\ (TailInv(t, b) => TailInv(s, b))
<1> DEFINE s == [x \in K |-> t[x]]
<1>1. TableOK(s)
  BY DEF TableOK
<1>2. /\ \A x \in K : RecordInv(t, b, x)
      /\ \A c \in K : PointsToEndorsed(t, c)
  BY LinkInvParts
<1>3. DOMAIN s = K /\ \A x \in K : s[x] = t[x]
  OBVIOUS
<1> HIDE DEF s
<1>4. \A x \in DOMAIN s : RecordInv(s, b, x)
  BY <1>2, <1>3 DEF RecordInv, Weight
<1>5. \A c \in DOMAIN s : PointsToEndorsed(s, c)
  BY <1>2, <1>3 DEF PointsToEndorsed
<1>6. LinkInv(s, b)
  BY <1>4, <1>5, LinkInvParts
<1>7. ASSUME TailInv(t, b) PROVE TailInv(s, b)
  <2>1. Closed(b) /\ \A c \in K : Approves(t, c)
    BY <1>7, LinkInvParts
  <2>2. \A c \in DOMAIN s : Approves(s, c)
    BY <1>3, <2>1 DEF Approves
  <2> QED BY <1>6, <2>1, <2>2, LinkInvParts
<1> QED BY <1>1, <1>6, <1>7 DEF s

\* Part 3 marks as verified only what is verified already, so it amounts to
\* removing records.
LEMMA SettledIsRestriction ==
  ASSUME NEW w, TableOK(w), NEW U \in SUBSET DOMAIN w,
         \A x \in U : w[x].parentEndorseVerified
  PROVE  Settled(w, U) = [x \in DOMAIN w \ {y \in U : Weight(w, y) >= removeWeight} |-> w[x]]
<1> SUFFICES ASSUME NEW x \in U
             PROVE  [w[x] EXCEPT !.parentEndorseVerified = TRUE] = w[x]
  BY DEF Settled
<1>1. w[x] \in TailingRecordState /\ w[x].parentEndorseVerified
  BY DEF TableOK
<1>2. w[x].parentEndorseVerified = TRUE
  BY <1>1 DEF TailingRecordState
<1> QED BY <1>1, <1>2 DEF TailingRecordState

LEMMA SettledInv ==
  ASSUME NEW w, TableOK(w), NEW b, LinkInv(w, b), NEW U \in SUBSET DOMAIN w,
         \A x \in U : w[x].recordEndorseVerified
  PROVE  /\ TableOK(Settled(w, U))
         /\ LinkInv(Settled(w, U), b)
         /\ TailInv(w, b) => TailInv(Settled(w, U), b)
<1> DEFINE deep == {y \in U : Weight(w, y) >= removeWeight}
           K == DOMAIN w \ deep
           s == [x \in K |-> w[x]]
<1>1. \A x \in DOMAIN w : RecordInv(w, b, x)
  BY LinkInvParts
<1>2. \A x \in U : w[x].parentEndorseVerified
  BY <1>1 DEF RecordInv
<1>3. Settled(w, U) = s
  BY <1>2, SettledIsRestriction
<1>4. \A x \in deep : x \in b
  <2> SUFFICES ASSUME NEW x \in deep PROVE x \in b
    OBVIOUS
  <2>1. Weight(w, x) \in Nat /\ Weight(w, x) >= removeWeight
    BY StateFields
  <2>2. Weight(w, x) >= confirmWeight
    BY <2>1, RemoveWeightBound, WeightAssumption
  <2> QED BY <2>2, <1>1 DEF RecordInv
<1>5. \A x \in K : PointersFromHeader(x) \subseteq K \cup b
  BY <1>1, <1>4 DEF RecordInv
<1>6. K \in SUBSET DOMAIN w
  OBVIOUS
<1> HIDE DEF K
<1>7. TableOK(s) /\ LinkInv(s, b) /\ (TailInv(w, b) => TailInv(s, b))
  BY <1>5, <1>6, RestrictInv
<1> QED BY <1>3, <1>7

\* Part 5 removes with a record all its descendants.
LEMMA RemovalIsClosed ==
  ASSUME NEW t, NEW time
  PROVE  RemovalClosed(t, Removed(t, time))
<1> DEFINE closedSets == {S \in SUBSET DOMAIN t : TimedOut(t, time) \subseteq S /\ RemovalClosed(t, S)}
<1>1. Removed(t, time) = {x \in DOMAIN t : \A S \in closedSets : x \in S}
  BY DEF Removed
<1> QED BY <1>1 DEF RemovalClosed

\* It removes only records lighter than confirmWeight: a child is no heavier
\* than its parent.
LEMMA RemovedAreLight ==
  ASSUME NEW t, TableOK(t), NEW b, TailInv(t, b), NEW time
  PROVE  \A x \in Removed(t, time) : x \in DOMAIN t /\ Weight(t, x) < confirmWeight
<1> DEFINE late == TimedOut(t, time)
           light == {x \in DOMAIN t : Weight(t, x) < confirmWeight}
           closedSets == {S \in SUBSET DOMAIN t : late \subseteq S /\ RemovalClosed(t, S)}
<1>1. Removed(t, time) = {x \in DOMAIN t : \A S \in closedSets : x \in S}
  BY DEF Removed
<1>2. /\ \A x \in DOMAIN t : RecordInv(t, b, x)
      /\ \A x \in DOMAIN t : Approves(t, x)
  BY LinkInvParts
<1>3. RemovalClosed(t, light)
  <2> SUFFICES ASSUME NEW x \in DOMAIN t, NEW p \in PointersFromHeader(x) \cap light
               PROVE  Weight(t, x) < confirmWeight
    BY DEF RemovalClosed
  <2>1. p \in DOMAIN t /\ Weight(t, p) < confirmWeight /\ Weight(t, p) \in Nat
    BY StateFields
  <2>2. Weight(t, x) \in Nat
    BY StateFields
  <2>3. CASE t[x].recordEndorseVerified
    <3>1. Weight(t, x) <= Weight(t, p)
      BY <2>1, <2>3, <1>2, ParentHeavier DEF RecordInv
    <3> QED BY <2>1, <2>2, <3>1, WeightAssumption
  <2>4. CASE ~ t[x].recordEndorseVerified
    <3>1. t[x].refSet = {}
      BY <2>4, <1>2 DEF RecordInv
    <3> QED BY <3>1, FS_EmptySet, WeightAssumption DEF Weight
  <2> QED BY <2>3, <2>4
<1>4. late \subseteq light
  BY DEF TimedOut
<1>5. light \in closedSets
  BY <1>3, <1>4
<1> QED BY <1>1, <1>5

\* What part 5 leaves: a part of the table, with the parents it had there.
LEMMA RemoveTimeoutPart ==
  ASSUME NEW t, TableOK(t), NEW time
  PROVE  LET s == RemoveTimeoutRecords(t, time)
         IN  /\ TableOK(s)
             /\ DOMAIN s \subseteq DOMAIN t
             /\ \A x \in DOMAIN s : s[x] = t[x]
             /\ \A x \in DOMAIN s : PointersFromHeader(x) \cap DOMAIN t \subseteq DOMAIN s
<1>1. RemovalClosed(t, Removed(t, time))
  BY RemovalIsClosed
<1>2. CASE TimedOut(t, time) = {}
  BY <1>2 DEF RemoveTimeoutRecords
<1>3. CASE TimedOut(t, time) # {}
  <2> DEFINE s == RemoveTimeoutRecords(t, time)
  <2>1. s = [x \in DOMAIN t \ Removed(t, time) |-> t[x]]
    BY <1>3 DEF RemoveTimeoutRecords
  <2> HIDE DEF s
  <2>2. DOMAIN s = DOMAIN t \ Removed(t, time) /\ \A x \in DOMAIN s : s[x] = t[x]
    BY <2>1
  <2>3. TableOK(s)
    BY <2>1 DEF TableOK
  <2>4. \A x \in DOMAIN s : PointersFromHeader(x) \cap DOMAIN t \subseteq DOMAIN s
    BY <1>1, <2>2 DEF RemovalClosed
  <2> QED BY <2>2, <2>3, <2>4 DEF s
<1> QED BY <1>2, <1>3

LEMMA RemoveTimeoutInv ==
  ASSUME NEW t, TableOK(t), NEW b, LinkInv(t, b), NEW time
  PROVE  /\ LinkInv(RemoveTimeoutRecords(t, time), b)
         /\ TailInv(t, b) => TailInv(RemoveTimeoutRecords(t, time), b)
<1>1. CASE TimedOut(t, time) = {}
  BY <1>1 DEF RemoveTimeoutRecords
<1>2. CASE TimedOut(t, time) # {}
  <2> DEFINE K == DOMAIN t \ Removed(t, time)
             s == [x \in K |-> t[x]]
  <2>1. RemoveTimeoutRecords(t, time) = s
    BY <1>2 DEF RemoveTimeoutRecords
  <2>2. RemovalClosed(t, Removed(t, time))
    BY RemovalIsClosed
  <2>3. \A x \in DOMAIN t : PointersFromHeader(x) \subseteq DOMAIN t \cup b
    BY LinkInvParts DEF RecordInv
  <2>4. \A x \in K : PointersFromHeader(x) \subseteq K \cup b
    BY <2>2, <2>3 DEF RemovalClosed
  <2>5. K \in SUBSET DOMAIN t
    OBVIOUS
  <2> HIDE DEF K
  <2>6. LinkInv(s, b) /\ (TailInv(t, b) => TailInv(s, b))
    BY <2>4, <2>5, RestrictInv
  <2> QED BY <2>1, <2>6
<1> QED BY <1>1, <1>2

-----------------------------------------------------------------------------
\* What a record issues or revokes are certificates.
LEMMA CertificateFields ==
  ASSUME NEW r \in Record
  PROVE  /\ Certificates(r) \in SUBSET Cert
         /\ RevokedCertificates(r) \in SUBSET Cert
  BY DataAssumption DEF Certificates, RevokedCertificates, Type, Packet

(***************************************************************************)
(* addToTailingRecord.  InsertedNow, UpdatedNow and WeighedNow are the     *)
(* table after part 1, the updated records and the table after part 2.     *)
(***************************************************************************)
InsertedNow(r, e) == Inserted(tailRecords, r, e, now)
UpdatedNow(r, e)  == UpdatedRecords(InsertedNow(r, e), r)
WeighedNow(r, e)  == Weighed(InsertedNow(r, e), r, UpdatedNow(r, e))
SettledNow(r, e)  == Settled(WeighedNow(r, e), UpdatedNow(r, e))

LEMMA WriteDefinition ==
  ASSUME NEW r, NEW e, NEW W, AddWriting(r, e, W)
  PROVE  /\ tailRecords' = RemoveTimeoutRecords(SettledNow(r, e), now)
         /\ OnRecordsConfirmed(Confirmed(WeighedNow(r, e), UpdatedNow(r, e)), W)
         /\ admitted' = IF e THEN admitted \cup {r} ELSE admitted
         /\ timedOut' = timedOut \cup (DOMAIN SettledNow(r, e) \ DOMAIN tailRecords')
         /\ fault' = NullDereference(WeighedNow(r, e), r, UpdatedNow(r, e))
  BY DEF AddWriting, InsertedNow, UpdatedNow, WeighedNow, SettledNow

LEMMA AddDefinition ==
  ASSUME NEW r, NEW e, AddToTailingRecord(r, e)
  PROVE  /\ tailRecords' = RemoveTimeoutRecords(SettledNow(r, e), now)
         /\ OnRecordsConfirmed(Confirmed(WeighedNow(r, e), UpdatedNow(r, e)), {})
         /\ admitted' = IF e THEN admitted \cup {r} ELSE admitted
         /\ timedOut' = timedOut \cup (DOMAIN SettledNow(r, e) \ DOMAIN tailRecords')
         /\ fault' = NullDereference(WeighedNow(r, e), r, UpdatedNow(r, e))
<1>1. AddWriting(r, e, {})
  BY DEF AddToTailingRecord
<1> QED BY <1>1, WriteDefinition

\* When a record may be added: it is new, its parents are here and by others.
Addable(r) ==
  /\ r \in Record
  /\ ~ Seen(r)
  /\ Interlocked(r)
  /\ \A p \in PointersFromHeader(r) : HasRecord(tailRecords, backend, p)

\* Part 1 and part 2 together, whatever the tables hold.
LEMMA WeighedNowTable ==
  ASSUME TypeOK, NEW r, Addable(r), NEW e \in BOOLEAN
  PROVE  LET U == UpdatedNow(r, e)
             w == WeighedNow(r, e)
         IN  /\ TableOK(w)
             /\ DOMAIN w = DOMAIN tailRecords \cup {r}
             /\ U \subseteq DOMAIN tailRecords
             /\ \A x \in U : ProducerPrefix(x) # ProducerPrefix(r)
             /\ ~ e => U = {}
             /\ w[r].refSet = {} /\ w[r].recordEndorseVerified = e
<1> DEFINE i == InsertedNow(r, e)
           U == UpdatedNow(r, e)
           w == WeighedNow(r, e)
<1>1. /\ TableOK(tailRecords) /\ now \in Nat
      /\ r \in Record /\ r \notin DOMAIN tailRecords
  BY DEF TypeOK, TailRecordsOK, TableOK, Addable, Seen, SeenRecord
<1>2. TableOK(i) /\ DOMAIN i = DOMAIN tailRecords \cup {r}
  BY <1>1, InsertedTable DEF InsertedNow
<1>3. i[r].refSet = {} /\ i[r].recordEndorseVerified = e
  BY <1>1 DEF InsertedNow, Inserted
<1>4. U = UpdatedRecords(i, r) /\ w = Weighed(i, r, U)
  BY DEF UpdatedNow, WeighedNow
<1> HIDE DEF i, U, w
<1>5. U \subseteq Open(i, r)
  BY <1>4, UpdatedFacts
<1>6. /\ U \subseteq DOMAIN i
      /\ \A x \in U : ProducerPrefix(x) # ProducerPrefix(r)
  BY <1>5 DEF Open
<1>7. ~ e => U = {}
  BY <1>3, <1>4, UpdatedFacts
<1>8. /\ TableOK(w) /\ DOMAIN w = DOMAIN i
      /\ \A x \in DOMAIN i :
           /\ w[x].recordEndorseVerified = i[x].recordEndorseVerified
           /\ w[x].refSet =
                IF x \in U THEN i[x].refSet \cup {ProducerPrefix(r)} ELSE i[x].refSet
  <2>1. w = Weighed(i, r, U)
    BY <1>4
  <2> QED BY <1>1, <1>2, <2>1, WeighedTable
<1>9. r \notin U
  BY <1>6
<1>10. U \subseteq DOMAIN tailRecords
  BY <1>2, <1>6, <1>9
<1>11. /\ TableOK(w)
       /\ DOMAIN w = DOMAIN tailRecords \cup {r}
       /\ U \subseteq DOMAIN tailRecords
       /\ \A x \in U : ProducerPrefix(x) # ProducerPrefix(r)
       /\ ~ e => U = {}
       /\ w[r].refSet = {} /\ w[r].recordEndorseVerified = e
  BY <1>2, <1>3, <1>6, <1>7, <1>8, <1>9, <1>10
<1> QED BY <1>11 DEF U, w

\* They keep LinkInv; what is updated is endorsed.
LEMMA WeighedNowLink ==
  ASSUME TypeOK, LinkInv(tailRecords, backend), NEW r, Addable(r), NEW e \in BOOLEAN
  PROVE  LET U == UpdatedNow(r, e)
             w == WeighedNow(r, e)
         IN  /\ \A x \in U : w[x].recordEndorseVerified
             /\ LinkInv(w, backend \cup Confirmed(w, U))
<1> DEFINE i == InsertedNow(r, e)
           U == UpdatedNow(r, e)
           w == WeighedNow(r, e)
<1>1. /\ TableOK(tailRecords) /\ now \in Nat
      /\ r \in Record /\ r \notin DOMAIN tailRecords /\ r \notin backend
  BY DEF TypeOK, TailRecordsOK, TableOK, Addable, Seen, SeenRecord
<1>2. LinkInv(i, backend)
  BY <1>1, InsertedInv DEF Addable, InsertedNow
<1>3. TableOK(i) /\ DOMAIN i = DOMAIN tailRecords \cup {r}
  BY <1>1, InsertedTable DEF InsertedNow
<1>4. U = UpdatedRecords(i, r) /\ w = Weighed(i, r, U)
  BY DEF UpdatedNow, WeighedNow
<1> HIDE DEF i, U, w
<1>5. \A x \in U : x \in DOMAIN i /\ i[x].recordEndorseVerified
  BY <1>2, <1>3, <1>4, UpdatedEndorsed, LinkInvParts
<1>6. LinkInv(w, backend \cup Confirmed(w, U))
  BY <1>2, <1>3, <1>4, WeighedLink
<1>7. \A x \in DOMAIN i : w[x].recordEndorseVerified = i[x].recordEndorseVerified
  BY <1>1, <1>3, <1>4, WeighedVerdict
<1>8. \A x \in U : w[x].recordEndorseVerified
  BY <1>5, <1>7
<1> QED BY <1>6, <1>8 DEF U, w

LEMMA WeighedNowFacts ==
  ASSUME TypeOK, TailInv(tailRecords, backend), NEW r, Addable(r), NEW e \in BOOLEAN
  PROVE  LET U == UpdatedNow(r, e)
             w == WeighedNow(r, e)
         IN  /\ TableOK(w)
             /\ DOMAIN w = DOMAIN tailRecords \cup {r}
             /\ U \subseteq DOMAIN tailRecords
             /\ \A x \in U : w[x].recordEndorseVerified /\ ProducerPrefix(x) # ProducerPrefix(r)
             /\ ~ e => U = {}
             /\ w[r].refSet = {} /\ w[r].recordEndorseVerified = e
             /\ TailInv(w, backend \cup Confirmed(w, U))
<1> DEFINE i == InsertedNow(r, e)
           U == UpdatedNow(r, e)
           w == WeighedNow(r, e)
<1>1. /\ TableOK(tailRecords) /\ now \in Nat
      /\ r \in Record /\ r \notin DOMAIN tailRecords /\ r \notin backend
      /\ LinkInv(tailRecords, backend) /\ Closed(backend)
      /\ \A c \in DOMAIN tailRecords : Approves(tailRecords, c)
  BY LinkInvParts DEF TypeOK, TailRecordsOK, TableOK, Addable, Seen, SeenRecord
<1>2. LinkInv(i, backend) /\ \A c \in DOMAIN tailRecords : Approves(i, c)
  BY <1>1, InsertedInv DEF Addable, InsertedNow
<1>3. TableOK(i) /\ DOMAIN i = DOMAIN tailRecords \cup {r}
  BY <1>1, InsertedTable DEF InsertedNow
<1>4. i[r].refSet = {}
  BY <1>1 DEF InsertedNow, Inserted
<1>5. U = UpdatedRecords(i, r) /\ w = Weighed(i, r, U)
  BY DEF UpdatedNow, WeighedNow
<1> HIDE DEF i
<1>6. TailInv(w, backend \cup Confirmed(w, U))
  <2> HIDE DEF U, w
  <2> QED BY <1>1, <1>2, <1>3, <1>4, <1>5, WeighedInv
<1>7. \A x \in U : w[x].recordEndorseVerified
  BY <1>1, WeighedNowLink
<1>8. /\ TableOK(w)
      /\ DOMAIN w = DOMAIN tailRecords \cup {r}
      /\ U \subseteq DOMAIN tailRecords
      /\ \A x \in U : ProducerPrefix(x) # ProducerPrefix(r)
      /\ ~ e => U = {}
      /\ w[r].refSet = {} /\ w[r].recordEndorseVerified = e
  BY WeighedNowTable
<1> HIDE DEF U, w
<1>9. /\ TableOK(w)
      /\ DOMAIN w = DOMAIN tailRecords \cup {r}
      /\ U \subseteq DOMAIN tailRecords
      /\ \A x \in U : w[x].recordEndorseVerified /\ ProducerPrefix(x) # ProducerPrefix(r)
      /\ ~ e => U = {}
      /\ w[r].refSet = {} /\ w[r].recordEndorseVerified = e
      /\ TailInv(w, backend \cup Confirmed(w, U))
  BY <1>6, <1>7, <1>8
<1> QED BY <1>9 DEF U, w

\* What part 2 adds to a tailing record's approvers.
LEMMA WeighedNowRefSets ==
  ASSUME TypeOK, NEW r, Addable(r), NEW e \in BOOLEAN, NEW x \in DOMAIN tailRecords
  PROVE  /\ x \in UpdatedNow(r, e) => WeighedNow(r, e)[x].refSet
                                       = tailRecords[x].refSet \cup {ProducerPrefix(r)}
         /\ x \notin UpdatedNow(r, e) => WeighedNow(r, e)[x].refSet = tailRecords[x].refSet
<1> DEFINE i == InsertedNow(r, e)
           U == UpdatedNow(r, e)
<1>1. /\ TableOK(tailRecords) /\ now \in Nat
      /\ r \in Record /\ r \notin DOMAIN tailRecords
  BY DEF TypeOK, TailRecordsOK, TableOK, Addable, Seen, SeenRecord
<1>2. TableOK(i) /\ DOMAIN i = DOMAIN tailRecords \cup {r}
  BY <1>1, InsertedTable DEF InsertedNow
<1>3. i[x] = tailRecords[x]
  BY <1>1 DEF InsertedNow, Inserted
<1>4. WeighedNow(r, e) = Weighed(i, r, U)
  BY DEF WeighedNow
<1> HIDE DEF i, U
<1>5. Weighed(i, r, U)[x].refSet =
        IF x \in U THEN i[x].refSet \cup {ProducerPrefix(r)} ELSE i[x].refSet
  BY <1>1, <1>2, WeighedRefSet
<1> QED BY <1>3, <1>4, <1>5 DEF U

LEMMA WeighedNowEndorsed ==
  ASSUME TypeOK, NEW r, Addable(r), NEW e \in BOOLEAN, NEW x \in DOMAIN tailRecords
  PROVE  WeighedNow(r, e)[x].recordEndorseVerified = tailRecords[x].recordEndorseVerified
<1> DEFINE i == InsertedNow(r, e)
           U == UpdatedNow(r, e)
<1>1. /\ TableOK(tailRecords) /\ now \in Nat
      /\ r \in Record /\ r \notin DOMAIN tailRecords
  BY DEF TypeOK, TailRecordsOK, TableOK, Addable, Seen, SeenRecord
<1>2. TableOK(i) /\ DOMAIN i = DOMAIN tailRecords \cup {r}
  BY <1>1, InsertedTable DEF InsertedNow
<1>3. i[x] = tailRecords[x]
  BY <1>1 DEF InsertedNow, Inserted
<1>4. WeighedNow(r, e) = Weighed(i, r, U)
  BY DEF WeighedNow
<1> HIDE DEF i, U
<1>5. Weighed(i, r, U)[x].recordEndorseVerified = i[x].recordEndorseVerified
  BY <1>1, <1>2, WeighedVerdict
<1> QED BY <1>3, <1>4, <1>5

\* Parts 3 to 5, whatever the tables hold: the new table is a part of the one
\* after part 2, but that confirmed records are marked as verified.
LEMMA SettledPart ==
  ASSUME NEW w, TableOK(w), NEW U \in SUBSET DOMAIN w
  PROVE  LET s == Settled(w, U)
         IN  /\ TableOK(s)
             /\ DOMAIN s = DOMAIN w \ {y \in U : Weight(w, y) >= removeWeight}
             /\ \A x \in DOMAIN s :
                  /\ s[x].refSet = w[x].refSet
                  /\ s[x].recordEndorseVerified = w[x].recordEndorseVerified
                  /\ x \notin Confirmed(w, U) => s[x] = w[x]
<1> DEFINE s == Settled(w, U)
           K == DOMAIN w \ {y \in U : Weight(w, y) >= removeWeight}
           C == Confirmed(w, U)
<1>1. s = [x \in K |-> IF x \in U /\ Weight(w, x) = confirmWeight
                         THEN [w[x] EXCEPT !.parentEndorseVerified = TRUE] ELSE w[x]]
  BY DEF Settled
<1>2. \A x \in DOMAIN w : x \in C <=> x \in U /\ Weight(w, x) = confirmWeight
  BY DEF Confirmed
<1> HIDE DEF K, s, C
<1>3. DOMAIN s = K /\ K \subseteq DOMAIN w
  BY <1>1 DEF K
<1>4. ASSUME NEW x \in K
      PROVE  /\ s[x] \in TailingRecordState
             /\ s[x].refSet = w[x].refSet
             /\ s[x].recordEndorseVerified = w[x].recordEndorseVerified
             /\ x \notin C => s[x] = w[x]
  <2>1. w[x] \in TailingRecordState
    BY <1>3 DEF TableOK
  <2>2. s[x] = IF x \in C THEN [w[x] EXCEPT !.parentEndorseVerified = TRUE] ELSE w[x]
    BY <1>1, <1>2, <1>3
  <2> QED BY <2>1, <2>2 DEF TailingRecordState
<1>5. TableOK(s)
  <2>1. s \in [K -> TailingRecordState]
    BY <1>1, <1>4
  <2> QED BY <1>3, <2>1 DEF TableOK
<1>6. DOMAIN s = DOMAIN w \ {y \in U : Weight(w, y) >= removeWeight}
  BY <1>3 DEF K
<1> QED BY <1>3, <1>4, <1>5, <1>6 DEF s, C

LEMMA WritePart ==
  ASSUME TypeOK, NEW r, Addable(r), NEW e \in BOOLEAN, NEW W, AddWriting(r, e, W)
  PROVE  LET U == UpdatedNow(r, e)
             w == WeighedNow(r, e)
             s == SettledNow(r, e)
         IN  /\ TableOK(tailRecords')
             /\ DOMAIN s = DOMAIN w \ {y \in U : Weight(w, y) >= removeWeight}
             /\ DOMAIN tailRecords' \subseteq DOMAIN s
             /\ \A x \in DOMAIN tailRecords' :
                  /\ tailRecords'[x].refSet = w[x].refSet
                  /\ tailRecords'[x].recordEndorseVerified = w[x].recordEndorseVerified
                  /\ x \notin Confirmed(w, U) => tailRecords'[x] = w[x]
                  /\ PointersFromHeader(x) \cap DOMAIN s \subseteq DOMAIN tailRecords'
<1> DEFINE U == UpdatedNow(r, e)
           w == WeighedNow(r, e)
           s == SettledNow(r, e)
           C == Confirmed(w, U)
<1>1. /\ TableOK(w) /\ DOMAIN w = DOMAIN tailRecords \cup {r}
      /\ U \subseteq DOMAIN tailRecords
  BY WeighedNowTable
<1>2. s = Settled(w, U)
  BY DEF SettledNow
<1>3. tailRecords' = RemoveTimeoutRecords(s, now)
  BY WriteDefinition
<1> HIDE DEF U, w, s
<1>4. U \in SUBSET DOMAIN w
  BY <1>1
<1>5. /\ TableOK(s)
      /\ DOMAIN s = DOMAIN w \ {y \in U : Weight(w, y) >= removeWeight}
      /\ \A x \in DOMAIN s :
           /\ s[x].refSet = w[x].refSet
           /\ s[x].recordEndorseVerified = w[x].recordEndorseVerified
           /\ x \notin C => s[x] = w[x]
  BY <1>1, <1>2, <1>4, SettledPart
<1> HIDE DEF C
<1>6. /\ TableOK(tailRecords')
      /\ DOMAIN tailRecords' \subseteq DOMAIN s
      /\ \A x \in DOMAIN tailRecords' : tailRecords'[x] = s[x]
      /\ \A x \in DOMAIN tailRecords' :
            PointersFromHeader(x) \cap DOMAIN s \subseteq DOMAIN tailRecords'
  BY <1>3, <1>5, RemoveTimeoutPart
<1>7. ASSUME NEW x \in DOMAIN tailRecords'
      PROVE  /\ tailRecords'[x].refSet = w[x].refSet
             /\ tailRecords'[x].recordEndorseVerified = w[x].recordEndorseVerified
             /\ x \notin C => tailRecords'[x] = w[x]
             /\ PointersFromHeader(x) \cap DOMAIN s \subseteq DOMAIN tailRecords'
  BY <1>5, <1>6
<1> QED BY <1>5, <1>6, <1>7 DEF U, w, s, C

\* What addToTailingRecord leaves seen: what was, and the record.
LEMMA WriteDomains ==
  ASSUME TypeOK, NEW r, Addable(r), NEW e \in BOOLEAN, NEW W, AddWriting(r, e, W)
  PROVE  /\ DOMAIN tailRecords' \subseteq DOMAIN tailRecords \cup {r}
         /\ backend \subseteq backend'
         /\ backend' \subseteq backend \cup DOMAIN tailRecords
         /\ Confirmed(WeighedNow(r, e), UpdatedNow(r, e)) \subseteq DOMAIN tailRecords
<1>1. DOMAIN tailRecords' \subseteq DOMAIN tailRecords \cup {r}
  <2>1. DOMAIN WeighedNow(r, e) = DOMAIN tailRecords \cup {r}
    BY WeighedNowTable
  <2>2. DOMAIN tailRecords' \subseteq DOMAIN WeighedNow(r, e)
    BY WritePart
  <2> QED BY <2>1, <2>2
<1>2. backend' = backend \cup (Confirmed(WeighedNow(r, e), UpdatedNow(r, e)) \ W)
  BY WriteDefinition DEF OnRecordsConfirmed
<1>3. Confirmed(WeighedNow(r, e), UpdatedNow(r, e)) \subseteq DOMAIN tailRecords
  BY WeighedNowTable DEF Confirmed
<1> QED BY <1>1, <1>2, <1>3

\* The certificate tables and the history variables keep their types.
LEMMA WriteTypes ==
  ASSUME TypeOK, NEW r, Addable(r), NEW e \in BOOLEAN, NEW W, AddWriting(r, e, W)
  PROVE  /\ TailRecordsOK'
         /\ backend' \in SUBSET Record
         /\ lastCertRecords' \in SUBSET Record
         /\ peerCertificates' \in SUBSET Cert
         /\ revokedCertificates' \in SUBSET Cert
         /\ admitted' \in SUBSET Record
         /\ timedOut' \in SUBSET Record
         /\ fault' \in BOOLEAN
<1> DEFINE R == Confirmed(WeighedNow(r, e), UpdatedNow(r, e))
<1>1. /\ TableOK(tailRecords) /\ r \in Record /\ backend \in SUBSET Record
      /\ lastCertRecords \in SUBSET Record
      /\ peerCertificates \in SUBSET Cert /\ revokedCertificates \in SUBSET Cert
      /\ admitted \in SUBSET Record /\ timedOut \in SUBSET Record
  BY DEF TypeOK, TailRecordsOK, TableOK, Addable
<1>2. TailRecordsOK'
  BY WritePart DEF TailRecordsOK, TableOK
<1>3. R \subseteq Record
  BY <1>1, WriteDomains DEF TableOK
<1>4. OnRecordsConfirmed(R, W)
  BY WriteDefinition
<1> HIDE DEF R
<1>5. backend' \in SUBSET Record
  BY <1>1, <1>3, <1>4 DEF OnRecordsConfirmed
<1>6. lastCertRecords' \in SUBSET Record
  BY <1>1, <1>3, <1>4 DEF OnRecordsConfirmed, LastCertsAfter
<1>7. peerCertificates' \in SUBSET Cert
  BY <1>1, <1>3, <1>4, CertificateFields DEF OnRecordsConfirmed, CertsAfter
<1>8. revokedCertificates' \in SUBSET Cert
  BY <1>1, <1>3, <1>4, CertificateFields DEF OnRecordsConfirmed, RevokedAfter
<1>9. admitted' \in SUBSET Record
  <2>1. admitted' = IF e THEN admitted \cup {r} ELSE admitted
    BY WriteDefinition
  <2> QED BY <1>1, <2>1
<1>10. DOMAIN SettledNow(r, e) \subseteq Record
  <2>1. DOMAIN SettledNow(r, e) =
          DOMAIN WeighedNow(r, e)
            \ {y \in UpdatedNow(r, e) : Weight(WeighedNow(r, e), y) >= removeWeight}
    BY WritePart
  <2>2. TableOK(WeighedNow(r, e))
    BY WeighedNowTable
  <2> QED BY <2>1, <2>2 DEF TableOK
<1>11. timedOut' \in SUBSET Record
  BY <1>1, <1>10, WriteDefinition
<1>12. fault' \in BOOLEAN
  <2>1. fault' = NullDereference(WeighedNow(r, e), r, UpdatedNow(r, e))
    BY WriteDefinition
  <2> QED BY <2>1 DEF NullDereference
<1> QED BY <1>2, <1>5, <1>6, <1>7, <1>8, <1>9, <1>11, <1>12

\* With LinkInv, parts 3 to 5 keep it, and the traversal and part 4
\* dereference only verified records.
LEMMA LinkOutcome ==
  ASSUME TypeOK, LinkInv(tailRecords, backend), NEW r, Addable(r), NEW e \in BOOLEAN,
         AddToTailingRecord(r, e)
  PROVE  LinkInv(tailRecords', backend') /\ fault' = FALSE
<1> DEFINE U == UpdatedNow(r, e)
           w == WeighedNow(r, e)
           s == SettledNow(r, e)
           b == backend \cup Confirmed(w, U)
<1>1. /\ TableOK(w)
      /\ DOMAIN w = DOMAIN tailRecords \cup {r}
      /\ U \subseteq DOMAIN tailRecords
  BY WeighedNowTable
<1>2. LinkInv(w, b) /\ \A x \in U : w[x].recordEndorseVerified
  BY WeighedNowLink
<1>3. s = Settled(w, U)
  BY DEF SettledNow
<1>4. /\ tailRecords' = RemoveTimeoutRecords(s, now)
      /\ fault' = NullDereference(w, r, U)
  BY AddDefinition
<1>5. backend' = b
  BY AddDefinition DEF OnRecordsConfirmed
<1> HIDE DEF U, w, s, b
<1>6. U \in SUBSET DOMAIN w
  BY <1>1
<1>7. TableOK(s) /\ LinkInv(s, b)
  BY <1>1, <1>2, <1>3, <1>6, SettledInv
<1>8. LinkInv(tailRecords', backend')
  BY <1>4, <1>5, <1>7, RemoveTimeoutInv
<1>9. \A x \in DOMAIN w : w[x].parentEndorseVerified = w[x].recordEndorseVerified
  BY <1>2, LinkInvParts DEF RecordInv
<1>10. \A x \in U : w[x].parentEndorseVerified
  BY <1>2, <1>6, <1>9
<1>11. w[r].recordEndorseVerified => w[r].parentEndorseVerified
  BY <1>1, <1>9
<1>12. ~ NullDereference(w, r, U)
  BY <1>10, <1>11 DEF NullDereference, Confirmed
<1> QED BY <1>4, <1>8, <1>12 DEF NullDereference

\* With TailInv, they keep it, and a record that is not kept is heavy enough
\* to remove or too light to be confirmed.
LEMMA TailOutcome ==
  ASSUME TypeOK, TailInv(tailRecords, backend), NEW r, Addable(r), NEW e \in BOOLEAN,
         AddToTailingRecord(r, e)
  PROVE  /\ TableOK(tailRecords')
         /\ TailInv(tailRecords', backend')
         /\ DOMAIN tailRecords' \subseteq DOMAIN WeighedNow(r, e)
         /\ \A x \in DOMAIN tailRecords' : tailRecords'[x] = WeighedNow(r, e)[x]
         /\ \A x \in DOMAIN WeighedNow(r, e) \ DOMAIN tailRecords' :
               \/ Weight(WeighedNow(r, e), x) >= removeWeight
               \/ Weight(WeighedNow(r, e), x) < confirmWeight
<1> DEFINE U == UpdatedNow(r, e)
           w == WeighedNow(r, e)
           s == SettledNow(r, e)
           b == backend \cup Confirmed(w, U)
           deep == {y \in U : Weight(w, y) >= removeWeight}
<1>1. /\ TableOK(w) /\ TailInv(w, b) /\ LinkInv(w, b)
      /\ DOMAIN w = DOMAIN tailRecords \cup {r}
      /\ U \subseteq DOMAIN tailRecords
      /\ \A x \in U : w[x].recordEndorseVerified
  BY WeighedNowFacts, LinkInvParts
<1>2. s = Settled(w, U)
  BY DEF SettledNow
<1>3. tailRecords' = RemoveTimeoutRecords(s, now)
  BY AddDefinition
<1>4. backend' = b
  BY AddDefinition DEF OnRecordsConfirmed
<1> HIDE DEF U, w, s, b
<1>5. U \in SUBSET DOMAIN w
  BY <1>1
<1>6. TableOK(s) /\ LinkInv(s, b) /\ TailInv(s, b)
  BY <1>1, <1>2, <1>5, SettledInv
<1>7. s = [x \in DOMAIN w \ deep |-> w[x]]
  <2>1. \A x \in U : w[x].parentEndorseVerified
    BY <1>1, <1>5, LinkInvParts DEF RecordInv
  <2> QED BY <1>1, <1>2, <1>5, <2>1, SettledIsRestriction
<1>8. TailInv(tailRecords', backend')
  BY <1>3, <1>4, <1>6, RemoveTimeoutInv
<1>9. /\ TableOK(tailRecords')
      /\ DOMAIN tailRecords' \subseteq DOMAIN s
      /\ \A x \in DOMAIN tailRecords' : tailRecords'[x] = s[x]
  BY <1>3, <1>6, RemoveTimeoutPart
<1>10. \A x \in DOMAIN s \ DOMAIN tailRecords' : Weight(s, x) < confirmWeight
  <2>1. DOMAIN s \ DOMAIN tailRecords' \subseteq Removed(s, now)
    BY <1>3 DEF RemoveTimeoutRecords
  <2>2. \A x \in Removed(s, now) : Weight(s, x) < confirmWeight
    BY <1>6, RemovedAreLight
  <2> QED BY <2>1, <2>2
<1>11. /\ DOMAIN s = DOMAIN w \ deep
       /\ \A x \in DOMAIN s : s[x] = w[x] /\ Weight(s, x) = Weight(w, x)
  BY <1>7 DEF Weight
<1>12. /\ DOMAIN tailRecords' \subseteq DOMAIN w
       /\ \A x \in DOMAIN tailRecords' : tailRecords'[x] = w[x]
  BY <1>9, <1>11
<1>13. ASSUME NEW x \in DOMAIN w \ DOMAIN tailRecords'
       PROVE  Weight(w, x) >= removeWeight \/ Weight(w, x) < confirmWeight
  BY <1>10, <1>11
<1> QED BY <1>8, <1>9, <1>12, <1>13 DEF w

-----------------------------------------------------------------------------
(***************************************************************************)
(* Approvals.                                                              *)
(***************************************************************************)

\* The traversal reaches ancestors only.
LEMMA UpdatedAreAncestors ==
  ASSUME NEW t, NEW r \in Record
  PROVE  \A x \in UpdatedRecords(t, r) : x \in AncestorsOf[r]
<1> DEFINE reached == {x \in Open(t, r) : x \in AncestorsOf[r]}
<1>1. PointersFromHeader(r) \subseteq AncestorsOf[r]
  BY AncestorsUnfold
<1>2. \A x \in AncestorsOf[r] : PointersFromHeader(x) \subseteq AncestorsOf[r]
  BY AncestorsClosed
<1>3. TraversalClosed(Open(t, r), r, reached)
  BY <1>1, <1>2 DEF TraversalClosed
<1>4. reached \in SUBSET Open(t, r)
  OBVIOUS
<1> HIDE DEF reached
<1>5. UpdatedRecords(t, r) \subseteq reached
  BY <1>3, <1>4, UpdatedFacts
<1> QED BY <1>5 DEF reached

\* Approvals only grow; there are finitely many.
LEMMA ApprovalsGrow ==
  ASSUME TypeOK, admitted \subseteq admitted', admitted' \in SUBSET Record, NEW x
  PROVE  /\ Approvals(x) \subseteq Approvals(x)'
         /\ IsFiniteSet(Approvals(x)')
         /\ Cardinality(Approvals(x)) \in Nat
         /\ Cardinality(Approvals(x)') \in Nat
         /\ Cardinality(Approvals(x)) <= Cardinality(Approvals(x)')
<1>1. Approvals(x) \subseteq Approvals(x)'
  BY DEF Approvals
<1>2. Approvals(x)' \subseteq Peer
  BY FieldTypes DEF Approvals
<1>3. IsFiniteSet(Approvals(x)')
  BY <1>2, DataAssumption, FS_Subset
<1>4. IsFiniteSet(Approvals(x)) /\ Cardinality(Approvals(x)) <= Cardinality(Approvals(x)')
  BY <1>1, <1>3, FS_Subset
<1> QED BY <1>1, <1>3, <1>4, FS_CardinalityType

\* A set of approvals is no larger than all of them.
LEMMA ApprovalsBound ==
  ASSUME admitted' \in SUBSET Record, NEW x, NEW S, S \subseteq Approvals(x)'
  PROVE  /\ Cardinality(S) \in Nat
         /\ Cardinality(Approvals(x)') \in Nat
         /\ Cardinality(S) <= Cardinality(Approvals(x)')
<1>1. Approvals(x)' \subseteq Peer
  BY FieldTypes DEF Approvals
<1>2. IsFiniteSet(Approvals(x)')
  BY <1>1, DataAssumption, FS_Subset
<1> QED BY <1>2, FS_Subset, FS_CardinalityType

\* What part 2 counts are approvals: the new record's producer approves what
\* the traversal reaches.
LEMMA WeighedApproved ==
  ASSUME TypeOK, \A x \in DOMAIN tailRecords : tailRecords[x].refSet \subseteq Approvals(x),
         NEW r, Addable(r), NEW e \in BOOLEAN,
         admitted' = IF e THEN admitted \cup {r} ELSE admitted
  PROVE  /\ admitted \subseteq admitted' /\ admitted' \in SUBSET Record
         /\ \A x \in DOMAIN WeighedNow(r, e) : WeighedNow(r, e)[x].refSet \subseteq Approvals(x)'
<1> DEFINE U == UpdatedNow(r, e)
           w == WeighedNow(r, e)
<1>1. /\ DOMAIN w = DOMAIN tailRecords \cup {r}
      /\ \A x \in U : ProducerPrefix(x) # ProducerPrefix(r)
      /\ ~ e => U = {}
      /\ w[r].refSet = {}
  BY WeighedNowTable
<1>2. \A x \in DOMAIN tailRecords :
        /\ x \in U => w[x].refSet = tailRecords[x].refSet \cup {ProducerPrefix(r)}
        /\ x \notin U => w[x].refSet = tailRecords[x].refSet
  BY WeighedNowRefSets
<1>3. r \in Record
  BY DEF Addable
<1>4. admitted \subseteq admitted' /\ admitted' \in SUBSET Record
  BY <1>3 DEF TypeOK
<1>5. \A x \in U : x \in AncestorsOf[r]
  BY <1>3, UpdatedAreAncestors DEF UpdatedNow
<1> HIDE DEF U, w
<1>6. ASSUME NEW x \in U PROVE ProducerPrefix(r) \in Approvals(x)'
  <2>1. r \in admitted'
    BY <1>1
  <2> QED BY <1>1, <1>5, <2>1 DEF Approvals
<1>7. ASSUME NEW x \in DOMAIN w PROVE w[x].refSet \subseteq Approvals(x)'
  <2>1. CASE x \in DOMAIN tailRecords
    <3>1. tailRecords[x].refSet \subseteq Approvals(x)'
      BY <1>4, <2>1, ApprovalsGrow
    <3> QED BY <1>2, <1>6, <2>1, <3>1
  <2>2. CASE x = r
    BY <1>1, <2>2
  <2> QED BY <1>1, <2>1, <2>2
<1> QED BY <1>4, <1>7 DEF w

\* A record with confirmWeight approvals keeps them.
LEMMA ApprovalsStay ==
  ASSUME TypeOK, admitted \subseteq admitted', admitted' \in SUBSET Record,
         NEW x, Cardinality(Approvals(x)) >= confirmWeight
  PROVE  Cardinality(Approvals(x)') >= confirmWeight
<1>1. /\ Cardinality(Approvals(x)) \in Nat /\ Cardinality(Approvals(x)') \in Nat
      /\ Cardinality(Approvals(x)) <= Cardinality(Approvals(x)')
  BY ApprovalsGrow
<1> QED BY <1>1, WeightAssumption

\* The records confirmed now are approved by the confirmWeight producers of
\* their refSet.
LEMMA ConfirmedApproved ==
  ASSUME TypeOK, \A x \in DOMAIN tailRecords : tailRecords[x].refSet \subseteq Approvals(x),
         NEW r, Addable(r), NEW e \in BOOLEAN,
         admitted' = IF e THEN admitted \cup {r} ELSE admitted
  PROVE  \A x \in Confirmed(WeighedNow(r, e), UpdatedNow(r, e)) :
            Cardinality(Approvals(x)') >= confirmWeight
<1> DEFINE w == WeighedNow(r, e)
<1> SUFFICES ASSUME NEW x \in Confirmed(w, UpdatedNow(r, e))
             PROVE  Cardinality(Approvals(x)') >= confirmWeight
  OBVIOUS
<1>1. /\ admitted' \in SUBSET Record
      /\ \A y \in DOMAIN w : w[y].refSet \subseteq Approvals(y)'
  BY WeighedApproved
<1>2. x \in DOMAIN w /\ Weight(w, x) = confirmWeight
  BY WeighedNowTable DEF Confirmed
<1> HIDE DEF w
<1>3. /\ Cardinality(Approvals(x)') \in Nat
      /\ Weight(w, x) <= Cardinality(Approvals(x)')
  BY <1>1, <1>2, ApprovalsBound DEF Weight
<1> QED BY <1>2, <1>3, WeightAssumption

LEMMA WriteApprovals ==
  ASSUME TypeOK, \A x \in DOMAIN tailRecords : tailRecords[x].refSet \subseteq Approvals(x),
         NEW r, Addable(r), NEW e \in BOOLEAN, NEW W, AddWriting(r, e, W)
  PROVE  /\ admitted \subseteq admitted' /\ admitted' \in SUBSET Record
         /\ \A x \in DOMAIN tailRecords' : tailRecords'[x].refSet \subseteq Approvals(x)'
         /\ \A x \in Confirmed(WeighedNow(r, e), UpdatedNow(r, e)) :
               Cardinality(Approvals(x)') >= confirmWeight
<1> DEFINE w == WeighedNow(r, e)
<1>1. admitted' = IF e THEN admitted \cup {r} ELSE admitted
  BY WriteDefinition
<1>2. /\ admitted \subseteq admitted' /\ admitted' \in SUBSET Record
      /\ \A x \in DOMAIN w : w[x].refSet \subseteq Approvals(x)'
  BY <1>1, WeighedApproved
<1>3. /\ DOMAIN tailRecords' \subseteq DOMAIN w
      /\ \A x \in DOMAIN tailRecords' : tailRecords'[x].refSet = w[x].refSet
  BY WritePart
<1> HIDE DEF w
<1>4. \A x \in DOMAIN tailRecords' : tailRecords'[x].refSet \subseteq Approvals(x)'
  BY <1>2, <1>3
<1>5. \A x \in Confirmed(WeighedNow(r, e), UpdatedNow(r, e)) :
        Cardinality(Approvals(x)') >= confirmWeight
  BY <1>1, ConfirmedApproved
<1> QED BY <1>2, <1>4, <1>5

LEMMA AddApprovals ==
  ASSUME TypeOK, ApprovalInv, NEW r, Addable(r), NEW e \in BOOLEAN, AddToTailingRecord(r, e)
  PROVE  ApprovalInv'
<1> DEFINE C == Confirmed(WeighedNow(r, e), UpdatedNow(r, e))
<1>1. /\ admitted \subseteq admitted' /\ admitted' \in SUBSET Record
      /\ \A x \in DOMAIN tailRecords' : tailRecords'[x].refSet \subseteq Approvals(x)'
      /\ \A x \in C : Cardinality(Approvals(x)') >= confirmWeight
  BY WriteApprovals DEF ApprovalInv, AddToTailingRecord
<1>2. backend' = backend \cup C
  BY AddDefinition DEF OnRecordsConfirmed
<1> HIDE DEF C
<1>3. \A x \in backend : Cardinality(Approvals(x)') >= confirmWeight
  BY <1>1, ApprovalsStay DEF ApprovalInv, ConfirmedByK
<1> QED BY <1>1, <1>2, <1>3 DEF ApprovalInv, ConfirmedByK

-----------------------------------------------------------------------------
(***************************************************************************)
(* Stored records.                                                         *)
(***************************************************************************)

\* The traversal makes no record lighter.
LEMMA WeighedNowHeavier ==
  ASSUME TypeOK, TailInv(tailRecords, backend), NEW r, Addable(r), NEW e \in BOOLEAN,
         NEW x \in DOMAIN tailRecords
  PROVE  /\ x \in DOMAIN WeighedNow(r, e)
         /\ Weight(tailRecords, x) \in Nat /\ Weight(WeighedNow(r, e), x) \in Nat
         /\ Weight(tailRecords, x) <= Weight(WeighedNow(r, e), x)
<1> DEFINE w == WeighedNow(r, e)
<1>1. TableOK(w)
  BY WeighedNowFacts
<1>2. DOMAIN w = DOMAIN tailRecords \cup {r}
  BY WeighedNowFacts
<1>3. TableOK(tailRecords)
  BY DEF TypeOK, TailRecordsOK, TableOK
<1>4. tailRecords[x].refSet \subseteq w[x].refSet
  BY WeighedNowRefSets
<1> HIDE DEF w
<1>5. x \in DOMAIN w
  BY <1>2
<1>6. IsFiniteSet(w[x].refSet) /\ Weight(w, x) \in Nat
  BY <1>1, <1>5, StateFields
<1>7. Weight(tailRecords, x) \in Nat
  BY <1>3, StateFields
<1>8. Weight(tailRecords, x) <= Weight(w, x)
  BY <1>4, <1>6, FS_Subset DEF Weight
<1> QED BY <1>5, <1>6, <1>7, <1>8 DEF w

LEMMA AddStoredHeavy ==
  ASSUME TypeOK, TailInv(tailRecords, backend), StoredHeavy, restarts' = restarts,
         NEW r, Addable(r), NEW e \in BOOLEAN, AddToTailingRecord(r, e)
  PROVE  StoredHeavy'
<1> SUFFICES ASSUME restarts = 0, NEW x \in DOMAIN tailRecords', x \in backend'
             PROVE  Weight(tailRecords', x) >= confirmWeight
  BY DEF StoredHeavy, Weight
<1> DEFINE U == UpdatedNow(r, e)
           w == WeighedNow(r, e)
<1>1. tailRecords'[x] = w[x]
  BY TailOutcome
<1>2. OnRecordsConfirmed(Confirmed(w, U), {})
  BY AddDefinition
<1>3. x \in backend \/ x \in Confirmed(w, U)
  BY <1>2 DEF OnRecordsConfirmed
<1>4. x \in DOMAIN tailRecords \/ x = r
  BY WriteDomains DEF AddToTailingRecord
<1>5. CASE x \in backend
  <2>1. x \in DOMAIN tailRecords
    BY <1>4, <1>5 DEF Addable, Seen, SeenRecord
  <2>2. Weight(tailRecords, x) >= confirmWeight
    BY <1>5, <2>1 DEF StoredHeavy
  <2>3. /\ Weight(tailRecords, x) \in Nat /\ Weight(w, x) \in Nat
        /\ Weight(tailRecords, x) <= Weight(w, x)
    BY <2>1, WeighedNowHeavier
  <2>4. Weight(w, x) >= confirmWeight
    BY <2>2, <2>3, WeightAssumption
  <2> QED BY <1>1, <2>4 DEF Weight
<1>6. CASE x \in Confirmed(w, U)
  <2>1. Weight(w, x) = confirmWeight
    BY <1>6 DEF Confirmed
  <2>2. Weight(tailRecords', x) = Weight(w, x)
    BY <1>1 DEF Weight
  <2> QED BY <2>1, <2>2, WeightAssumption
<1> QED BY <1>3, <1>5, <1>6

\* A stored record that leaves the table is deep: it is too heavy to time out
\* with an ancestor.
LEMMA AddLeaveDeep ==
  ASSUME TypeOK, TailInv(tailRecords, backend), StoredHeavy, ApprovalInv, restarts = 0,
         NEW r, Addable(r), NEW e \in BOOLEAN, AddToTailingRecord(r, e),
         NEW x \in (DOMAIN tailRecords \cap backend) \ DOMAIN tailRecords'
  PROVE  Cardinality(Approvals(x)') >= removeWeight
<1> DEFINE w == WeighedNow(r, e)
<1>1. Weight(tailRecords, x) >= confirmWeight
  BY DEF StoredHeavy
<1>2. /\ x \in DOMAIN w
      /\ Weight(tailRecords, x) \in Nat /\ Weight(w, x) \in Nat
      /\ Weight(tailRecords, x) <= Weight(w, x)
  BY WeighedNowHeavier
<1>3. Weight(w, x) >= removeWeight \/ Weight(w, x) < confirmWeight
  BY <1>2, TailOutcome
<1>4. Weight(w, x) >= removeWeight
  BY <1>1, <1>2, <1>3, WeightAssumption
<1>5. w[x].refSet \subseteq Approvals(x)' /\ admitted' \in SUBSET Record
  BY <1>2, AddDefinition, WeighedApproved DEF ApprovalInv
<1>6. /\ Cardinality(Approvals(x)') \in Nat
      /\ Weight(w, x) <= Cardinality(Approvals(x)')
  BY <1>5, ApprovalsBound DEF Weight
<1> HIDE DEF w
<1> QED BY <1>2, <1>4, <1>6, RemoveWeightBound

-----------------------------------------------------------------------------
(***************************************************************************)
(* The sync stack.                                                         *)
(***************************************************************************)
StackEntry == [record : Record, addedTime : Nat]

LEMMA StackedRecords ==
  ASSUME LedgerInv, NEW i \in DOMAIN syncStack
  PROVE  syncStack[i].record \in Record
<1>1. syncStack \in Seq(StackEntry)
  BY DEF LedgerInv, TypeOK, StackEntry
<1>2. syncStack[i] \in StackEntry
  BY <1>1, ElementOfSeq, LenProperties
<1> QED BY <1>2 DEF StackEntry

\* Removing an entry moves the later ones down by one.
LEMMA RemoveAtFacts ==
  ASSUME NEW S, NEW s \in Seq(S), NEW k \in DOMAIN s
  PROVE  /\ RemoveAt(s, k) \in Seq(S)
         /\ Len(RemoveAt(s, k)) = Len(s) - 1
         /\ \A j \in 1 .. (Len(s) - 1) : RemoveAt(s, k)[j] = IF j < k THEN s[j] ELSE s[j + 1]
<1> DEFINE front == SubSeq(s, 1, k - 1)
           back  == SubSeq(s, k + 1, Len(s))
<1>1. Len(s) \in Nat /\ k \in 1 .. Len(s) /\ \A j \in 1 .. Len(s) : s[j] \in S
  BY LenProperties, ElementOfSeq
<1>2. /\ front \in Seq(S) /\ Len(front) = k - 1
      /\ \A j \in 1 .. (k - 1) : front[j] = s[j]
  BY <1>1, SubSeqProperties
<1>3. /\ back \in Seq(S) /\ Len(back) = Len(s) - k
      /\ \A j \in 1 .. (Len(s) - k) : back[j] = s[k + j]
  BY <1>1, SubSeqProperties
<1>4. RemoveAt(s, k) = front \o back
  BY DEF RemoveAt
<1> HIDE DEF front, back
<1>5. /\ front \o back \in Seq(S)
      /\ Len(front \o back) = Len(front) + Len(back)
      /\ \A j \in 1 .. (Len(front) + Len(back)) :
            (front \o back)[j] = IF j <= Len(front) THEN front[j] ELSE back[j - Len(front)]
  BY <1>2, <1>3, ConcatProperties
<1>6. Len(front) + Len(back) = Len(s) - 1
  BY <1>1, <1>2, <1>3
<1>7. ASSUME NEW j \in 1 .. (Len(s) - 1)
      PROVE  (front \o back)[j] = IF j < k THEN s[j] ELSE s[j + 1]
  <2>1. CASE j < k
    <3>1. j <= Len(front) /\ j \in 1 .. (k - 1)
      BY <1>1, <1>2, <2>1
    <3> QED BY <1>2, <1>5, <1>6, <2>1, <3>1
  <2>2. CASE ~ (j < k)
    <3>1. ~ (j <= Len(front)) /\ j - Len(front) \in 1 .. (Len(s) - k)
      BY <1>1, <1>2, <2>2
    <3>2. back[j - Len(front)] = s[k + (j - Len(front))]
      BY <1>3, <3>1
    <3>3. k + (j - Len(front)) = j + 1
      BY <1>1, <1>2
    <3> QED BY <1>5, <1>6, <2>2, <3>1, <3>2, <3>3
  <2> QED BY <2>1, <2>2
<1> QED BY <1>4, <1>5, <1>6, <1>7

\* An entry leaves the stack: the others are where they were or one lower.
LEMMA StackShrinks ==
  ASSUME TypeOK, StackInv, NEW k \in DOMAIN syncStack, syncStack' = RemoveAt(syncStack, k),
         \A x \in Record : SeenRecord(tailRecords', backend', x)
                             => Seen(x) \/ x = syncStack[k].record
  PROVE  /\ StackInv'
         /\ syncStack' \in Seq(StackEntry)
         /\ Stacked' \subseteq Stacked
<1> DEFINE from(j) == IF j < k THEN j ELSE j + 1
<1>1. syncStack \in Seq(StackEntry)
  BY DEF TypeOK, StackEntry
<1>2. /\ Len(syncStack) \in Nat /\ DOMAIN syncStack = 1 .. Len(syncStack)
      /\ \A j \in DOMAIN syncStack : syncStack[j] \in StackEntry
  BY <1>1, LenProperties, ElementOfSeq
<1>3. /\ syncStack' \in Seq(StackEntry)
      /\ Len(syncStack') = Len(syncStack) - 1
      /\ \A j \in 1 .. (Len(syncStack) - 1) :
            syncStack'[j] = IF j < k THEN syncStack[j] ELSE syncStack[j + 1]
  BY <1>1, RemoveAtFacts
<1>4. DOMAIN syncStack' = 1 .. (Len(syncStack) - 1)
  BY <1>3, LenProperties
<1>5. ASSUME NEW j \in DOMAIN syncStack'
      PROVE  /\ syncStack'[j] = syncStack[from(j)]
             /\ from(j) \in DOMAIN syncStack /\ from(j) # k
  BY <1>2, <1>3, <1>4
<1>6. ASSUME NEW i \in DOMAIN syncStack', NEW j \in DOMAIN syncStack', from(i) = from(j)
      PROVE  i = j
  BY <1>2, <1>4, <1>6
<1> HIDE DEF from
<1>7. ASSUME NEW j \in DOMAIN syncStack'
      PROVE  /\ ~ SeenRecord(tailRecords', backend', syncStack'[j].record)
             /\ Interlocked(syncStack'[j].record)
  <2>1. /\ ~ Seen(syncStack[from(j)].record) /\ Interlocked(syncStack[from(j)].record)
        /\ syncStack[from(j)].record # syncStack[k].record
    BY <1>5 DEF StackInv
  <2>2. syncStack[from(j)].record \in Record
    BY <1>2, <1>5 DEF StackEntry
  <2> QED BY <1>5, <2>1, <2>2
<1>8. ASSUME NEW i \in DOMAIN syncStack', NEW j \in DOMAIN syncStack',
             syncStack'[i].record = syncStack'[j].record
      PROVE  i = j
  BY <1>5, <1>6, <1>8 DEF StackInv
<1>9. StackInv'
  BY <1>7, <1>8 DEF StackInv, Seen
<1>10. Stacked' \subseteq Stacked
  BY <1>5 DEF Stacked
<1> QED BY <1>3, <1>9, <1>10

\* A record new to this peer and to the stack is stacked.
LEMMA StackGrows ==
  ASSUME TypeOK, StackInv, NEW r \in Record, ~ Seen(r), r \notin Stacked, Interlocked(r),
         syncStack' = Append(syncStack, [record |-> r, addedTime |-> now]),
         UNCHANGED <<tailRecords, backend>>
  PROVE  /\ StackInv'
         /\ syncStack' \in Seq(StackEntry)
         /\ Stacked' = Stacked \cup {r}
<1>1. syncStack \in Seq(StackEntry) /\ now \in Nat
  BY DEF TypeOK, StackEntry
<1>2. [record |-> r, addedTime |-> now] \in StackEntry
  BY <1>1 DEF StackEntry
<1>3. Len(syncStack) \in Nat /\ DOMAIN syncStack = 1 .. Len(syncStack)
  BY <1>1, LenProperties
<1>4. /\ syncStack' \in Seq(StackEntry)
      /\ DOMAIN syncStack' = 1 .. (Len(syncStack) + 1)
      /\ \A j \in DOMAIN syncStack : syncStack'[j] = syncStack[j]
      /\ syncStack'[Len(syncStack) + 1] = [record |-> r, addedTime |-> now]
  BY <1>1, <1>2, <1>3
<1>5. DOMAIN syncStack' = DOMAIN syncStack \cup {Len(syncStack) + 1}
  BY <1>3, <1>4
<1>6. syncStack'[Len(syncStack) + 1].record = r
  BY <1>4
<1>7. \A j \in DOMAIN syncStack : syncStack'[j].record = syncStack[j].record
                                  /\ syncStack[j].record # r
  BY <1>4 DEF Stacked
<1>8. ASSUME NEW j \in DOMAIN syncStack'
      PROVE  ~ Seen(syncStack'[j].record) /\ Interlocked(syncStack'[j].record)
  BY <1>5, <1>6, <1>7 DEF StackInv
<1>9. ASSUME NEW i \in DOMAIN syncStack', NEW j \in DOMAIN syncStack',
             syncStack'[i].record = syncStack'[j].record
      PROVE  i = j
  BY <1>5, <1>6, <1>7, <1>9 DEF StackInv
<1>10. StackInv'
  BY <1>8, <1>9 DEF StackInv, Seen
<1>11. Stacked' = Stacked \cup {r}
  BY <1>5, <1>6, <1>7 DEF Stacked
<1> QED BY <1>4, <1>10, <1>11

-----------------------------------------------------------------------------
(***************************************************************************)
(* The invariant.                                                          *)
(***************************************************************************)

\* The genesis records alone satisfy LinkInv, whatever is stored, and TailInv
\* if that is closed.
LEMMA GenesisTailInv ==
  ASSUME NEW time \in Nat, NEW b
  PROVE  /\ TableOK(GenesisTail(time))
         /\ LinkInv(GenesisTail(time), b)
         /\ Closed(b) => TailInv(GenesisTail(time), b)
<1> DEFINE t == GenesisTail(time)
           state == [parentEndorseVerified |-> TRUE, refSet |-> {},
                     recordEndorseVerified |-> TRUE, addedTime |-> time]
<1>0. /\ state \in TailingRecordState
      /\ state.refSet = {}
      /\ state.parentEndorseVerified = TRUE
      /\ state.recordEndorseVerified = TRUE
  BY DEF TailingRecordState
<1> HIDE DEF state
<1>1. DOMAIN t = GenesisRecords /\ \A g \in GenesisRecords : t[g] = state
  BY DEF GenesisTail, state
<1>2. GenesisRecords \subseteq Record
  BY DEF GenesisRecords
<1>3. \A g \in GenesisRecords : t[g] \in TailingRecordState
  BY <1>0, <1>1
<1>4. TableOK(t)
  <2>1. t \in [GenesisRecords -> TailingRecordState]
    BY <1>3 DEF GenesisTail
  <2> QED BY <1>1, <1>2, <2>1 DEF TableOK
<1>5. \A g \in GenesisRecords : PointersFromHeader(g) = {}
  BY GenesisAssumption DEF Named
<1> HIDE DEF t
<1>6. ASSUME NEW g \in DOMAIN t PROVE RecordInv(t, b, g)
  <2>1. t[g].refSet = {} /\ t[g].parentEndorseVerified /\ t[g].recordEndorseVerified
        /\ t[g].parentEndorseVerified = t[g].recordEndorseVerified
    BY <1>0, <1>1
  <2>2. ~ (Weight(t, g) >= confirmWeight)
    BY <2>1, FS_EmptySet, WeightAssumption DEF Weight
  <2>3. PointersFromHeader(g) = {}
    BY <1>1, <1>5
  <2> QED BY <2>1, <2>2, <2>3 DEF RecordInv, Interlocked
<1>7. ASSUME NEW g \in DOMAIN t PROVE PointsToEndorsed(t, g) /\ Approves(t, g)
  BY <1>1, <1>5 DEF PointsToEndorsed, Approves
<1>8. LinkInv(t, b) /\ (Closed(b) => TailInv(t, b))
  BY <1>6, <1>7, LinkInvParts
<1> QED BY <1>4, <1>8 DEF t

\* No genesis record is this peer's.
LEMMA GenesisByOthers ==
  ASSUME Self \in Member
  PROVE  \A g \in GenesisRecords : ProducerPrefix(g) # Self
  BY LedgerAssumption, PrefixAssumption

\* What the invariant says of the records still to be added; it holds whatever
\* the tables are.
QueueInv == TypeOK /\ StackInv /\ OwnAreCreated

LEMMA InitInv == Init => LedgerInv
<1> SUFFICES ASSUME Init PROVE LedgerInv
  OBVIOUS
<1> USE DEF Init
<1>1. TableOK(GenesisTail(0)) /\ TailInv(GenesisTail(0), {})
  <2>1. Closed({})
    BY DEF Closed
  <2> QED BY <2>1, GenesisTailInv
<1>2. TailRecordsOK
  BY <1>1 DEF TailRecordsOK, TableOK
<1>3. GenesisRecords \in SUBSET Record
  BY DEF GenesisRecords
<1>4. syncStack \in Seq(StackEntry) /\ DOMAIN syncStack = {}
  BY EmptySeq
<1>5. TypeOK
  BY <1>2, <1>3, <1>4, AnchorAssumption DEF TypeOK, StackEntry
<1>6. DOMAIN tailRecords = GenesisRecords
      /\ \A g \in DOMAIN tailRecords : tailRecords[g].refSet = {}
  BY DEF GenesisTail
<1>7. StoredHeavy
  BY DEF StoredHeavy
<1>8. StackInv
  BY <1>4 DEF StackInv
<1>9. OwnAreCreated
  BY <1>4, <1>6, GenesisByOthers DEF OwnAreCreated, Stacked
<1>10. ApprovalInv
  BY <1>6 DEF ApprovalInv, ConfirmedByK
<1>11. TailInv(tailRecords, backend)
  BY <1>1
<1> QED BY <1>5, <1>7, <1>8, <1>9, <1>10, <1>11 DEF LedgerInv, NoNullDereference

\* Adding a record keeps what the invariant says of the two tables.
LEMMA AddInv ==
  ASSUME LedgerInv, NEW r, Addable(r), NEW e \in BOOLEAN, AddToTailingRecord(r, e),
         restarts' = restarts
  PROVE  /\ TailInv(tailRecords', backend')
         /\ StoredHeavy'
         /\ ApprovalInv'
         /\ NoNullDereference'
<1>1. TypeOK /\ TailInv(tailRecords, backend) /\ StoredHeavy /\ ApprovalInv
  BY DEF LedgerInv
<1>2. TailInv(tailRecords', backend')
  BY <1>1, TailOutcome
<1>3. StoredHeavy'
  BY <1>1, AddStoredHeavy
<1>4. ApprovalInv'
  BY <1>1, AddApprovals
<1>5. NoNullDereference'
  BY <1>1, LinkInvParts, LinkOutcome DEF NoNullDereference
<1> QED BY <1>2, <1>3, <1>4, <1>5

\* What is seen after an addition was seen before or is the record.
LEMMA WriteSeen ==
  ASSUME TypeOK, NEW r, Addable(r), NEW e \in BOOLEAN, NEW W, AddWriting(r, e, W)
  PROVE  \A x : SeenRecord(tailRecords', backend', x) => Seen(x) \/ x = r
<1>1. /\ DOMAIN tailRecords' \subseteq DOMAIN tailRecords \cup {r}
      /\ backend' \subseteq backend \cup DOMAIN tailRecords
  BY WriteDomains
<1> QED BY <1>1 DEF Seen, SeenRecord

\* A record this peer makes may be added: it has not made it before.
LEMMA CanCreateAddable ==
  ASSUME QueueInv, NEW r \in Record, CanCreate(r)
  PROVE  Addable(r) /\ r \notin Stacked
<1>1. TypeOK /\ OwnAreCreated
  BY DEF QueueInv
<1>2. /\ ProducerPrefix(r) = Self /\ r \notin created
      /\ PointersFromHeader(r) \subseteq Appendable
  BY DEF CanCreate
<1>3. ~ Seen(r) /\ r \notin Stacked
  BY <1>1, <1>2 DEF OwnAreCreated, Seen, SeenRecord
<1>4. Interlocked(r)
  <2>1. Self \in Under[Self]
    BY <1>1, LedgerAssumption, PrefixAssumption DEF TypeOK
  <2> QED BY <1>2, <2>1 DEF Interlocked, Appendable
<1>5. \A p \in PointersFromHeader(r) : HasRecord(tailRecords, backend, p)
  BY <1>2 DEF Appendable, HasRecord
<1> QED BY <1>3, <1>4, <1>5 DEF Addable

LEMMA CreateRecordAddable ==
  ASSUME LedgerInv, NEW r \in Record, CreateRecord(r)
  PROVE  /\ Addable(r) /\ r \notin Stacked
         /\ AddToTailingRecord(r, TRUE)
         /\ restarts' = restarts
<1>1. QueueInv
  BY DEF LedgerInv, QueueInv
<1>2. CanCreate(r) /\ AddToTailingRecord(r, TRUE) /\ restarts' = restarts
  BY DEF CreateRecord, countVars
<1> QED BY <1>1, <1>2, CanCreateAddable

LEMMA CreateQueue ==
  ASSUME QueueInv, NEW r \in Record, CanCreate(r), NEW W, AddWriting(r, TRUE, W),
         created' = created \cup {r}, UNCHANGED <<Self, fetchVars, countVars>>
  PROVE  QueueInv'
<1>1. TypeOK /\ StackInv /\ OwnAreCreated
  BY DEF QueueInv
<1>2. UNCHANGED <<Self, syncStack, scan, pending, replySync, now, losses, restarts>>
  BY DEF fetchVars, countVars
<1>3. Addable(r) /\ ~ Seen(r) /\ r \notin Stacked
  BY CanCreateAddable DEF Addable
<1>4. \A x : SeenRecord(tailRecords', backend', x) => Seen(x) \/ x = r
  BY <1>1, <1>3, WriteSeen
<1>5. TypeOK'
  BY <1>1, <1>2, <1>3, WriteTypes DEF TypeOK
<1>6. StackInv'
  BY <1>1, <1>2, <1>3, <1>4 DEF StackInv, Seen, Stacked
<1>7. Stacked' = Stacked
  BY <1>2 DEF Stacked
<1>8. OwnAreCreated'
  BY <1>1, <1>2, <1>4, <1>7 DEF OwnAreCreated, Seen, SeenRecord
<1> QED BY <1>5, <1>6, <1>8 DEF QueueInv

LEMMA CreateRecordInv ==
  ASSUME LedgerInv, NEW r \in Record, CreateRecord(r)
  PROVE  LedgerInv'
<1>1. QueueInv
  BY DEF LedgerInv, QueueInv
<1>2. /\ CanCreate(r) /\ AddToTailingRecord(r, TRUE)
      /\ created' = created \cup {r}
      /\ UNCHANGED <<Self, fetchVars, countVars>>
  BY DEF CreateRecord
<1>3. QueueInv'
  BY <1>1, <1>2, CreateQueue DEF AddToTailingRecord
<1>4. /\ TailInv(tailRecords', backend') /\ StoredHeavy' /\ ApprovalInv' /\ NoNullDereference'
  BY CreateRecordAddable, AddInv
<1> QED BY <1>3, <1>4 DEF LedgerInv, QueueInv

\* Steps that leave the tables alone and keep QueueInv, whatever the tables are.
Quiet == QueueInv' /\ UNCHANGED <<Self, ledgerVars, created, restarts>>

LEMMA QuietInv == LedgerInv /\ Quiet => LedgerInv'
<1> SUFFICES ASSUME LedgerInv, Quiet PROVE LedgerInv'
  OBVIOUS
<1>1. QueueInv' /\ UNCHANGED <<Self, tailRecords, backend, admitted, fault, created, restarts>>
  BY DEF Quiet, ledgerVars
<1>2. TailInv(tailRecords', backend')
  BY <1>1 DEF LedgerInv
<1>3. StoredHeavy'
  BY <1>1 DEF LedgerInv, StoredHeavy
<1>4. ApprovalInv'
  BY <1>1 DEF LedgerInv, ApprovalInv, ConfirmedByK, Approvals
<1>5. NoNullDereference'
  BY <1>1 DEF LedgerInv, NoNullDereference
<1> QED BY <1>1, <1>2, <1>3, <1>4, <1>5 DEF LedgerInv, QueueInv

\* They may change what QueueInv says of the sync stack,
LEMMA StackChanged ==
  ASSUME QueueInv, UNCHANGED <<Self, ledgerVars, created, restarts>>, TypeOK', StackInv',
         \A x \in Stacked' : x \in Stacked \/ (ProducerPrefix(x) = Self => x \in created)
  PROVE  Quiet
<1>1. UNCHANGED <<Self, tailRecords, backend, created>>
  BY DEF ledgerVars
<1>2. OwnAreCreated'
  BY <1>1 DEF QueueInv, OwnAreCreated
<1> QED BY <1>2 DEF QueueInv, Quiet

\* or leave that alone, too.
LEMMA StackUnchanged ==
  ASSUME QueueInv, UNCHANGED <<Self, ledgerVars, created, restarts, syncStack>>, TypeOK'
  PROVE  Quiet
<1>1. StackInv'
  BY DEF QueueInv, StackInv, Seen, ledgerVars
<1>2. Stacked' = Stacked
  BY DEF Stacked
<1> QED BY <1>1, <1>2, StackChanged

LEMMA OnLedgerSyncRequestQuiet ==
  ASSUME QueueInv, NEW m \in SyncMessage, OnLedgerSyncRequest(m)
  PROVE  Quiet
<1>1. UNCHANGED <<Self, ledgerVars, syncStack, scan, countVars, created>>
  BY DEF OnLedgerSyncRequest
<1>2. m.certs \subseteq Record /\ m.tips \subseteq Record
  BY DEF SyncMessage
<1>3. TypeOK
  BY DEF QueueInv
<1>4. pending' \in SUBSET Record /\ replySync' \in BOOLEAN
  BY <1>2, <1>3 DEF OnLedgerSyncRequest, TypeOK
<1>5. TypeOK'
  BY <1>1, <1>3, <1>4 DEF TypeOK, TailRecordsOK, ledgerVars, countVars
<1> QED BY <1>1, <1>5, StackUnchanged DEF countVars

LEMMA OnFetchedRecordQuiet ==
  ASSUME QueueInv, NEW r \in pending, OnFetchedRecord(r)
  PROVE  Quiet
<1>1. TypeOK /\ StackInv /\ r \in Record
  BY DEF QueueInv, TypeOK
<1>2. UNCHANGED <<Self, ledgerVars, replySync, countVars, created>>
  BY DEF OnFetchedRecord
<1>3. CASE DropRecord(r)
  <2>1. pending' \in SUBSET Record /\ UNCHANGED <<syncStack, scan>>
    BY <1>1, <1>3 DEF DropRecord, TypeOK
  <2>2. TypeOK'
    BY <1>1, <1>2, <2>1 DEF TypeOK, TailRecordsOK, ledgerVars, countVars
  <2> QED BY <1>2, <2>1, <2>2, StackUnchanged DEF countVars
<1>4. CASE StackRecord(r)
  <2>1. /\ ~ Seen(r) /\ r \notin Stacked
        /\ CheckSyntaxValidityOfRecord(r)
        /\ syncStack' = Append(syncStack, [record |-> r, addedTime |-> now])
    BY <1>4 DEF StackRecord
  <2>2. Interlocked(r)
    BY <2>1 DEF CheckSyntaxValidityOfRecord, Interlocked
  <2>3. /\ StackInv' /\ syncStack' \in Seq(StackEntry) /\ Stacked' = Stacked \cup {r}
    BY <1>1, <1>2, <2>1, <2>2, StackGrows DEF ledgerVars
  <2>4. pending' \in SUBSET Record
    <3>1. Named(r) \subseteq Record
      BY <1>1, FieldTypes
    <3> QED BY <1>1, <1>4, <3>1 DEF StackRecord, TypeOK
  <2>5. scan' \in [at : Nat, stackSize : Nat]
    <3>1. Len(syncStack) + 1 \in Nat
      BY <1>1, LenProperties DEF TypeOK
    <3> QED BY <1>1, <1>4, <3>1 DEF StackRecord, TypeOK
  <2>6. TypeOK'
    BY <1>1, <1>2, <2>3, <2>4, <2>5 DEF TypeOK, TailRecordsOK, StackEntry, ledgerVars, countVars
  <2>7. ProducerPrefix(r) = Self => r \in created
    BY <1>1, RestsOnUnfold DEF OnFetchedRecord, Exists
  <2> QED BY <1>2, <2>3, <2>6, <2>7, StackChanged DEF countVars
<1> QED BY <1>3, <1>4 DEF OnFetchedRecord

\* The loop adds only records that may be added.
LEMMA StackedAddable ==
  ASSUME QueueInv, AtRecord, Ready(tailRecords, backend, Current)
  PROVE  /\ Addable(Current) /\ Current \in Stacked
         /\ CheckEndorseValidityOfRecord(Current) \in BOOLEAN
<1>1. TypeOK /\ StackInv
  BY DEF QueueInv
<1>2. scan.at \in DOMAIN syncStack
  BY DEF AtRecord
<1>3. ~ Seen(Current) /\ Interlocked(Current) /\ Current \in Stacked
  BY <1>1, <1>2 DEF StackInv, Current, Stacked
<1>4. Current \in Record
  <2>1. syncStack \in Seq(StackEntry)
    BY <1>1 DEF TypeOK, StackEntry
  <2>2. syncStack[scan.at] \in StackEntry
    BY <1>2, <2>1, ElementOfSeq, LenProperties
  <2> QED BY <2>2 DEF Current, StackEntry
<1>5. Addable(Current)
  BY <1>3, <1>4 DEF Addable, Ready
<1>6. CheckEndorseValidityOfRecord(Current) \in BOOLEAN
  BY DEF CheckEndorseValidityOfRecord
<1> QED BY <1>3, <1>5, <1>6

LEMMA ScanAddAddable ==
  ASSUME LedgerInv, ScanAdd
  PROVE  /\ Addable(Current) /\ Current \in Stacked
         /\ CheckEndorseValidityOfRecord(Current) \in BOOLEAN
         /\ AddToTailingRecord(Current, CheckEndorseValidityOfRecord(Current))
         /\ restarts' = restarts
<1>1. QueueInv
  BY DEF LedgerInv, QueueInv
<1>2. /\ Addable(Current) /\ Current \in Stacked
      /\ CheckEndorseValidityOfRecord(Current) \in BOOLEAN
  BY <1>1, StackedAddable DEF ScanAdd
<1>3. AddToTailingRecord(Current, CheckEndorseValidityOfRecord(Current)) /\ restarts' = restarts
  BY <1>2 DEF ScanAdd, Addable, Seen, SeenRecord, countVars
<1> QED BY <1>2, <1>3

LEMMA ScanAddQueue ==
  ASSUME QueueInv, AtRecord, Ready(tailRecords, backend, Current),
         NEW W, AddWriting(Current, CheckEndorseValidityOfRecord(Current), W),
         syncStack' = RemoveAt(syncStack, scan.at),
         UNCHANGED <<Self, scan, pending, replySync, countVars, created>>
  PROVE  QueueInv'
<1> DEFINE r == Current
           e == CheckEndorseValidityOfRecord(Current)
<1>1. TypeOK /\ StackInv /\ OwnAreCreated
  BY DEF QueueInv
<1>2. /\ scan.at \in DOMAIN syncStack
      /\ UNCHANGED <<Self, scan, pending, replySync, now, losses, restarts, created>>
  BY DEF AtRecord, countVars
<1>3. Addable(r) /\ r \in Stacked /\ AddWriting(r, e, W) /\ e \in BOOLEAN
  BY StackedAddable
<1>4. r = syncStack[scan.at].record
  BY DEF Current
<1> HIDE DEF r, e
<1>5. \A x : SeenRecord(tailRecords', backend', x) => Seen(x) \/ x = r
  BY <1>1, <1>3, WriteSeen
<1>6. /\ StackInv' /\ syncStack' \in Seq(StackEntry) /\ Stacked' \subseteq Stacked
  BY <1>1, <1>2, <1>4, <1>5, StackShrinks
<1>7. TypeOK'
  BY <1>1, <1>2, <1>3, <1>6, WriteTypes DEF TypeOK, StackEntry
<1>8. OwnAreCreated'
  BY <1>1, <1>2, <1>3, <1>5, <1>6 DEF OwnAreCreated, Seen, SeenRecord
<1> QED BY <1>6, <1>7, <1>8 DEF QueueInv

LEMMA ScanAddInv ==
  ASSUME LedgerInv, ScanAdd
  PROVE  LedgerInv'
<1>1. QueueInv
  BY DEF LedgerInv, QueueInv
<1>2. /\ Addable(Current)
      /\ CheckEndorseValidityOfRecord(Current) \in BOOLEAN
      /\ AddToTailingRecord(Current, CheckEndorseValidityOfRecord(Current))
      /\ restarts' = restarts
  BY ScanAddAddable
<1>3. QueueInv'
  BY <1>1, <1>2, ScanAddQueue DEF ScanAdd, AddToTailingRecord
<1>4. /\ TailInv(tailRecords', backend') /\ StoredHeavy' /\ ApprovalInv' /\ NoNullDereference'
  BY <1>2, AddInv
<1> QED BY <1>3, <1>4 DEF LedgerInv, QueueInv

\* The steps of the loop that add nothing.
LEMMA ScanOthersQuiet ==
  ASSUME QueueInv, ScanExpire \/ ScanKeep \/ ScanEnd
  PROVE  Quiet
<1>1. TypeOK /\ StackInv
  BY DEF QueueInv
<1>2. UNCHANGED <<Self, ledgerVars, pending, replySync, countVars, created>>
  BY DEF ScanExpire, ScanKeep, ScanEnd
<1>3. CASE ScanExpire
  <2>1. /\ scan.at \in DOMAIN syncStack /\ scan' = scan
        /\ syncStack' = RemoveAt(syncStack, scan.at)
    BY <1>3 DEF ScanExpire, AtRecord
  <2>2. \A x \in Record : SeenRecord(tailRecords', backend', x) => Seen(x)
    BY <1>2 DEF Seen, ledgerVars
  <2>3. /\ StackInv' /\ syncStack' \in Seq(StackEntry) /\ Stacked' \subseteq Stacked
    BY <1>1, <2>1, <2>2, StackShrinks
  <2>4. TypeOK'
    BY <1>1, <1>2, <2>1, <2>3 DEF TypeOK, TailRecordsOK, StackEntry, ledgerVars, countVars
  <2> QED BY <1>2, <2>3, <2>4, StackChanged DEF countVars
<1>4. CASE ScanKeep \/ ScanEnd
  <2>1. syncStack' = syncStack
    BY <1>4 DEF ScanKeep, ScanEnd
  <2>2. Len(syncStack) \in Nat
    BY <1>1, LenProperties DEF TypeOK
  <2>3. scan' \in [at : Nat, stackSize : Nat]
    <3>1. scan \in [at : Nat, stackSize : Nat] /\ scan.at \in Nat
      BY <1>1 DEF TypeOK
    <3>2. CASE ScanKeep
      <4>1. scan' = [scan EXCEPT !.at = scan.at + 1]
        BY <3>2 DEF ScanKeep
      <4> QED BY <3>1, <4>1
    <3>3. CASE ScanEnd
      BY <2>2, <3>3 DEF ScanEnd
    <3> QED BY <1>4, <3>2, <3>3
  <2>4. TypeOK'
    BY <1>1, <1>2, <2>1, <2>3 DEF TypeOK, TailRecordsOK, ledgerVars, countVars
  <2> QED BY <1>2, <2>1, <2>4, StackUnchanged DEF countVars
<1> QED BY <1>3, <1>4

\* A reply, a lost Interest, the clock.
LEMMA EnvironmentQuiet ==
  ASSUME QueueInv, SendReplySync \/ (\E r \in pending : LoseInterest(r)) \/ Tick
  PROVE  Quiet
<1>1. TypeOK
  BY DEF QueueInv
<1>2. UNCHANGED <<Self, ledgerVars, created, restarts, syncStack, scan>>
  BY DEF SendReplySync, LoseInterest, Tick, countVars, fetchVars
<1>3. /\ pending' \in SUBSET Record /\ replySync' \in BOOLEAN
      /\ now' \in Nat /\ losses' \in Nat
  <2>1. CASE SendReplySync
    BY <1>1, <2>1 DEF SendReplySync, countVars, TypeOK
  <2>2. ASSUME NEW r \in pending, LoseInterest(r)
        PROVE  /\ pending' \in SUBSET Record /\ replySync' \in BOOLEAN
               /\ now' \in Nat /\ losses' \in Nat
    BY <1>1, <2>2 DEF LoseInterest, TypeOK
  <2>3. CASE Tick
    BY <1>1, <2>3 DEF Tick, fetchVars, TypeOK
  <2> QED BY <2>1, <2>2, <2>3
<1>4. TypeOK'
  BY <1>1, <1>2, <1>3 DEF TypeOK, TailRecordsOK, ledgerVars
<1> QED BY <1>2, <1>4, StackUnchanged

LEMMA StutterQuiet ==
  ASSUME QueueInv, UNCHANGED vars
  PROVE  Quiet
<1>1. UNCHANGED <<Self, ledgerVars, created, restarts, syncStack>>
  BY DEF vars, fetchVars, countVars
<1>2. TypeOK'
  BY DEF QueueInv, TypeOK, TailRecordsOK, vars, ledgerVars, fetchVars, countVars
<1> QED BY <1>1, <1>2, StackUnchanged

\* After a restart nothing is to be added, whatever was stored in the end.
LEMMA ReopenQueue ==
  ASSUME QueueInv, Reopen, UNCHANGED <<Self, now, losses, created, timedOut, fault>>,
         backend' \subseteq backend \cup DOMAIN tailRecords, admitted' \in SUBSET Record
  PROVE  QueueInv'
<1>1. TypeOK /\ OwnAreCreated
  BY DEF QueueInv
<1>2. /\ restarts' = restarts + 1
      /\ tailRecords' = GenesisTail(now)
      /\ syncStack' = <<>> /\ scan' = [at |-> 0, stackSize |-> 0]
      /\ pending' = {} /\ replySync' = FALSE
      /\ lastCertRecords' = {}
      /\ peerCertificates' = StartingCerts /\ revokedCertificates' = {}
  BY DEF Reopen
<1>3. TableOK(tailRecords')
  <2>1. now \in Nat
    BY <1>1 DEF TypeOK
  <2> QED BY <1>2, <2>1, GenesisTailInv
<1>4. syncStack' \in Seq(StackEntry) /\ DOMAIN syncStack' = {}
  BY <1>2, EmptySeq
<1>5. TypeOK'
  <2>1. TailRecordsOK'
    BY <1>3 DEF TailRecordsOK, TableOK
  <2>2. scan' \in [at : Nat, stackSize : Nat]
    BY <1>2
  <2>3. /\ peerCertificates' \in SUBSET Cert /\ revokedCertificates' \in SUBSET Cert
    BY <1>2, AnchorAssumption
  <2>4. /\ lastCertRecords' \in SUBSET Record /\ pending' \in SUBSET Record
        /\ replySync' \in BOOLEAN
    BY <1>2
  <2>5. restarts' \in Nat
    BY <1>1, <1>2 DEF TypeOK
  <2>6. backend' \in SUBSET Record
    BY <1>1 DEF TypeOK, TailRecordsOK
  <2> QED BY <1>1, <1>2, <1>4, <2>1, <2>2, <2>3, <2>4, <2>5, <2>6 DEF TypeOK, StackEntry
<1>6. StackInv'
  BY <1>4 DEF StackInv
<1>7. DOMAIN tailRecords' = GenesisRecords
  BY <1>2 DEF GenesisTail
<1>8. Stacked' = {}
  BY <1>4 DEF Stacked
<1>9. OwnAreCreated'
  BY <1>1, <1>2, <1>7, <1>8, GenesisByOthers DEF OwnAreCreated, TypeOK
<1> QED BY <1>5, <1>6, <1>9 DEF QueueInv

\* After a restart the tables hold the genesis records; the database stays
\* closed under pointers, and nothing is heavy.
LEMMA RestartInv ==
  ASSUME LedgerInv, Restart
  PROVE  LedgerInv'
<1>1. TypeOK /\ Closed(backend) /\ ApprovalInv /\ NoNullDereference /\ QueueInv
  BY LinkInvParts DEF LedgerInv, QueueInv
<1>2. /\ Reopen
      /\ restarts' = restarts + 1
      /\ tailRecords' = GenesisTail(now)
      /\ UNCHANGED <<Self, backend, now, losses, created, admitted, timedOut, fault>>
  BY DEF Restart, Reopen
<1>3. TailInv(tailRecords', backend')
  <2>1. now \in Nat
    BY <1>1 DEF TypeOK
  <2> QED BY <1>1, <1>2, <2>1, GenesisTailInv
<1>4. QueueInv'
  <2>1. admitted' \in SUBSET Record /\ backend' \subseteq backend \cup DOMAIN tailRecords
    BY <1>1, <1>2 DEF TypeOK
  <2> QED BY <1>1, <1>2, <2>1, ReopenQueue
<1>5. StoredHeavy'
  BY <1>1, <1>2 DEF StoredHeavy, TypeOK
<1>6. \A g \in DOMAIN tailRecords' : tailRecords'[g].refSet = {}
  BY <1>2 DEF GenesisTail
<1>7. ApprovalInv'
  <2>1. \A x : Approvals(x)' = Approvals(x)
    BY <1>2 DEF Approvals
  <2>2. ConfirmedByK'
    BY <1>1, <1>2, <2>1 DEF ApprovalInv, ConfirmedByK
  <2> QED BY <1>6, <2>2 DEF ApprovalInv
<1>8. NoNullDereference'
  BY <1>1, <1>2 DEF NoNullDereference
<1> QED BY <1>3, <1>4, <1>5, <1>7, <1>8 DEF LedgerInv, QueueInv

\* A step of a peer that may be sent any sync Interest.
AnyNext ==
  \/ \E r \in Record : CreateRecord(r)
  \/ \E m \in SyncMessage : OnLedgerSyncRequest(m)
  \/ SendReplySync
  \/ \E r \in pending : OnFetchedRecord(r)
  \/ Scan
  \/ \E r \in pending : LoseInterest(r)
  \/ Tick
  \/ Restart

LEMMA NextIsAny == Next => AnyNext
  BY LedgerAssumption DEF Next, AnyNext

\* A step creates a record, adds one from the stack, restarts the peer, or is
\* quiet.
LEMMA StepKinds ==
  ASSUME QueueInv, [AnyNext]_vars
  PROVE  (\E r \in Record : CreateRecord(r)) \/ ScanAdd \/ Restart \/ Quiet
<1>1. ASSUME NEW m \in SyncMessage, OnLedgerSyncRequest(m) PROVE Quiet
  BY <1>1, OnLedgerSyncRequestQuiet
<1>2. ASSUME NEW r \in pending, OnFetchedRecord(r) PROVE Quiet
  BY <1>2, OnFetchedRecordQuiet
<1>3. CASE ScanExpire \/ ScanKeep \/ ScanEnd
  BY <1>3, ScanOthersQuiet
<1>4. CASE SendReplySync \/ (\E r \in pending : LoseInterest(r)) \/ Tick
  BY <1>4, EnvironmentQuiet
<1>5. CASE UNCHANGED vars
  BY <1>5, StutterQuiet
<1> QED BY <1>1, <1>2, <1>3, <1>4, <1>5 DEF AnyNext, Scan

LEMMA StepInv == LedgerInv /\ [AnyNext]_vars => LedgerInv'
<1> SUFFICES ASSUME LedgerInv, [AnyNext]_vars PROVE LedgerInv'
  OBVIOUS
<1>1. (\E r \in Record : CreateRecord(r)) \/ ScanAdd \/ Restart \/ Quiet
  BY StepKinds DEF LedgerInv, QueueInv
<1> QED BY <1>1, CreateRecordInv, ScanAddInv, RestartInv, QuietInv

-----------------------------------------------------------------------------
(***************************************************************************)
(* The theorems.                                                           *)
(***************************************************************************)

\* The invariant holds in every run, with any number of losses and restarts.
THEOREM LedgerInvariant == Spec => []LedgerInv
  BY InitInv, StepInv, NextIsAny, PTL DEF Spec

\* The state of the ledger always has its types.
THEOREM LedgerTypeCorrect == Spec => []TypeOK
<1>1. LedgerInv => TypeOK
  BY DEF LedgerInv
<1> QED BY <1>1, LedgerInvariant, PTL

\* addToTailingRecord never dereferences the nullopt that getRecord returns
\* for an unverified record: only verified records are updated or confirmed.
THEOREM NeverNullDereference == Spec => []NoNullDereference
<1>1. LedgerInv => NoNullDereference
  BY DEF LedgerInv
<1> QED BY <1>1, LedgerInvariant, PTL

\* A record in the database was approved by confirmWeight producers other
\* than its own, across lost Interests, timeouts and restarts.
THEOREM ConfirmedByKAlways == Spec => []ConfirmedByK
<1>1. LedgerInv => ConfirmedByK
  BY DEF LedgerInv, ApprovalInv
<1> QED BY <1>1, LedgerInvariant, PTL

\* The database holds the history of every record it holds.
THEOREM DatabaseClosed == Spec => []AncestorsConfirmed
<1>1. LedgerInv => AncestorsConfirmed
  BY DEF LedgerInv, TailInv, LinkInv, AncestorsConfirmed
<1> QED BY <1>1, LedgerInvariant, PTL

\* Neither removal leaves a tailing record without its parents.
THEOREM NoOrphansAlways == Spec => []NoOrphans
<1>1. LedgerInv => NoOrphans
  BY DEF LedgerInv, TailInv, LinkInv, NoOrphans
<1> QED BY <1>1, LedgerInvariant, PTL

\* Whoever approves an endorsed record approves its parents.
THEOREM WeightMonotoneAlways == Spec => []WeightMonotone
<1>1. LedgerInv => WeightMonotone
  BY DEF LedgerInv, TailInv, Approves, WeightMonotone
<1> QED BY <1>1, LedgerInvariant, PTL

\* A rejected record is not built on, carries no weight and is not stored.
\* It cannot be the parent of a stored record, because the database is closed.
THEOREM RejectedIsolatedAlways == Spec => []RejectedIsolated
<1>1. LedgerInv => RejectedIsolated
  <2> SUFFICES ASSUME LedgerInv, NEW r \in DOMAIN tailRecords,
                      ~ tailRecords[r].parentEndorseVerified
               PROVE  /\ tailRecords[r].refSet = {}
                      /\ r \notin backend
                      /\ \A c \in DOMAIN tailRecords \cup backend : r \notin PointersFromHeader(c)
    BY DEF RejectedIsolated
  <2>1. /\ \A x \in DOMAIN tailRecords : RecordInv(tailRecords, backend, x)
        /\ \A c \in DOMAIN tailRecords : PointsToEndorsed(tailRecords, c)
        /\ Closed(backend)
    BY LinkInvParts DEF LedgerInv, TailInv
  <2>2. ~ tailRecords[r].recordEndorseVerified
    BY <2>1 DEF RecordInv
  <2>3. tailRecords[r].refSet = {} /\ r \notin backend
    BY <2>1, <2>2 DEF RecordInv
  <2>4. \A c \in DOMAIN tailRecords : r \notin PointersFromHeader(c)
    BY <2>1, <2>2 DEF PointsToEndorsed
  <2>5. \A c \in backend : r \notin PointersFromHeader(c)
    BY <2>1, <2>3 DEF Closed
  <2> QED BY <2>3, <2>4, <2>5
<1> QED BY <1>1, LedgerInvariant, PTL

\* Until the first restart, a confirmed record leaves the tailing records only
\* when it is deep enough.  Only addToTailingRecord removes records, and it
\* removes with a timed-out record only lighter ones.
THEOREM ConfirmedLeaveDeepAlways == Spec => ConfirmedLeaveDeep
<1> DEFINE LeavesDeep ==
      restarts' = 0 =>
        \A r \in (DOMAIN tailRecords \cap backend) \ DOMAIN tailRecords' :
           Cardinality(Approvals(r)') >= removeWeight
<1>1. LedgerInv /\ [Next]_vars => [LeavesDeep]_vars
  <2> SUFFICES ASSUME LedgerInv, Next, restarts' = 0,
                      NEW r \in (DOMAIN tailRecords \cap backend) \ DOMAIN tailRecords'
               PROVE  Cardinality(Approvals(r)') >= removeWeight
    OBVIOUS
  <2>1. TypeOK /\ TailInv(tailRecords, backend) /\ StoredHeavy /\ ApprovalInv
    BY DEF LedgerInv
  <2>2. ASSUME NEW x, Addable(x), NEW e \in BOOLEAN, AddToTailingRecord(x, e),
               restarts' = restarts
        PROVE  Cardinality(Approvals(r)') >= removeWeight
    BY <2>1, <2>2, AddLeaveDeep
  <2>3. ASSUME NEW x \in Record, CreateRecord(x)
        PROVE  Cardinality(Approvals(r)') >= removeWeight
    BY <2>2, <2>3, CreateRecordAddable
  <2>4. CASE ScanAdd
    BY <2>2, <2>4, ScanAddAddable
  <2>5. CASE UNCHANGED ledgerVars
    BY <2>5 DEF ledgerVars
  <2>6. CASE Restart
    BY <2>1, <2>6 DEF Restart, Reopen, TypeOK
  <2> QED BY <2>3, <2>4, <2>5, <2>6 DEF Next, Scan, OnLedgerSyncRequest, SendReplySync,
             OnFetchedRecord, ScanExpire, ScanKeep, ScanEnd, LoseInterest, Tick
<1> QED BY <1>1, LedgerInvariant, PTL DEF Spec, ConfirmedLeaveDeep

-----------------------------------------------------------------------------
(***************************************************************************)
(* The loop over the sync stack.  The records before the one it is at      *)
(* wait, unless it has removed some since it started, in which case it     *)
(* starts again.  Nothing that becomes seen between two callbacks ends the *)
(* wait of a stacked record: only this peer makes records then, and what   *)
(* is stacked was made before (the first part).                            *)
(***************************************************************************)
Waits(i) == ~ Ready(tailRecords, backend, syncStack[i].record)

ScanInv ==
  /\ \A r \in Stacked : Exists(r)
  /\ scan.at = 0 => Idle
  /\ Idle => \A i \in DOMAIN syncStack : Waits(i)
  /\ ~ Idle => Len(syncStack) <= scan.stackSize
  /\ scan.stackSize = Len(syncStack) =>
       \A i \in DOMAIN syncStack : i < scan.at => Waits(i)

\* Adding a record makes only records ready that name it.
LEMMA AddReadies ==
  ASSUME LedgerInv, NEW r, Addable(r), NEW e \in BOOLEAN, AddToTailingRecord(r, e),
         restarts' = restarts,
         NEW c, r \notin Named(c), Ready(tailRecords', backend', c)
  PROVE  Ready(tailRecords, backend, c)
<1>1. TypeOK /\ TailInv(tailRecords, backend)
  BY DEF LedgerInv
<1>2. \A x \in DOMAIN tailRecords : RecordInv(tailRecords, backend, x)
  BY <1>1, LinkInvParts DEF TailInv
<1>3. /\ DOMAIN tailRecords' \subseteq DOMAIN tailRecords \cup {r}
      /\ backend' = backend \cup Confirmed(WeighedNow(r, e), UpdatedNow(r, e))
  BY <1>1, WriteDomains, AddDefinition DEF OnRecordsConfirmed, AddToTailingRecord
<1>4. /\ DOMAIN WeighedNow(r, e) = DOMAIN tailRecords \cup {r}
      /\ UpdatedNow(r, e) \subseteq DOMAIN tailRecords
      /\ \A x \in UpdatedNow(r, e) : WeighedNow(r, e)[x].recordEndorseVerified
  BY <1>1, WeighedNowFacts
<1>5. ASSUME NEW x \in DOMAIN tailRecords,
             x \in backend' \/ (x \in DOMAIN tailRecords' /\ tailRecords'[x].parentEndorseVerified)
      PROVE  tailRecords[x].parentEndorseVerified
  <2>1. WeighedNow(r, e)[x].recordEndorseVerified = tailRecords[x].recordEndorseVerified
    BY <1>1, WeighedNowEndorsed
  <2>2. CASE x \in backend'
    BY <1>2, <1>3, <1>4, <2>1, <2>2 DEF Confirmed, RecordInv
  <2>3. CASE x \in DOMAIN tailRecords' /\ tailRecords'[x].parentEndorseVerified
    <3>1. TailInv(tailRecords', backend') /\ tailRecords'[x] = WeighedNow(r, e)[x]
      BY <1>1, <2>3, TailOutcome
    <3>2. RecordInv(tailRecords', backend', x)
      BY <2>3, <3>1, LinkInvParts DEF TailInv
    <3> QED BY <1>2, <2>1, <2>3, <3>1, <3>2 DEF RecordInv
  <2> QED BY <1>5, <2>2, <2>3
<1>6. ASSUME NEW p, p # r, HasRecord(tailRecords', backend', p)
      PROVE  HasRecord(tailRecords, backend, p)
  <2>1. CASE p \in DOMAIN tailRecords
    BY <1>5, <1>6, <2>1 DEF HasRecord
  <2>2. CASE p \notin DOMAIN tailRecords
    <3>1. p \notin DOMAIN tailRecords' /\ p \in backend'
      BY <1>3, <1>6, <2>2 DEF HasRecord
    <3>2. p \in backend
      BY <1>3, <1>4, <2>2, <3>1 DEF Confirmed
    <3> QED BY <2>2, <3>2 DEF HasRecord
  <2> QED BY <2>1, <2>2
<1>7. \A x : SeenRecord(tailRecords', backend', x) => SeenRecord(tailRecords, backend, x) \/ x = r
  BY <1>1, WriteSeen DEF Seen, AddToTailingRecord
<1> QED BY <1>6, <1>7 DEF Ready, Named

\* A step that leaves the stack, the loop and what is seen alone.
LEMMA ScanUnchanged ==
  ASSUME ScanInv, UNCHANGED <<Self, tailRecords, backend, syncStack, scan, created>>
  PROVE  ScanInv'
  BY DEF ScanInv, Stacked, Exists, Idle, Waits

LEMMA CreateRecordScan ==
  ASSUME LedgerInv, ScanInv, NEW r \in Record, CreateRecord(r)
  PROVE  ScanInv'
<1>1. /\ Idle /\ ProducerPrefix(r) = Self /\ r \notin created
      /\ created' = created \cup {r}
      /\ UNCHANGED <<Self, syncStack, scan>>
  BY DEF CreateRecord, CanCreate, fetchVars
<1>2. Addable(r) /\ AddToTailingRecord(r, TRUE) /\ restarts' = restarts
  BY CreateRecordAddable
<1>3. ASSUME NEW i \in DOMAIN syncStack PROVE Waits(i)'
  <2> DEFINE c == syncStack[i].record
  <2>1. c \in Record
    BY StackedRecords
  <2>2. ~ Ready(tailRecords, backend, c) /\ Exists(c)
    BY <1>1 DEF ScanInv, Waits, Stacked
  <2>3. r \notin Named(c)
    <3>1. r \notin RestsOn[c]
      BY <1>1, <2>2 DEF Exists
    <3> HIDE DEF c
    <3>2. \A p \in Named(c) : p \in Record /\ p \in RestsOn[p] /\ RestsOn[p] \subseteq RestsOn[c]
      BY <2>1, NamedAreRecords, RestsOnUnfold
    <3> QED BY <3>1, <3>2
  <2>4. ~ Ready(tailRecords', backend', c)
    BY <1>2, <2>2, <2>3, AddReadies
  <2> QED BY <1>1, <2>4 DEF Waits
<1>4. Idle' /\ \A x \in Stacked' : Exists(x)'
  BY <1>1 DEF ScanInv, Stacked, Exists, Idle
<1> QED BY <1>1, <1>3, <1>4 DEF ScanInv

LEMMA OnFetchedRecordScan ==
  ASSUME LedgerInv, ScanInv, NEW r \in pending, OnFetchedRecord(r)
  PROVE  ScanInv'
<1>1. TypeOK /\ StackInv /\ r \in Record
  BY DEF LedgerInv, TypeOK
<1>2. Idle /\ Exists(r) /\ UNCHANGED <<Self, tailRecords, backend, created>>
  BY DEF OnFetchedRecord, ledgerVars
<1>3. CASE DropRecord(r)
  BY <1>2, <1>3, ScanUnchanged DEF DropRecord
<1>4. CASE StackRecord(r)
  <2> DEFINE n == Len(syncStack)
             unseen == {p \in Named(r) : ~ Seen(p)}
  <2>1. /\ n \in Nat /\ DOMAIN syncStack = 1 .. n
        /\ syncStack' = Append(syncStack, [record |-> r, addedTime |-> now])
        /\ Len(syncStack') = n + 1 /\ DOMAIN syncStack' = 1 .. (n + 1)
        /\ syncStack'[n + 1].record = r
        /\ \A i \in 1 .. n : syncStack'[i] = syncStack[i]
    <3>1. syncStack \in Seq(StackEntry) /\ [record |-> r, addedTime |-> now] \in StackEntry
      BY <1>1 DEF TypeOK, StackEntry
    <3>2. syncStack' = Append(syncStack, [record |-> r, addedTime |-> now])
      BY <1>4 DEF StackRecord
    <3> QED BY <3>1, <3>2, LenProperties
  <2> HIDE DEF n
  <2>2. \A x \in Stacked' : Exists(x)'
    <3>1. \A i \in 1 .. (n + 1) : i = n + 1 \/ i \in 1 .. n
      BY <2>1
    <3> QED BY <1>2, <2>1, <3>1 DEF ScanInv, Stacked, Exists
  <2>3. CASE unseen = {}
    <3>1. scan' = [at |-> 1, stackSize |-> n + 1]
      BY <1>4, <2>3 DEF StackRecord, n
    <3>2. ~ Idle' /\ scan'.at # 0
      BY <3>1 DEF Idle
    <3>3. Len(syncStack') <= scan'.stackSize
      BY <2>1, <3>1
    <3>4. \A i \in DOMAIN syncStack' : ~ (i < scan'.at)
      BY <2>1, <3>1
    <3> QED BY <2>2, <3>2, <3>3, <3>4 DEF ScanInv
  <2>4. CASE unseen # {}
    <3>1. scan' = scan
      BY <1>4, <2>4 DEF StackRecord
    <3>2. ~ Ready(tailRecords, backend, r)
      BY <2>4 DEF Ready, Named, Seen, SeenRecord, HasRecord
    <3>3. ASSUME NEW i \in DOMAIN syncStack' PROVE Waits(i)'
      <4>1. CASE i \in 1 .. n
        BY <1>2, <2>1, <4>1 DEF ScanInv, Waits
      <4>2. CASE i = n + 1
        BY <1>2, <2>1, <3>2, <4>2 DEF Waits
      <4> QED BY <2>1, <4>1, <4>2
    <3>4. Idle'
      BY <1>2, <3>1 DEF Idle
    <3> QED BY <2>2, <3>1, <3>3, <3>4 DEF ScanInv
  <2> QED BY <2>3, <2>4
<1> QED BY <1>3, <1>4 DEF OnFetchedRecord

\* Without an entry the stack holds no other records.
LEMMA StackedRemoved ==
  ASSUME TypeOK, NEW k \in DOMAIN syncStack, syncStack' = RemoveAt(syncStack, k)
  PROVE  Stacked' \subseteq Stacked
<1>1. syncStack \in Seq(StackEntry)
  BY DEF TypeOK, StackEntry
<1>2. Len(syncStack) \in Nat /\ DOMAIN syncStack = 1 .. Len(syncStack)
  BY <1>1, LenProperties
<1>3. /\ Len(syncStack') = Len(syncStack) - 1
      /\ syncStack' \in Seq(StackEntry)
      /\ \A j \in 1 .. (Len(syncStack) - 1) :
           syncStack'[j] = IF j < k THEN syncStack[j] ELSE syncStack[j + 1]
  BY <1>1, RemoveAtFacts
<1>4. DOMAIN syncStack' = 1 .. (Len(syncStack) - 1)
  BY <1>2, <1>3, LenProperties
<1> SUFFICES ASSUME NEW j \in DOMAIN syncStack'
             PROVE  \E i \in DOMAIN syncStack : syncStack'[j] = syncStack[i]
  BY DEF Stacked
<1>5. j \in DOMAIN syncStack /\ j + 1 \in DOMAIN syncStack
  BY <1>2, <1>4
<1> QED BY <1>3, <1>4, <1>5

\* A record leaves the stack: the loop will start again.
LEMMA ScanRemoves ==
  ASSUME LedgerInv, ScanInv, AtRecord, syncStack' = RemoveAt(syncStack, scan.at),
         UNCHANGED <<Self, scan, created>>
  PROVE  ScanInv'
<1>1. syncStack \in Seq(StackEntry) /\ scan.at \in DOMAIN syncStack
  BY DEF LedgerInv, TypeOK, StackEntry, AtRecord
<1>2. Len(syncStack) \in Nat /\ DOMAIN syncStack = 1 .. Len(syncStack)
  BY <1>1, LenProperties
<1>3. /\ Len(syncStack') = Len(syncStack) - 1
      /\ syncStack' \in Seq(StackEntry)
      /\ \A j \in 1 .. (Len(syncStack) - 1) :
           syncStack'[j] = IF j < scan.at THEN syncStack[j] ELSE syncStack[j + 1]
  BY <1>1, RemoveAtFacts
<1>4. DOMAIN syncStack' = 1 .. (Len(syncStack) - 1)
  BY <1>2, <1>3, LenProperties
<1>5. scan.at \in Nat /\ scan.stackSize \in Nat /\ ~ Idle
  BY <1>1, <1>2 DEF LedgerInv, TypeOK, Idle
<1>6. Len(syncStack') < scan.stackSize
  BY <1>2, <1>3, <1>5 DEF ScanInv
<1>7. Stacked' \subseteq Stacked
  BY <1>1, StackedRemoved DEF LedgerInv
<1>8. \A x \in Stacked' : Exists(x)'
  BY <1>7 DEF ScanInv, Exists
<1>9. ~ Idle' /\ scan'.at # 0
  BY <1>1, <1>2, <1>5 DEF Idle
<1> QED BY <1>3, <1>6, <1>5, <1>8, <1>9 DEF ScanInv

LEMMA ScanStepScan ==
  ASSUME LedgerInv, ScanInv, Scan
  PROVE  ScanInv'
<1>1. CASE ScanAdd
  BY <1>1, ScanRemoves DEF ScanAdd
<1>2. CASE ScanExpire
  BY <1>2, ScanRemoves DEF ScanExpire
<1>3. TypeOK /\ scan \in [at : Nat, stackSize : Nat] /\ scan.at \in Nat /\ scan.stackSize \in Nat
  BY DEF LedgerInv, TypeOK
<1>4. Len(syncStack) \in Nat /\ DOMAIN syncStack = 1 .. Len(syncStack)
  BY <1>3, LenProperties DEF TypeOK
<1>5. CASE ScanKeep
  <2>1. /\ Waits(scan.at) /\ scan.at \in DOMAIN syncStack
        /\ scan' = [scan EXCEPT !.at = scan.at + 1]
        /\ UNCHANGED <<Self, tailRecords, backend, syncStack, created>>
    BY <1>5 DEF ScanKeep, AtRecord, Current, Waits, ledgerVars
  <2>2. scan'.at = scan.at + 1 /\ scan'.stackSize = scan.stackSize
    BY <1>3, <2>1
  <2>3. ~ Idle /\ ~ Idle' /\ scan'.at # 0
    BY <1>3, <1>4, <2>1, <2>2 DEF Idle
  <2>4. \A x \in Stacked' : Exists(x)'
    BY <2>1 DEF ScanInv, Stacked, Exists
  <2>5. \A i \in DOMAIN syncStack : i < scan.at + 1 => i < scan.at \/ i = scan.at
    BY <1>3, <1>4
  <2>6. scan.stackSize = Len(syncStack) =>
          \A i \in DOMAIN syncStack' : i < scan'.at => Waits(i)'
    BY <2>1, <2>2, <2>5 DEF ScanInv, Waits
  <2>7. Len(syncStack') <= scan'.stackSize
    BY <2>1, <2>2, <2>3 DEF ScanInv
  <2> QED BY <2>1, <2>2, <2>3, <2>4, <2>6, <2>7 DEF ScanInv
<1>6. CASE ScanEnd
  <2>1. /\ ~ Idle /\ scan.at \notin DOMAIN syncStack
        /\ scan' = IF scan.stackSize # Len(syncStack)
                     THEN [at |-> 1, stackSize |-> Len(syncStack)]
                     ELSE [at |-> 0, stackSize |-> 0]
        /\ UNCHANGED <<Self, tailRecords, backend, syncStack, created>>
    BY <1>6 DEF ScanEnd, AtRecord, ledgerVars
  <2>2. \A x \in Stacked' : Exists(x)'
    BY <2>1 DEF ScanInv, Stacked, Exists
  <2>3. CASE scan.stackSize # Len(syncStack)
    <3>1. scan'.at = 1 /\ scan'.stackSize = Len(syncStack)
      BY <2>1, <2>3
    <3>2. ~ Idle'
      BY <3>1 DEF Idle
    <3>3. \A i \in DOMAIN syncStack' : ~ (i < scan'.at)
      BY <1>4, <2>1, <3>1
    <3>4. Len(syncStack') <= scan'.stackSize
      BY <1>4, <2>1, <3>1
    <3> QED BY <2>2, <3>1, <3>2, <3>3, <3>4 DEF ScanInv
  <2>4. CASE scan.stackSize = Len(syncStack)
    <3>1. scan' = [at |-> 0, stackSize |-> 0]
      BY <2>1, <2>4
    <3>2. scan.at # 0
      BY <2>1 DEF ScanInv
    <3>3. \A i \in DOMAIN syncStack : i < scan.at
      BY <1>3, <1>4, <2>1, <3>2
    <3>4. \A i \in DOMAIN syncStack' : Waits(i)'
      BY <2>1, <2>4, <3>3 DEF ScanInv, Waits
    <3>5. Idle'
      BY <3>1 DEF Idle
    <3> QED BY <2>2, <3>4, <3>5 DEF ScanInv
  <2> QED BY <2>3, <2>4
<1> QED BY <1>1, <1>2, <1>5, <1>6 DEF Scan

LEMMA InitScan == Init => ScanInv
<1> SUFFICES ASSUME Init PROVE ScanInv
  OBVIOUS
<1>1. DOMAIN syncStack = {} /\ Idle
  BY EmptySeq DEF Init, Idle
<1> QED BY <1>1 DEF ScanInv, Stacked

LEMMA StepScan == LedgerInv /\ ScanInv /\ [AnyNext]_vars => ScanInv'
<1> SUFFICES ASSUME LedgerInv, ScanInv, [AnyNext]_vars PROVE ScanInv'
  OBVIOUS
<1>1. ASSUME NEW r \in Record, CreateRecord(r) PROVE ScanInv'
  BY <1>1, CreateRecordScan
<1>2. ASSUME NEW r \in pending, OnFetchedRecord(r) PROVE ScanInv'
  BY <1>2, OnFetchedRecordScan
<1>3. CASE Scan
  BY <1>3, ScanStepScan
<1>4. CASE Restart
  <2>1. syncStack' = <<>> /\ scan' = [at |-> 0, stackSize |-> 0]
    BY <1>4 DEF Restart, Reopen
  <2>2. DOMAIN syncStack' = {} /\ Idle'
    BY <2>1, EmptySeq DEF Idle
  <2> QED BY <2>2 DEF ScanInv, Stacked
<1>5. CASE UNCHANGED <<Self, tailRecords, backend, syncStack, scan, created>>
  BY <1>5, ScanUnchanged
<1> QED BY <1>1, <1>2, <1>3, <1>4, <1>5 DEF AnyNext, OnLedgerSyncRequest, SendReplySync,
           LoseInterest, Tick, vars, ledgerVars, fetchVars

\* Between two callbacks no stacked record could be added, in whatever order
\* the records arrived: a pass over the stack that removes nothing has found
\* each of them waiting for another one.
THEOREM StackBlockedAlways == Spec => []StackBlocked
<1>1. ScanInv => StackBlocked
  BY DEF ScanInv, StackBlocked, Stacked, Waits
<1> QED BY <1>1, InitScan, StepScan, NextIsAny, LedgerInvariant, PTL DEF Spec

-----------------------------------------------------------------------------
(***************************************************************************)
(* One peer implements the replicated ledger of which it is the only       *)
(* member.                                                                 *)
(***************************************************************************)

\* The abstract specification sees the same DAG.
LEMMA SameRecords ==
  /\ \A r : Abstract!PointersFromHeader(r) = PointersFromHeader(r)
  /\ \A r : Abstract!ProducerPrefix(r) = ProducerPrefix(r)
  /\ Abstract!GenesisRecords = GenesisRecords
  BY DEF Abstract!PointersFromHeader, PointersFromHeader, Abstract!ProducerPrefix,
         ProducerPrefix, Abstract!GenesisRecords, GenesisRecords, Abstract!Type, Type

LEMMA SameAncestors == Abstract!AncestorsOf = AncestorsOf
  BY DEF Abstract!AncestorsOf, AncestorsOf, Abstract!PointersFromHeader, PointersFromHeader

LEMMA SameCardinality == \A S : Abstract!Cardinality(S) = Cardinality(S)
  BY DEF Abstract!Cardinality, Cardinality

\* What the abstract specification counts are the approvals.
LEMMA SameApprovals ==
  /\ \A r : Abstract!Approvers(admitted, r) = Approvals(r)
  /\ \A r : Abstract!Approvers(admitted', r) = Approvals(r)'
<1>1. \A V, r : Abstract!Approvers(V, r) =
        {ProducerPrefix(a) : a \in {x \in V : r \in AncestorsOf[x]}} \ {ProducerPrefix(r)}
  BY SameAncestors DEF Abstract!Approvers, Abstract!ProducerPrefix, ProducerPrefix
<1> QED BY <1>1 DEF Approvals

\* This peer verifies r: Verify of the replicated ledger, as far as it is about
\* one member.
Admits(r) ==
  /\ PointersFromHeader(r) \subseteq admitted
  /\ admitted' = admitted \cup {r}
  /\ \E C \in SUBSET admitted' :
       /\ backend' = backend \cup C
       /\ \A x \in C : /\ Cardinality(Approvals(x)') >= confirmWeight
                       /\ PointersFromHeader(x) \subseteq backend'

\* To add an endorsed record is to verify it, to add a rejected one changes
\* nothing the replicated ledger sees.
LEMMA AddAdmits ==
  ASSUME LedgerInv, AdmittedInv, NEW r, Addable(r), NEW e \in BOOLEAN,
         AddToTailingRecord(r, e)
  PROVE  /\ AdmittedInv'
         /\ e => Admits(r)
         /\ ~ e => UNCHANGED <<admitted, backend>>
<1> DEFINE U == UpdatedNow(r, e)
           w == WeighedNow(r, e)
           C == Confirmed(w, U)
<1>1. TypeOK /\ TailInv(tailRecords, backend) /\ ApprovalInv
  BY DEF LedgerInv
<1>2. /\ DOMAIN w = DOMAIN tailRecords \cup {r}
      /\ U \subseteq DOMAIN tailRecords
      /\ ~ e => U = {}
      /\ w[r].recordEndorseVerified = e
      /\ \A x \in U : w[x].recordEndorseVerified
      /\ TailInv(w, backend \cup C)
  BY <1>1, WeighedNowFacts
<1>3. /\ admitted' = IF e THEN admitted \cup {r} ELSE admitted
      /\ backend' = backend \cup C
  BY AddDefinition DEF OnRecordsConfirmed
<1>4. C \subseteq U
  BY DEF Confirmed
<1>5. /\ TailInv(tailRecords', backend')
      /\ DOMAIN tailRecords' \subseteq DOMAIN w
      /\ \A x \in DOMAIN tailRecords' : tailRecords'[x] = w[x]
  BY <1>1, TailOutcome
<1>6. ApprovalInv'
  BY <1>1, AddApprovals
<1>7. \A x \in DOMAIN tailRecords :
        w[x].recordEndorseVerified => tailRecords[x].recordEndorseVerified
  BY <1>1, WeighedNowEndorsed
<1> HIDE DEF U, w, C
<1>8. \A x \in DOMAIN w : w[x].recordEndorseVerified => x \in admitted'
  BY <1>2, <1>3, <1>7 DEF AdmittedInv
<1>9. C \subseteq admitted'
  BY <1>2, <1>4, <1>8
<1>10. AdmittedInv'
  BY <1>3, <1>5, <1>8, <1>9 DEF AdmittedInv
<1>11. ASSUME e PROVE Admits(r)
  <2>1. PointersFromHeader(r) \subseteq admitted
    <3>1. \A x \in DOMAIN tailRecords : RecordInv(tailRecords, backend, x)
      BY <1>1, LinkInvParts DEF TailInv
    <3> QED BY <3>1 DEF Addable, HasRecord, AdmittedInv, RecordInv
  <2>2. admitted' = admitted \cup {r}
    BY <1>3, <1>11
  <2>3. \A x \in C : Cardinality(Approvals(x)') >= confirmWeight
    BY <1>3, <1>6 DEF ApprovalInv, ConfirmedByK
  <2>4. \A x \in C : PointersFromHeader(x) \subseteq backend'
    BY <1>3, <1>5, LinkInvParts DEF TailInv, Closed
  <2> QED BY <1>3, <1>9, <2>1, <2>2, <2>3, <2>4 DEF Admits
<1>12. ASSUME ~ e PROVE UNCHANGED <<admitted, backend>>
  BY <1>2, <1>3, <1>4, <1>12
<1> QED BY <1>10, <1>11, <1>12

\* Every step keeps AdmittedInv, and verifies a record, one this peer makes or
\* one that was stacked, or changes nothing the replicated ledger sees.
LEMMA StepAdmits ==
  ASSUME LedgerInv, AdmittedInv, [AnyNext]_vars
  PROVE  /\ AdmittedInv'
         /\ \/ UNCHANGED <<admitted, backend>>
            \/ \E r \in Record : Admits(r) /\ (CreateRecord(r) \/ r \in Stacked)
<1>1. CASE UNCHANGED <<tailRecords, backend, admitted>>
  BY <1>1 DEF AdmittedInv
<1>2. ASSUME NEW r \in Record, CreateRecord(r) PROVE AdmittedInv' /\ Admits(r)
  BY <1>2, CreateRecordAddable, AddAdmits
<1>3. CASE ScanAdd
  <2> DEFINE e == CheckEndorseValidityOfRecord(Current)
  <2>1. /\ Addable(Current) /\ Current \in Stacked
        /\ e \in BOOLEAN /\ AddToTailingRecord(Current, e)
    BY <1>3, ScanAddAddable
  <2> HIDE DEF e
  <2>2. AdmittedInv' /\ (e => Admits(Current)) /\ (~ e => UNCHANGED <<admitted, backend>>)
    BY <2>1, AddAdmits
  <2> QED BY <2>1, <2>2 DEF Addable
<1>4. CASE Restart
  <2>1. DOMAIN tailRecords' = GenesisRecords /\ UNCHANGED <<backend, admitted>>
    BY <1>4 DEF Restart, Reopen, GenesisTail
  <2> QED BY <2>1 DEF AdmittedInv
<1> QED BY <1>1, <1>2, <1>3, <1>4 DEF AnyNext, Scan, OnLedgerSyncRequest, SendReplySync,
           OnFetchedRecord, ScanExpire, ScanKeep, ScanEnd, LoseInterest, Tick, vars, ledgerVars

LEMMA InitAdmitted == Init => AdmittedInv
  BY DEF Init, GenesisTail, AdmittedInv

\* What a peer admits and stores it admits and stores as the one member of a
\* replicated ledger does: after its parents, approved by confirmWeight
\* producers, with its history, and never taken back.
THEOREM LedgerImplementsReplicatedLedger ==
  ASSUME NEW self, Member = {self}
  PROVE  Spec => ImplementsLedger
<1>1. Init => Abstract!Init
  <2> SUFFICES ASSUME Init PROVE Abstract!Init
    OBVIOUS
  <2>1. backend = {} /\ admitted = GenesisRecords
    BY DEF Init
  <2> QED BY <2>1, SameRecords DEF Abstract!Init
<1>2. LedgerInv /\ AdmittedInv /\ [Next]_vars => AdmittedInv' /\ [Abstract!Next]_(Abstract!vars)
  <2> SUFFICES ASSUME LedgerInv, AdmittedInv, [Next]_vars
               PROVE  AdmittedInv' /\ [Abstract!Next]_(Abstract!vars)
    OBVIOUS
  <2>1. /\ AdmittedInv'
        /\ UNCHANGED <<admitted, backend>> \/ \E r \in Record : Admits(r)
    BY NextIsAny, StepAdmits
  <2>2. CASE UNCHANGED <<admitted, backend>>
    BY <2>1, <2>2 DEF Abstract!vars
  <2>3. ASSUME NEW r \in Record, Admits(r) PROVE Abstract!Verify(self, r)
    <3>1. PICK C \in SUBSET admitted' :
            /\ backend' = backend \cup C
            /\ \A x \in C : /\ Cardinality(Approvals(x)') >= confirmWeight
                            /\ PointersFromHeader(x) \subseteq backend'
      BY <2>3 DEF Admits
    <3>2. /\ [p \in Member |-> admitted'] =
               [[p \in Member |-> admitted] EXCEPT ![self] = admitted \cup {r}]
          /\ [p \in Member |-> backend'] =
               [[p \in Member |-> backend] EXCEPT ![self] = backend \cup C]
      BY <2>3, <3>1 DEF Admits
    <3>3. C \in SUBSET {x \in admitted' :
                  Abstract!Cardinality(Abstract!Approvers(admitted', x)) >= confirmWeight}
      BY <3>1, SameApprovals, SameCardinality
    <3>4. Abstract!PointersFromHeader(r) \subseteq admitted
          /\ \A x \in C : Abstract!PointersFromHeader(x) \subseteq backend'
      BY <2>3, <3>1, SameRecords DEF Admits
    <3> QED BY <3>2, <3>3, <3>4 DEF Abstract!Verify
  <2> QED BY <2>1, <2>2, <2>3 DEF Abstract!Next
<1> QED BY <1>1, <1>2, InitAdmitted, LedgerInvariant, PTL DEF Spec, ImplementsLedger, Abstract!Spec

-----------------------------------------------------------------------------
(***************************************************************************)
(* CountingInv: weights are exact.                                         *)
(***************************************************************************)

\* How a record is added: an endorsed one points to tailing records only.
AddStep(r, e) ==
  /\ Addable(r)
  /\ e \in BOOLEAN
  /\ AddToTailingRecord(r, e)
  /\ restarts' = restarts
  /\ e => PointersFromHeader(r) \subseteq DOMAIN tailRecords

LEMMA CreateRecordAdds ==
  ASSUME LedgerInv, NEW r \in Record, CreateRecord(r)
  PROVE  AddStep(r, TRUE)
<1>1. PointersFromHeader(r) \subseteq DOMAIN tailRecords
  BY DEF CreateRecord, CanCreate, Appendable
<1> QED BY <1>1, CreateRecordAddable DEF AddStep

LEMMA ScanAddAdds ==
  ASSUME LedgerInv, ScanAdd
  PROVE  AddStep(Current, CheckEndorseValidityOfRecord(Current))
<1>1. CheckEndorseValidityOfRecord(Current)
        => PointersFromHeader(Current) \subseteq DOMAIN tailRecords
  BY DEF CheckEndorseValidityOfRecord, ContributionPolicy
<1> QED BY <1>1, ScanAddAddable DEF AddStep

\* Records without a place in the new table: the deep ones, and those timed out.
LEMMA SettledNowDomain ==
  ASSUME LedgerInv, NEW r, NEW e, AddStep(r, e)
  PROVE  /\ DOMAIN SettledNow(r, e) =
              {x \in DOMAIN WeighedNow(r, e) :
                 x \in UpdatedNow(r, e) => Weight(WeighedNow(r, e), x) < removeWeight}
         /\ DOMAIN tailRecords' \subseteq DOMAIN SettledNow(r, e)
         /\ timedOut' = {} => timedOut = {} /\ DOMAIN tailRecords' = DOMAIN SettledNow(r, e)
<1> DEFINE U == UpdatedNow(r, e)
           w == WeighedNow(r, e)
           s == SettledNow(r, e)
<1>1. TypeOK /\ TailInv(tailRecords, backend) /\ Addable(r) /\ e \in BOOLEAN
  BY DEF LedgerInv, AddStep
<1>2. TableOK(w)
  BY <1>1, WeighedNowFacts
<1>3. s = Settled(w, U)
  BY DEF SettledNow
<1>4. /\ tailRecords' = RemoveTimeoutRecords(s, now)
      /\ timedOut' = timedOut \cup (DOMAIN s \ DOMAIN tailRecords')
  BY AddDefinition DEF AddStep
<1> HIDE DEF U, w, s
<1>5. DOMAIN s = DOMAIN w \ {y \in U : Weight(w, y) >= removeWeight}
  BY <1>3 DEF Settled
<1>6. \A x \in DOMAIN w : Weight(w, x) \in Nat
  BY <1>2, StateFields
<1>7. DOMAIN s = {x \in DOMAIN w : x \in U => Weight(w, x) < removeWeight}
  BY <1>5, <1>6, RemoveWeightBound
<1>8. DOMAIN tailRecords' \subseteq DOMAIN s
  BY <1>4 DEF RemoveTimeoutRecords
<1> QED BY <1>4, <1>7, <1>8 DEF U, w, s

\* A record that reaches removeWeight leaves at once.
LEMMA AddLightTails ==
  ASSUME LedgerInv, LightTails, NEW r, NEW e, AddStep(r, e)
  PROVE  LightTails'
<1> DEFINE U == UpdatedNow(r, e)
           w == WeighedNow(r, e)
<1>1. TypeOK /\ TailInv(tailRecords, backend) /\ Addable(r) /\ e \in BOOLEAN
  BY DEF LedgerInv, AddStep
<1>2. AddToTailingRecord(r, e)
  BY DEF AddStep
<1>3. DOMAIN w = DOMAIN tailRecords \cup {r} /\ w[r].refSet = {}
  BY <1>1, WeighedNowFacts
<1>4. \A x \in DOMAIN tailRecords' : tailRecords'[x] = w[x]
  BY <1>1, <1>2, TailOutcome
<1>5. \A x \in DOMAIN tailRecords' : x \in DOMAIN w /\ (x \in U => Weight(w, x) < removeWeight)
  BY SettledNowDomain
<1>6. \A x \in DOMAIN tailRecords : x \notin U => w[x].refSet = tailRecords[x].refSet
  BY <1>1, WeighedNowRefSets
<1> HIDE DEF U, w
<1> SUFFICES ASSUME NEW x \in DOMAIN tailRecords'
             PROVE  Weight(tailRecords', x) < removeWeight
  BY DEF LightTails, Weight
<1>7. Weight(tailRecords', x) = Weight(w, x)
  BY <1>4 DEF Weight
<1>8. CASE x \in U
  BY <1>5, <1>7, <1>8
<1>9. CASE x \notin U /\ x \in DOMAIN tailRecords
  <2>1. Weight(w, x) = Weight(tailRecords, x)
    BY <1>6, <1>9 DEF Weight
  <2> QED BY <1>7, <1>9, <2>1 DEF LightTails
<1>10. CASE x = r
  <2>1. Weight(w, x) = 0
    BY <1>3, <1>10, FS_EmptySet DEF Weight
  <2> QED BY <1>7, <2>1, RemoveWeightBound, WeightAssumption
<1> QED BY <1>3, <1>5, <1>8, <1>9, <1>10

\* The ancestors of an admitted record are admitted.
LEMMA AdmittedAncestors ==
  ASSUME TypeOK, AdmittedClosed, NEW a \in admitted
  PROVE  AncestorsOf[a] \subseteq admitted
  BY AncestorsWithin DEF TypeOK, AdmittedClosed

LEMMA AddAdmitted ==
  ASSUME LedgerInv, AdmittedInv, NEW r, NEW e, AddStep(r, e)
  PROVE  /\ r \in Record
         /\ e => PointersFromHeader(r) \subseteq admitted
         /\ admitted' = IF e THEN admitted \cup {r} ELSE admitted
<1>1. \A x \in DOMAIN tailRecords : RecordInv(tailRecords, backend, x)
  BY LinkInvParts DEF LedgerInv, TailInv
<1>2. \A p \in PointersFromHeader(r) : HasRecord(tailRecords, backend, p)
  BY DEF AddStep, Addable
<1>3. PointersFromHeader(r) \subseteq admitted
  BY <1>1, <1>2 DEF HasRecord, AdmittedInv, RecordInv
<1>4. admitted' = IF e THEN admitted \cup {r} ELSE admitted
  BY AddDefinition DEF AddStep
<1> QED BY <1>3, <1>4 DEF AddStep, Addable

LEMMA AddAdmittedClosed ==
  ASSUME LedgerInv, AdmittedInv, AdmittedClosed, NEW r, NEW e, AddStep(r, e)
  PROVE  AdmittedClosed'
  BY AddAdmitted DEF AdmittedClosed, AddStep

(***************************************************************************)
(* After the traversal from an endorsed record every tailing ancestor by   *)
(* another producer counts r's producer.  The set of the admitted records  *)
(* of which this is true, if they are tailing, is closed under pointers:   *)
(* a tailing record approves what its approvers approve, and a removed one *)
(* has no tailing parents.                                                 *)
(***************************************************************************)
LEMMA TraversalIsComplete ==
  ASSUME LedgerInv, CountingInv, Undisturbed, NEW r, AddStep(r, TRUE),
         NEW x \in AncestorsOf[r] \cap DOMAIN tailRecords
  PROVE  ProducerPrefix(r) \in WeighedNow(r, TRUE)[x].refSet \cup {ProducerPrefix(x)}
<1> DEFINE me == ProducerPrefix(r)
           w == WeighedNow(r, TRUE)
           counted == {y \in admitted :
                         y \in DOMAIN tailRecords => me \in w[y].refSet \cup {ProducerPrefix(y)}}
<1>1. /\ TypeOK /\ TailInv(tailRecords, backend) /\ Addable(r)
      /\ PointersFromHeader(r) \subseteq DOMAIN tailRecords
  BY DEF LedgerInv, AddStep
<1>2. /\ DOMAIN w = DOMAIN tailRecords \cup {r}
      /\ w[r].recordEndorseVerified = TRUE
      /\ TailInv(w, backend \cup Confirmed(w, UpdatedNow(r, TRUE)))
  BY <1>1, WeighedNowFacts
<1>3. \A c \in DOMAIN w : Approves(w, c)
  BY <1>2 DEF TailInv
<1>4. \A c \in DOMAIN tailRecords :
        c \in admitted => w[c].recordEndorseVerified
  BY <1>1, WeighedNowEndorsed DEF CountingInv, ExactInv
<1>5. PointersFromHeader(r) \subseteq admitted /\ r \in Record
  BY AddAdmitted DEF CountingInv
<1>6. counted \subseteq Record
  BY <1>1 DEF TypeOK
<1> HIDE DEF w, me
<1>7. PointersFromHeader(r) \subseteq counted
  <2> SUFFICES ASSUME NEW p \in PointersFromHeader(r) PROVE me \in w[p].refSet
    BY <1>5
  <2>1. ProducerPrefix(r) \in w[p].refSet
    BY <1>1, <1>2, <1>3 DEF Approves
  <2> QED BY <2>1 DEF me
<1>8. ASSUME NEW c \in counted, NEW p \in PointersFromHeader(c) PROVE p \in counted
  <2>1. p \in admitted
    BY DEF CountingInv, AdmittedClosed
  <2>2. ASSUME p \in DOMAIN tailRecords
        PROVE  me \in w[p].refSet \cup {ProducerPrefix(p)}
    <3>1. c \in DOMAIN tailRecords
      BY <2>2 DEF CountingInv, ExactInv
    <3>2. w[c].recordEndorseVerified /\ c \in DOMAIN w /\ p \in DOMAIN w
      BY <1>2, <1>4, <2>2, <3>1
    <3>3. (w[c].refSet \ {ProducerPrefix(p)}) \cup {ProducerPrefix(c)} \subseteq w[p].refSet
      BY <1>3, <3>2 DEF Approves
    <3>4. me \in w[c].refSet \cup {ProducerPrefix(c)}
      BY <3>1
    <3> QED BY <3>3, <3>4
  <2> QED BY <2>1, <2>2
<1> HIDE DEF counted
<1>9. \A p \in PointersFromHeader(r) : AncestorsOf[p] \subseteq counted
  BY <1>6, <1>7, <1>8, AncestorsWithin
<1>10. AncestorsOf[r] \subseteq counted
  BY <1>5, <1>7, <1>9, AncestorsUnfold
<1> QED BY <1>10 DEF counted, w, me

\* The parents of a record that leaves are at least as heavy, and leave or
\* have left.
LEMMA DeepLeaveTogether ==
  ASSUME LedgerInv, CountingInv, LightTails', NEW r, NEW e, AddStep(r, e),
         NEW c \in DOMAIN WeighedNow(r, e) \ DOMAIN SettledNow(r, e)
  PROVE  PointersFromHeader(c) \cap DOMAIN tailRecords' = {}
<1> DEFINE U == UpdatedNow(r, e)
           w == WeighedNow(r, e)
<1>1. TypeOK /\ TailInv(tailRecords, backend) /\ Addable(r) /\ e \in BOOLEAN
      /\ AddToTailingRecord(r, e)
  BY DEF LedgerInv, AddStep
<1>2. /\ TableOK(w)
      /\ DOMAIN w = DOMAIN tailRecords \cup {r}
      /\ \A x \in U : w[x].recordEndorseVerified
      /\ TailInv(w, backend \cup Confirmed(w, U))
  BY <1>1, WeighedNowFacts
<1>3. c \in U /\ Weight(w, c) >= removeWeight
  <2>1. c \in U /\ ~ (Weight(w, c) < removeWeight)
    BY SettledNowDomain
  <2>2. Weight(w, c) \in Nat
    BY <1>2, StateFields
  <2> QED BY <2>1, <2>2, RemoveWeightBound
<1>4. /\ DOMAIN tailRecords' \subseteq DOMAIN w
      /\ \A x \in DOMAIN tailRecords' : tailRecords'[x] = w[x]
  BY <1>1, TailOutcome
<1> HIDE DEF U, w
<1> SUFFICES ASSUME NEW p \in PointersFromHeader(c), p \in DOMAIN tailRecords' PROVE FALSE
  OBVIOUS
<1>5. p \in DOMAIN w
  BY <1>4
<1>6. /\ c \in DOMAIN w
      /\ Approves(w, c)
      /\ ProducerPrefix(c) \notin w[c].refSet
  BY <1>2, LinkInvParts DEF TailInv, RecordInv, w
<1>7. Weight(w, c) <= Weight(w, p)
  BY <1>2, <1>3, <1>5, <1>6, ParentHeavier
<1>8. Weight(w, p) < removeWeight
  <2>1. Weight(tailRecords', p) < removeWeight
    BY DEF LightTails, Weight
  <2> QED BY <1>4, <2>1 DEF Weight
<1>9. Weight(w, c) \in Nat /\ Weight(w, p) \in Nat
  BY <1>2, <1>5, <1>6, StateFields
<1> QED BY <1>3, <1>7, <1>8, <1>9, RemoveWeightBound

LEMMA AddExact ==
  ASSUME LedgerInv, CountingInv, LightTails', NEW r, NEW e, AddStep(r, e)
  PROVE  ExactInv'
<1> SUFFICES ASSUME Undisturbed'
             PROVE  /\ admitted' \subseteq DOMAIN tailRecords' \cup backend'
                    /\ \A x \in DOMAIN tailRecords' :
                         /\ x \in admitted' => tailRecords'[x].recordEndorseVerified
                         /\ Approvals(x)' \subseteq tailRecords'[x].refSet
                    /\ \A c \in admitted' \ DOMAIN tailRecords' :
                         PointersFromHeader(c) \cap DOMAIN tailRecords' = {}
  BY DEF ExactInv
<1> DEFINE U == UpdatedNow(r, e)
           w == WeighedNow(r, e)
<1>1. TypeOK /\ TailInv(tailRecords, backend) /\ Addable(r) /\ e \in BOOLEAN
      /\ AddToTailingRecord(r, e) /\ restarts' = restarts
  BY DEF LedgerInv, AddStep
<1>2. /\ Undisturbed
      /\ DOMAIN tailRecords' = {x \in DOMAIN w : x \in U => Weight(w, x) < removeWeight}
  BY <1>1, SettledNowDomain DEF Undisturbed
<1>3. /\ TableOK(w)
      /\ DOMAIN w = DOMAIN tailRecords \cup {r}
      /\ U \subseteq DOMAIN tailRecords
      /\ w[r].recordEndorseVerified = e
      /\ TailInv(w, backend \cup Confirmed(w, U))
  BY <1>1, WeighedNowFacts
<1>4. \A x \in DOMAIN tailRecords' : tailRecords'[x] = w[x]
  BY <1>1, TailOutcome
<1>5. backend' = backend \cup Confirmed(w, U)
  BY AddDefinition, <1>1 DEF OnRecordsConfirmed
<1>6. \A x \in DOMAIN tailRecords :
        /\ w[x].recordEndorseVerified = tailRecords[x].recordEndorseVerified
        /\ tailRecords[x].refSet \subseteq w[x].refSet
  BY <1>1, WeighedNowEndorsed, WeighedNowRefSets
<1>7. /\ r \in Record
      /\ e => PointersFromHeader(r) \subseteq admitted
      /\ admitted' = IF e THEN admitted \cup {r} ELSE admitted
  BY AddAdmitted DEF CountingInv
<1>8. r \notin admitted
  BY <1>1, <1>2 DEF Addable, Seen, SeenRecord, CountingInv, ExactInv
<1>9. DOMAIN w \ DOMAIN tailRecords' = DOMAIN w \ DOMAIN SettledNow(r, e)
  BY <1>2, SettledNowDomain
<1>10. \A c \in DOMAIN w \ DOMAIN tailRecords' :
         PointersFromHeader(c) \cap DOMAIN tailRecords' = {}
  BY <1>9, DeepLeaveTogether
<1>11. \A x \in AncestorsOf[r] \cap DOMAIN tailRecords :
         e => ProducerPrefix(r) \in w[x].refSet \cup {ProducerPrefix(x)}
  <2>1. CASE e
    <3>1. e = TRUE
      BY <1>1, <2>1
    <3> QED BY <1>2, <3>1, TraversalIsComplete
  <2> QED BY <2>1
<1> HIDE DEF U, w
<1>12. ASSUME NEW x \in admitted' PROVE x \in DOMAIN tailRecords' \cup backend'
  <2>1. x \in DOMAIN w \cup backend
    BY <1>2, <1>3, <1>7 DEF CountingInv, ExactInv
  <2>2. ASSUME x \in DOMAIN w, x \notin DOMAIN tailRecords' PROVE x \in backend'
    <3>1. Weight(w, x) \in Nat
      BY <1>3, <2>2, StateFields
    <3>2. Weight(w, x) >= confirmWeight
      BY <1>2, <2>2, <3>1, RemoveWeightBound, WeightAssumption
    <3>3. RecordInv(w, backend \cup Confirmed(w, U), x)
      BY <1>3, <2>2, LinkInvParts DEF TailInv
    <3> QED BY <1>5, <3>2, <3>3 DEF RecordInv
  <2> QED BY <1>5, <2>1, <2>2
<1>13. ASSUME NEW x \in DOMAIN tailRecords', x \in admitted'
       PROVE  tailRecords'[x].recordEndorseVerified
  <2>1. x \in DOMAIN tailRecords \/ x = r
    BY <1>2, <1>3
  <2>2. CASE x \in DOMAIN tailRecords
    <3>1. x # r
      BY <1>1, <2>2 DEF Addable, Seen, SeenRecord
    <3>2. tailRecords[x].recordEndorseVerified
      BY <1>2, <1>7, <1>13, <2>2, <3>1 DEF CountingInv, ExactInv
    <3> QED BY <1>4, <1>6, <2>2, <3>2
  <2>3. CASE x = r
    BY <1>3, <1>4, <1>7, <1>8, <1>13, <2>3
  <2> QED BY <2>1, <2>2, <2>3
<1>14. ASSUME NEW x \in DOMAIN tailRecords', NEW a \in admitted', x \in AncestorsOf[a],
              ProducerPrefix(a) # ProducerPrefix(x)
       PROVE  ProducerPrefix(a) \in w[x].refSet
  <2>1. CASE a \in admitted
    <3>1. x \in admitted
      BY <1>1, <1>14, <2>1, AdmittedAncestors DEF CountingInv
    <3>2. x \in DOMAIN tailRecords
      BY <1>2, <1>3, <1>8, <3>1
    <3>3. ProducerPrefix(a) \in Approvals(x)
      BY <1>14, <2>1 DEF Approvals
    <3> QED BY <1>2, <1>6, <3>2, <3>3 DEF CountingInv, ExactInv
  <2>2. CASE a = r /\ e
    <3>1. x \in DOMAIN tailRecords
      BY <1>2, <1>3, <1>7, <1>14, <2>2, NoCycles
    <3> QED BY <1>11, <1>14, <2>2, <3>1
  <2> QED BY <1>7, <2>1, <2>2
<1>15. ASSUME NEW x \in DOMAIN tailRecords' PROVE Approvals(x)' \subseteq tailRecords'[x].refSet
  BY <1>4, <1>14 DEF Approvals
<1>16. ASSUME NEW c \in admitted' \ DOMAIN tailRecords'
       PROVE  PointersFromHeader(c) \cap DOMAIN tailRecords' = {}
  <2>1. CASE c \in DOMAIN w
    BY <1>10, <2>1
  <2>2. CASE c \notin DOMAIN w
    <3>1. c \in admitted /\ c \notin DOMAIN tailRecords
      BY <1>3, <1>7, <2>2
    <3>2. r \notin PointersFromHeader(c)
      BY <1>8, <3>1 DEF CountingInv, AdmittedClosed
    <3>3. PointersFromHeader(c) \cap DOMAIN tailRecords = {}
      BY <1>2, <3>1 DEF CountingInv, ExactInv
    <3> QED BY <1>2, <1>3, <3>2, <3>3
  <2> QED BY <2>1, <2>2
<1> QED BY <1>12, <1>13, <1>15, <1>16

\* Adding a record keeps the counting exact.
LEMMA AddCounting ==
  ASSUME LedgerInv, CountingInv, NEW r, NEW e, AddStep(r, e)
  PROVE  CountingInv'
<1>1. LightTails' /\ AdmittedClosed'
  BY AddLightTails, AddAdmittedClosed DEF CountingInv
<1>2. ExactInv'
  BY <1>1, AddExact
<1>3. AdmittedInv'
  BY AddAdmits DEF AddStep, CountingInv
<1> QED BY <1>1, <1>2, <1>3 DEF CountingInv

LEMMA InitCounting == Init => CountingInv
<1> SUFFICES ASSUME Init PROVE CountingInv
  OBVIOUS
<1>1. /\ DOMAIN tailRecords = GenesisRecords
      /\ \A g \in GenesisRecords : tailRecords[g].refSet = {} /\ tailRecords[g].recordEndorseVerified
      /\ admitted = GenesisRecords /\ backend = {}
  BY DEF Init, GenesisTail
<1>2. \A g \in GenesisRecords : g \in Record /\ PointersFromHeader(g) = {}
  BY GenesisAssumption DEF Named, GenesisRecords
<1>3. AdmittedInv
  BY <1>1 DEF AdmittedInv
<1>4. LightTails
  BY <1>1, FS_EmptySet, RemoveWeightBound, WeightAssumption DEF LightTails, Weight
<1>5. AdmittedClosed
  BY <1>1, <1>2 DEF AdmittedClosed
<1>6. \A g \in GenesisRecords : AncestorsOf[g] = {}
  BY <1>2, AncestorsUnfold
<1>7. ExactInv
  BY <1>1, <1>2, <1>6 DEF ExactInv, Approvals
<1> QED BY <1>3, <1>4, <1>5, <1>7 DEF CountingInv

LEMMA StepCounting ==
  ASSUME LedgerInv, CountingInv, [AnyNext]_vars
  PROVE  CountingInv'
<1>1. CASE UNCHANGED <<tailRecords, backend, admitted, restarts, timedOut>>
  <2>1. AdmittedInv' /\ LightTails' /\ AdmittedClosed'
    BY <1>1 DEF CountingInv, AdmittedInv, LightTails, AdmittedClosed, Weight
  <2>2. ExactInv'
    BY <1>1 DEF CountingInv, ExactInv, Undisturbed, Approvals
  <2> QED BY <2>1, <2>2 DEF CountingInv
<1>2. ASSUME NEW r \in Record, CreateRecord(r) PROVE CountingInv'
  BY <1>2, CreateRecordAdds, AddCounting
<1>3. CASE ScanAdd
  BY <1>3, ScanAddAdds, AddCounting
<1>4. CASE Restart
  <2>1. /\ tailRecords' = GenesisTail(now) /\ restarts' = restarts + 1
        /\ UNCHANGED <<backend, admitted>>
    BY <1>4 DEF Restart, Reopen
  <2>2. ~ Undisturbed'
    BY <2>1 DEF Undisturbed, LedgerInv, TypeOK
  <2>3. DOMAIN tailRecords' = GenesisRecords /\ \A g \in GenesisRecords : tailRecords'[g].refSet = {}
    BY <2>1 DEF GenesisTail
  <2>4. LightTails'
    BY <2>3, FS_EmptySet, RemoveWeightBound, WeightAssumption DEF LightTails, Weight
  <2>5. AdmittedInv' /\ AdmittedClosed'
    BY <2>1, <2>3 DEF CountingInv, AdmittedInv, AdmittedClosed
  <2> QED BY <2>2, <2>4, <2>5 DEF CountingInv, ExactInv
<1> QED BY <1>1, <1>2, <1>3, <1>4 DEF AnyNext, Scan, OnLedgerSyncRequest, SendReplySync,
           OnFetchedRecord, ScanExpire, ScanKeep, ScanEnd, LoseInterest, Tick, vars,
           ledgerVars, countVars, fetchVars

LEMMA CountingInvariant == Spec => [](LedgerInv /\ CountingInv)
<1>1. LedgerInv /\ CountingInv /\ [Next]_vars => CountingInv'
  BY StepCounting, NextIsAny
<1> QED BY <1>1, InitCounting, LedgerInvariant, PTL DEF Spec

\* The weight of a tailing record is the number of producers that approved it,
\* directly or not: the traversal of addToTailingRecord misses none, though it
\* stops at records that were counted before, at those of the same producer
\* and at those that were removed.
THEOREM WeightIsApprovalsAlways == Spec => []WeightIsApprovals
<1>1. LedgerInv /\ CountingInv => WeightIsApprovals
  BY DEF LedgerInv, ApprovalInv, CountingInv, ExactInv, WeightIsApprovals
<1> QED BY <1>1, CountingInvariant, PTL

\* A record is in the database just when confirmWeight producers have approved
\* it: the weight never steps over the one value at which records are stored.
THEOREM ConfirmedAtKAlways == Spec => []ConfirmedAtK
<1>1. LedgerInv /\ CountingInv => ConfirmedAtK
  <2> SUFFICES ASSUME LedgerInv, CountingInv, Undisturbed
               PROVE  backend = {r \in admitted : Cardinality(Approvals(r)) >= confirmWeight}
    BY DEF ConfirmedAtK
  <2>1. \A r \in backend : r \in admitted /\ Cardinality(Approvals(r)) >= confirmWeight
    BY DEF LedgerInv, ApprovalInv, ConfirmedByK, CountingInv, AdmittedInv
  <2>2. ASSUME NEW r \in admitted, Cardinality(Approvals(r)) >= confirmWeight, r \notin backend
        PROVE  FALSE
    <3>1. r \in DOMAIN tailRecords
      BY <2>2 DEF CountingInv, ExactInv
    <3>2. tailRecords[r].refSet = Approvals(r)
      BY <3>1 DEF LedgerInv, ApprovalInv, CountingInv, ExactInv
    <3>3. Weight(tailRecords, r) >= confirmWeight
      BY <2>2, <3>2 DEF Weight
    <3>4. RecordInv(tailRecords, backend, r)
      BY <3>1, LinkInvParts DEF LedgerInv, TailInv
    <3> QED BY <2>2, <3>3, <3>4 DEF RecordInv
  <2> QED BY <2>1, <2>2
<1> QED BY <1>1, CountingInvariant, PTL

\* Of the admitted records that are r or descend from it, the newest has no
\* approvals, so it is still tailing and a tip.
LEMMA TipsCover == LedgerInv /\ CountingInv => TipsCoverLedger
<1> SUFFICES ASSUME LedgerInv, CountingInv, Undisturbed,
                    NEW r \in {x \in DOMAIN tailRecords : tailRecords[x].parentEndorseVerified}
                                \cup backend
             PROVE  \E tip \in SyncTips(tailRecords) : r \in AncestorsOf[tip] \cup {tip}
  BY DEF TipsCoverLedger
<1> DEFINE D == {x \in admitted : r \in AncestorsOf[x] \cup {x}}
<1>1. TypeOK /\ \A x \in DOMAIN tailRecords : RecordInv(tailRecords, backend, x)
  BY LinkInvParts DEF LedgerInv, TailInv
<1>2. r \in admitted
  BY <1>1 DEF CountingInv, AdmittedInv, RecordInv
<1>3. D \in SUBSET Record /\ D # {}
  BY <1>1, <1>2 DEF TypeOK
<1> HIDE DEF D
<1>4. PICK m \in D : \A s \in D : m \in RestsOn[s] => s = m
  BY <1>3, NewestRecord
<1>5. m \in admitted /\ m \in Record /\ r \in AncestorsOf[m] \cup {m}
  BY <1>1 DEF D, TypeOK
<1>6. ASSUME NEW a \in admitted, m \in AncestorsOf[a] PROVE FALSE
  <2>1. a \in Record
    BY <1>1 DEF TypeOK
  <2>2. AncestorsOf[m] \subseteq AncestorsOf[a]
    <3>1. AncestorsOf[a] \in SUBSET Record
      BY <1>1, AdmittedAncestors DEF CountingInv, TypeOK
    <3>2. \A y \in AncestorsOf[a] : PointersFromHeader(y) \subseteq AncestorsOf[a]
      BY <2>1, AncestorsClosed
    <3> QED BY <1>6, <3>1, <3>2, AncestorsWithin
  <2>3. a \in D
    BY <1>5, <1>6, <2>2 DEF D
  <2>4. a = m
    BY <1>4, <1>6, <2>1, <2>3, AncestorsRestOn
  <2> QED BY <1>6, <2>1, <2>4, NoCycles
<1>7. Approvals(m) = {}
  BY <1>6 DEF Approvals
<1>8. m \notin backend
  BY <1>7, FS_EmptySet, WeightAssumption DEF LedgerInv, ApprovalInv, ConfirmedByK
<1>9. m \in DOMAIN tailRecords
  BY <1>5, <1>8 DEF CountingInv, ExactInv
<1>10. tailRecords[m].refSet = {}
  BY <1>7, <1>9 DEF LedgerInv, ApprovalInv
<1>11. tailRecords[m].parentEndorseVerified
  BY <1>1, <1>5, <1>9 DEF CountingInv, ExactInv, RecordInv
<1> QED BY <1>5, <1>9, <1>10, <1>11 DEF SyncTips

\* Every record this peer has verified or stored is an advertised tip or the
\* ancestor of one.
THEOREM TipsCoverLedgerAlways == Spec => []TipsCoverLedger
  BY TipsCover, CountingInvariant, PTL

-----------------------------------------------------------------------------
(***************************************************************************)
(* The certificate tables and the heads of the certificate chains follow   *)
(* the database.  R are the records one addition confirms.                 *)
(***************************************************************************)
CertInv ==
  restarts = 0 =>
    /\ StartingCerts \subseteq peerCertificates
    /\ peerCertificates \subseteq StartingCerts \cup UNION {Certificates(q) : q \in backend}
    /\ revokedCertificates \subseteq UNION {RevokedCertificates(q) : q \in backend}
    /\ ConfirmedChangesEffective

\* What is trusted follows from what is confirmed.
LEMMA TrustFollowsLedger ==
  ASSUME CertInv, restarts = 0
  PROVE  peerCertificates \ revokedCertificates = LiveCertificates(backend)
  BY DEF CertInv, ConfirmedChangesEffective, LiveCertificates

LEMMA ConfirmedCertificates ==
  ASSUME TypeOK, CertInv, NEW R \in SUBSET Record, OnRecordsConfirmed(R, {}),
         restarts' = restarts
  PROVE  CertInv'
<1> SUFFICES ASSUME restarts = 0
             PROVE  /\ StartingCerts \subseteq peerCertificates'
                    /\ peerCertificates'
                         \subseteq StartingCerts \cup UNION {Certificates(q) : q \in backend'}
                    /\ revokedCertificates' \subseteq UNION {RevokedCertificates(q) : q \in backend'}
                    /\ ConfirmedChangesEffective'
  BY DEF CertInv
<1>1. /\ backend' = backend \cup R
      /\ peerCertificates' = CertsAfter(peerCertificates, revokedCertificates, R)
      /\ revokedCertificates' = RevokedAfter(revokedCertificates, R)
  BY DEF OnRecordsConfirmed
<1>2. /\ peerCertificates \subseteq peerCertificates'
      /\ revokedCertificates \subseteq revokedCertificates'
  BY <1>1 DEF CertsAfter, RevokedAfter
<1>3. peerCertificates' \subseteq peerCertificates \cup UNION {Certificates(q) : q \in R}
  BY <1>1 DEF CertsAfter
<1>4. ASSUME NEW r \in R
      PROVE  /\ RevokedCertificates(r) \subseteq revokedCertificates'
             /\ Certificates(r) \subseteq peerCertificates' \cup revokedCertificates'
  <2>1. RevokedAfter(revokedCertificates, Before(r, R)) \subseteq revokedCertificates'
    BY <1>1 DEF RevokedAfter, Before
  <2>2. Certificates(r) \ RevokedAfter(revokedCertificates, Before(r, R)) \subseteq peerCertificates'
    BY <1>1 DEF CertsAfter
  <2>3. RevokedCertificates(r) \subseteq revokedCertificates'
    BY <1>1 DEF RevokedAfter
  <2> QED BY <2>1, <2>2, <2>3
<1>5. ConfirmedChangesEffective'
  BY <1>1, <1>2, <1>4 DEF CertInv, ConfirmedChangesEffective
<1>6. peerCertificates' \subseteq StartingCerts \cup UNION {Certificates(q) : q \in backend'}
  BY <1>1, <1>3 DEF CertInv
<1>7. revokedCertificates' \subseteq UNION {RevokedCertificates(q) : q \in backend'}
  BY <1>1 DEF CertInv, RevokedAfter
<1>8. StartingCerts \subseteq peerCertificates'
  BY <1>2 DEF CertInv
<1> QED BY <1>5, <1>6, <1>7, <1>8

\* Of the certificate records that lead to c, the newest stays a head: none of
\* the records confirmed names it.
LEMMA ConfirmedChains ==
  ASSUME TypeOK, ChainsCoverCertificates, NEW R \in SUBSET Record, OnRecordsConfirmed(R, {}),
         restarts' = restarts
  PROVE  ChainsCoverCertificates'
<1> SUFFICES ASSUME restarts = 0, NEW c \in backend', Type(c) = "CERTIFICATE_RECORD"
             PROVE  \E h \in lastCertRecords' : c \in ChainOf[h]
  BY DEF ChainsCoverCertificates
<1> DEFINE candidates == lastCertRecords \cup {q \in R : Type(q) = "CERTIFICATE_RECORD"}
           heads == {h \in candidates : c \in ChainOf[h]}
<1>1. /\ backend' = backend \cup R
      /\ lastCertRecords' = LastCertsAfter(lastCertRecords, R)
  BY DEF OnRecordsConfirmed
<1>2. candidates \in SUBSET Record
  BY DEF TypeOK
<1>3. heads # {}
  <2>1. CASE c \in backend
    BY <2>1 DEF ChainsCoverCertificates
  <2>2. CASE c \in R
    <3>1. c \in ChainOf[c]
      BY <2>2, ChainUnfold
    <3> QED BY <2>2, <3>1
  <2> QED BY <1>1, <2>1, <2>2
<1>4. PICK m \in heads : \A h \in heads : m \in RestsOn[h] => h = m
  <2> HIDE DEF candidates
  <2>1. heads \in SUBSET Record
    BY <1>2
  <2> HIDE DEF heads
  <2> QED BY <1>3, <2>1, NewestRecord
<1>5. m \in candidates /\ m \in Record /\ c \in ChainOf[m]
  BY <1>2
<1>6. ASSUME NEW d \in R, m \in PrevCertificates(d) PROVE FALSE
  <2>1. d \in Record /\ Type(d) = "CERTIFICATE_RECORD" /\ m \in Named(d)
    BY <1>6 DEF PrevCertificates, Named
  <2>2. c \in ChainOf[d]
    BY <1>5, <1>6, <2>1, ChainUnfold
  <2>3. m \in RestsOn[d]
    <3>1. m \in RestsOn[m]
      BY <1>5, RestsOnUnfold
    <3> QED BY <2>1, <3>1, RestsOnUnfold
  <2>4. d \in heads
    BY <2>1, <2>2
  <2>5. m \in Named(m)
    BY <1>4, <2>1, <2>3, <2>4
  <2>6. \E r \in {m} : Named(r) \cap {m} = {}
    BY <1>5, HashDagAssumption
  <2> QED BY <2>5, <2>6
<1>7. m \in lastCertRecords'
  BY <1>1, <1>5, <1>6 DEF LastCertsAfter
<1> QED BY <1>5, <1>7

\* Adding a record changes the tables only by the records it confirms.
LEMMA AddConfirms ==
  ASSUME LedgerInv, NEW r, NEW e, AddStep(r, e)
  PROVE  \E R \in SUBSET Record : OnRecordsConfirmed(R, {})
<1> DEFINE R == Confirmed(WeighedNow(r, e), UpdatedNow(r, e))
<1>1. OnRecordsConfirmed(R, {})
  BY AddDefinition DEF AddStep
<1>2. R \subseteq DOMAIN tailRecords
  BY WeighedNowFacts DEF AddStep, LedgerInv, Confirmed
<1>3. R \in SUBSET Record
  BY <1>2 DEF LedgerInv, TypeOK, TailRecordsOK
<1> QED BY <1>1, <1>3

LEMMA StepCertificates ==
  ASSUME LedgerInv, CertInv, [AnyNext]_vars
  PROVE  CertInv' /\ (ChainsCoverCertificates => ChainsCoverCertificates')
<1>1. CASE UNCHANGED <<backend, peerCertificates, revokedCertificates, lastCertRecords, restarts>>
  BY <1>1 DEF CertInv, ConfirmedChangesEffective, ChainsCoverCertificates
<1>2. ASSUME NEW r, NEW e, AddStep(r, e)
      PROVE  CertInv' /\ (ChainsCoverCertificates => ChainsCoverCertificates')
  <2>1. PICK R \in SUBSET Record : OnRecordsConfirmed(R, {})
    BY <1>2, AddConfirms
  <2>2. restarts' = restarts /\ TypeOK
    BY <1>2 DEF AddStep, LedgerInv
  <2> QED BY <2>1, <2>2, ConfirmedCertificates, ConfirmedChains
<1>3. ASSUME NEW r \in Record, CreateRecord(r)
      PROVE  CertInv' /\ (ChainsCoverCertificates => ChainsCoverCertificates')
  BY <1>2, <1>3, CreateRecordAdds
<1>4. CASE ScanAdd
  BY <1>2, <1>4, ScanAddAdds
<1>5. CASE Restart
  <2>1. restarts' # 0
    BY <1>5 DEF Restart, Reopen, LedgerInv, TypeOK
  <2> QED BY <2>1 DEF CertInv, ChainsCoverCertificates
<1> QED BY <1>1, <1>3, <1>4, <1>5 DEF AnyNext, Scan, OnLedgerSyncRequest, SendReplySync,
           OnFetchedRecord, ScanExpire, ScanKeep, ScanEnd, LoseInterest, Tick, vars,
           ledgerVars, countVars, fetchVars

LEMMA CertificateInvariant == Spec => [](LedgerInv /\ CertInv /\ ChainsCoverCertificates)
<1>1. Init => CertInv /\ ChainsCoverCertificates
  BY DEF Init, CertInv, ConfirmedChangesEffective, ChainsCoverCertificates
<1>2. LedgerInv /\ CertInv /\ ChainsCoverCertificates /\ [Next]_vars
        => CertInv' /\ ChainsCoverCertificates'
  BY StepCertificates, NextIsAny
<1> QED BY <1>1, <1>2, LedgerInvariant, PTL DEF Spec

\* Following the chains from the heads this peer advertises finds every
\* certificate record it has confirmed, in whatever order they were confirmed.
THEOREM ChainsCoverCertificatesAlways == Spec => []ChainsCoverCertificates
  BY CertificateInvariant, PTL

\* Until the process restarts, what a confirmed record revokes is revoked and
\* what it issues is known or was revoked.  (After a restart it is not: the
\* tables of the certificate manager are not read from the database.)
THEOREM ConfirmedChangesEffectiveUntilRestart == Spec => [](restarts = 0 => ConfirmedChangesEffective)
<1>1. CertInv => (restarts = 0 => ConfirmedChangesEffective)
  BY DEF CertInv
<1> QED BY <1>1, CertificateInvariant, PTL

\* A record of another peer is admitted only under a certificate that the
\* configuration or a confirmed record issued and no confirmed record has
\* revoked.
THEOREM EndorsedByLiveCertificateAlways == Spec => EndorsedByLiveCertificate
<1> DEFINE EndorsedStep ==
             restarts = 0 =>
               \A r \in {x \in admitted' \ admitted : ProducerPrefix(x) # Self} :
                 SignedUnder(LiveCertificates(backend), ProducerPrefix(r), Data[r].key)
<1>1. LedgerInv /\ CertInv /\ [Next]_vars => [EndorsedStep]_vars
  <2> SUFFICES ASSUME LedgerInv, CertInv, Next, restarts = 0,
                      NEW r \in admitted' \ admitted, ProducerPrefix(r) # Self
               PROVE  SignedUnder(LiveCertificates(backend), ProducerPrefix(r), Data[r].key)
    OBVIOUS
  <2>1. ASSUME NEW x \in Record, CreateRecord(x) PROVE FALSE
    <3>1. admitted' = admitted \cup {x} /\ ProducerPrefix(x) = Self
      BY <2>1, AddDefinition DEF CreateRecord, CanCreate
    <3> QED BY <3>1
  <2>2. CASE ScanAdd
    <3>1. AddStep(Current, CheckEndorseValidityOfRecord(Current))
      BY <2>2, ScanAddAdds
    <3>2. admitted' = IF CheckEndorseValidityOfRecord(Current)
                        THEN admitted \cup {Current} ELSE admitted
      BY <3>1, AddDefinition DEF AddStep
    <3>3. r = Current /\ EndorseSignature(peerCertificates, revokedCertificates, r)
      BY <3>2 DEF CheckEndorseValidityOfRecord
    <3>4. peerCertificates \ revokedCertificates = LiveCertificates(backend)
      BY TrustFollowsLedger
    <3> QED BY <3>3, <3>4 DEF EndorseSignature, VerifySignature, SignedUnder
  <2>3. CASE admitted' = admitted
    BY <2>3
  <2> QED BY <2>1, <2>2, <2>3 DEF Next, Scan, OnLedgerSyncRequest, SendReplySync,
             OnFetchedRecord, ScanExpire, ScanKeep, ScanEnd, LoseInterest, Tick, Restart,
             ledgerVars
<1> QED BY <1>1, CertificateInvariant, PTL DEF Spec, EndorsedByLiveCertificate

-----------------------------------------------------------------------------
(***************************************************************************)
(* The loops of addToTailingRecord and removeTimeoutRecords (AddLoops).    *)
(* What holds of the state of a loop after each round is shown of the      *)
(* first state and of each round; that the loop has a state after every    *)
(* round follows from the types of the states.                             *)
(***************************************************************************)
\* SetToSeq lists every member of a finite set.
LEMMA SetToSeqFacts ==
  ASSUME NEW S, IsFiniteSet(S)
  PROVE  /\ SetToSeq(S) \in Seq(S)
         /\ Len(SetToSeq(S)) = Cardinality(S)
         /\ \A x \in S : \E i \in 1 .. Cardinality(S) : SetToSeq(S)[i] = x
<1> DEFINE n == Cardinality(S)
<1>1. n \in Nat /\ ExistsBijection(1 .. n, S)
  BY FS_CardinalityType
<1>2. IsFiniteSet(1 .. n) /\ Cardinality(1 .. n) = n
  BY <1>1, FS_Interval
<1> HIDE DEF n
<1>3. \E f \in [1 .. n -> S] : IsInjective(f)
  BY <1>1 DEF ExistsBijection, Bijection, Injection
<1>4. SetToSeq(S) \in [1 .. n -> S] /\ IsInjective(SetToSeq(S))
  BY <1>3 DEF SetToSeq, n
<1>5. SetToSeq(S) \in Seq(S) /\ Len(SetToSeq(S)) = n
  BY <1>1, <1>4
<1>6. SetToSeq(S) \in Surjection(1 .. n, S)
  <2>1. SetToSeq(S) \in Injection(1 .. n, S)
    BY <1>4 DEF Injection
  <2>2. Cardinality(1 .. n) = Cardinality(S)
    BY <1>2 DEF n
  <2> QED BY <2>1, <2>2, FS_Injection
<1>7. \A x \in S : \E i \in 1 .. n : SetToSeq(S)[i] = x
  BY <1>6 DEF Surjection
<1> QED BY <1>5, <1>7 DEF n

\* Pushing the members of a finite set C on the rest of a stack whose top is
\* taken off.
Pushed(stack, C, list) ==
  /\ list \in Seq(Record)
  /\ Len(list) = Cardinality(C) + Len(stack) - 1
  /\ \A i \in DOMAIN list : list[i] \in C \/ \E j \in DOMAIN stack : list[i] = stack[j]
  /\ \A x \in C : \E i \in DOMAIN list : list[i] = x
  /\ \A j \in DOMAIN stack :
        stack[j] = Head(stack) \/ \E i \in DOMAIN list : list[i] = stack[j]

LEMMA PushAll ==
  ASSUME NEW stack \in Seq(Record), stack # <<>>, NEW C \in SUBSET Record
  PROVE  Pushed(stack, C, SetToSeq(C) \o Tail(stack))
<1> DEFINE q == SetToSeq(C)
           rest == Tail(stack)
           list == q \o rest
<1> SUFFICES Pushed(stack, C, list)
  OBVIOUS
<1>1. IsFiniteSet(C) /\ Cardinality(C) \in Nat
  BY DataAssumption, FS_Subset, FS_CardinalityType
<1>2. q \in Seq(C) /\ Len(q) = Cardinality(C) /\ \A x \in C : \E i \in 1 .. Cardinality(C) : q[i] = x
  BY <1>1, SetToSeqFacts
<1>3. q \in Seq(Record)
  BY <1>2, SeqMonotonic
<1>4. \A i \in 1 .. Len(q) : q[i] \in C
  BY <1>2, ElementOfSeq
<1>5. Len(stack) \in Nat /\ Len(stack) # 0 /\ DOMAIN stack = 1 .. Len(stack)
  OBVIOUS
<1>6. /\ rest \in Seq(Record) /\ Len(rest) = Len(stack) - 1
      /\ \A i \in 1 .. Len(stack) - 1 : rest[i] = stack[i + 1]
      /\ Head(stack) = stack[1]
  OBVIOUS
<1> HIDE DEF q, rest
<1>7. /\ list \in Seq(Record)
      /\ Len(list) = Len(q) + Len(rest)
      /\ \A i \in 1 .. Len(q) + Len(rest) :
            list[i] = IF i <= Len(q) THEN q[i] ELSE rest[i - Len(q)]
  BY <1>3, <1>6, ConcatProperties
<1>8. DOMAIN list = 1 .. Len(q) + Len(rest)
  BY <1>7
<1> HIDE DEF list
<1>9. Len(list) = Cardinality(C) + Len(stack) - 1
  BY <1>1, <1>2, <1>5, <1>6, <1>7
<1>10. ASSUME NEW i \in DOMAIN list
       PROVE  list[i] \in C \/ \E j \in DOMAIN stack : list[i] = stack[j]
  <2>1. CASE i <= Len(q)
    <3>1. i \in 1 .. Len(q) /\ list[i] = q[i]
      BY <1>1, <1>2, <1>7, <1>8, <2>1
    <3> QED BY <1>4, <3>1
  <2>2. CASE ~ (i <= Len(q))
    <3>1. list[i] = rest[i - Len(q)] /\ i - Len(q) \in 1 .. Len(stack) - 1
      BY <1>1, <1>2, <1>5, <1>6, <1>7, <1>8, <2>2
    <3>2. PICK k \in 1 .. Len(stack) - 1 : k = i - Len(q)
      BY <3>1
    <3>3. list[i] = stack[k + 1] /\ k + 1 \in DOMAIN stack
      BY <1>5, <1>6, <3>1, <3>2
    <3> QED BY <3>3
  <2> QED BY <2>1, <2>2
<1>11. ASSUME NEW x \in C PROVE \E i \in DOMAIN list : list[i] = x
  <2>1. PICK i \in 1 .. Cardinality(C) : q[i] = x
    BY <1>2
  <2>2. i \in DOMAIN list /\ list[i] = q[i]
    BY <1>1, <1>2, <1>5, <1>6, <1>7, <1>8
  <2> QED BY <2>1, <2>2
<1>12. ASSUME NEW j \in DOMAIN stack
       PROVE  stack[j] = Head(stack) \/ \E i \in DOMAIN list : list[i] = stack[j]
  <2>1. CASE j = 1
    BY <1>6, <2>1
  <2>2. CASE j # 1
    <3>1. j - 1 \in 1 .. Len(stack) - 1 /\ (j - 1) + 1 = j
      BY <1>5, <2>2
    <3>2. PICK k \in 1 .. Len(stack) - 1 : k + 1 = j
      BY <3>1
    <3>3. stack[j] = rest[k]
      BY <1>6, <3>2
    <3>4. /\ Len(q) \in Nat
          /\ Len(q) + k \in 1 .. Len(q) + Len(rest)
          /\ ~ (Len(q) + k <= Len(q))
          /\ (Len(q) + k) - Len(q) = k
      BY <1>1, <1>2, <1>5, <1>6, <3>2
    <3>5. list[Len(q) + k] = rest[k]
      BY <1>7, <3>4
    <3> QED BY <1>8, <3>3, <3>4, <3>5
  <2> QED BY <2>1, <2>2
<1> QED BY <1>7, <1>9, <1>10, <1>11, <1>12 DEF Pushed

(***************************************************************************)
(* The traversal.                                                          *)
(***************************************************************************)
TraversalStates(t) ==
  [table : [DOMAIN t -> TailingRecordState], stack : Seq(Record), updated : SUBSET Record]

OnStack(s, x) == \E i \in DOMAIN s.stack : s.stack[i] = x

\* The records updated so far are ones to be updated, the table is weighed for
\* them, and each of them is on the stack unless all it leads to is updated.
\* Every round takes one record off the stack, every update puts one on it.
TraversalInv(t, r, n, s) ==
  /\ s \in TraversalStates(t)
  /\ s.updated \subseteq UpdatedRecords(t, r)
  /\ s.table = Weighed(t, r, s.updated)
  /\ \A i \in DOMAIN s.stack : s.stack[i] \in s.updated \cup {r}
  /\ t[r].recordEndorseVerified =>
       \A x \in s.updated \cup {r} :
         OnStack(s, x) \/ PointersFromHeader(x) \cap Open(t, r) \subseteq s.updated
  /\ s.stack # <<>> => n + Len(s.stack) <= 1 + Cardinality(s.updated)

\* Counting a producer twice over.
LEMMA WeighedTwice ==
  ASSUME NEW t, TableOK(t), NEW r \in Record, NEW U, NEW C \in SUBSET Open(Weighed(t, r, U), r)
  PROVE  /\ Open(Weighed(t, r, U), r) = Open(t, r) \ U
         /\ Weighed(Weighed(t, r, U), r, C) = Weighed(t, r, U \cup C)
<1> DEFINE w == Weighed(t, r, U)
<1>1. /\ DOMAIN w = DOMAIN t
      /\ \A x \in DOMAIN t : w[x].refSet =
           IF x \in U THEN t[x].refSet \cup {ProducerPrefix(r)} ELSE t[x].refSet
  BY WeighedTable
<1>2. \A x \in DOMAIN t :
        w[x] = IF x \in U THEN [t[x] EXCEPT !.refSet = @ \cup {ProducerPrefix(r)}] ELSE t[x]
  BY DEF Weighed
<1> HIDE DEF w
<1>3. Open(w, r) = Open(t, r) \ U
  BY <1>1 DEF Open
<1>4. \A x \in DOMAIN t :
        (IF x \in C THEN [w[x] EXCEPT !.refSet = @ \cup {ProducerPrefix(r)}] ELSE w[x])
          = IF x \in U \cup C THEN [t[x] EXCEPT !.refSet = @ \cup {ProducerPrefix(r)}] ELSE t[x]
  <2> SUFFICES ASSUME NEW x \in DOMAIN t
               PROVE  (IF x \in C THEN [w[x] EXCEPT !.refSet = @ \cup {ProducerPrefix(r)}] ELSE w[x])
                        = IF x \in U \cup C THEN [t[x] EXCEPT !.refSet = @ \cup {ProducerPrefix(r)}]
                          ELSE t[x]
    OBVIOUS
  <2>1. CASE x \in C
    <3>1. x \notin U
      BY <1>3, <2>1 DEF w
    <3> QED BY <1>2, <2>1, <3>1
  <2>2. CASE x \notin C
    BY <1>2, <2>2
  <2> QED BY <2>1, <2>2
<1>5. Weighed(w, r, C) = [x \in DOMAIN t |->
        IF x \in C THEN [w[x] EXCEPT !.refSet = @ \cup {ProducerPrefix(r)}] ELSE w[x]]
  BY <1>1 DEF Weighed
<1>6. Weighed(t, r, U \cup C) = [x \in DOMAIN t |->
        IF x \in U \cup C THEN [t[x] EXCEPT !.refSet = @ \cup {ProducerPrefix(r)}] ELSE t[x]]
  BY DEF Weighed
<1>7. Weighed(w, r, C) = Weighed(t, r, U \cup C)
  BY <1>4, <1>5, <1>6
<1> QED BY <1>3, <1>7 DEF w

\* The records a round counts: a genesis record points to none.
LEMMA TraversalStepDefinition ==
  ASSUME NEW t, TableOK(t), NEW r \in Record, NEW s \in TraversalStates(t), s.stack # <<>>
  PROVE  LET C == PointersFromHeader(Head(s.stack)) \cap Open(s.table, r)
         IN  TraversalStep(r, s) = [table   |-> Weighed(s.table, r, C),
                                    stack   |-> SetToSeq(C) \o Tail(s.stack),
                                    updated |-> s.updated \cup C]
<1>1. Head(s.stack) \in Record
  BY HeadTailProperties DEF TraversalStates
<1>2. Type(Head(s.stack)) = "GENESIS_RECORD" => PointersFromHeader(Head(s.stack)) = {}
  BY <1>1, GenesisAssumption DEF GenesisRecords, Named
<1> DEFINE C == PointersFromHeader(Head(s.stack)) \cap Open(s.table, r)
           counted == IF Type(Head(s.stack)) = "GENESIS_RECORD" THEN {} ELSE C
<1>3. counted = C
  BY <1>2
<1>4. TraversalStep(r, s) = [table   |-> Weighed(s.table, r, counted),
                             stack   |-> SetToSeq(counted) \o Tail(s.stack),
                             updated |-> s.updated \cup counted]
  BY DEF TraversalStep
<1> HIDE DEF counted
<1> QED BY <1>3, <1>4

LEMMA TraversalStepType ==
  ASSUME NEW t, TableOK(t), NEW r \in Record, NEW s \in TraversalStates(t)
  PROVE  TraversalStep(r, s) \in TraversalStates(t)
<1>1. CASE s.stack = <<>>
  BY <1>1 DEF TraversalStep
<1>2. CASE s.stack # <<>>
  <2> DEFINE C == PointersFromHeader(Head(s.stack)) \cap Open(s.table, r)
  <2>1. Head(s.stack) \in Record
    BY <1>2, HeadTailProperties DEF TraversalStates
  <2>2. C \in SUBSET Record
    BY <2>1, PointersAreRecords
  <2>3. TraversalStep(r, s) = [table   |-> Weighed(s.table, r, C),
                               stack   |-> SetToSeq(C) \o Tail(s.stack),
                               updated |-> s.updated \cup C]
    BY <1>2, TraversalStepDefinition
  <2> HIDE DEF C
  <2>4. TableOK(s.table) /\ DOMAIN s.table = DOMAIN t
    BY DEF TraversalStates, TableOK
  <2>5. Weighed(s.table, r, C) \in [DOMAIN t -> TailingRecordState]
    BY <2>4, WeighedTable DEF TableOK
  <2>6. SetToSeq(C) \o Tail(s.stack) \in Seq(Record)
    BY <1>2, <2>2, PushAll DEF TraversalStates, Pushed
  <2> QED BY <2>2, <2>3, <2>5, <2>6 DEF TraversalStates
<1> QED BY <1>1, <1>2

\* The state of the traversal after each round.
LEMMA TraversalRounds ==
  ASSUME NEW t, TableOK(t), NEW r \in DOMAIN t
  PROVE  /\ Traversal(t, r)[0] =
              [table   |-> t,
               stack   |-> IF t[r].recordEndorseVerified THEN <<r>> ELSE <<>>,
               updated |-> {}]
         /\ \A n \in Nat : Traversal(t, r)[n + 1] = TraversalStep(r, Traversal(t, r)[n])
<1> DEFINE start == [table   |-> t,
                     stack   |-> IF t[r].recordEndorseVerified THEN <<r>> ELSE <<>>,
                     updated |-> {}]
           S == TraversalStates(t)
           step == [s \in S |-> TraversalStep(r, s)]
           Solves(f) == f = [n \in Nat |-> IF n = 0 THEN start ELSE TraversalStep(r, f[n - 1])]
<1>1. r \in Record
  BY DEF TableOK
<1>2. start \in S
  BY <1>1 DEF TableOK, TraversalStates
<1>3. step \in [S -> S]
  <2> HIDE DEF S
  <2>1. \A s \in S : TraversalStep(r, s) \in S
    BY <1>1, TraversalStepType DEF S
  <2> QED BY <2>1
<1> HIDE DEF start, S
<1>4. \E f : Solves(f)
  <2>1. PICK f \in [Nat -> S] : Iterates(f, start, step)
    <3> HIDE DEF step
    <3> QED BY <1>2, <1>3, IterationExists
  <2>2. \A n \in Nat : n # 0 => n - 1 \in Nat
    OBVIOUS
  <2>3. \A n \in Nat : n # 0 => step[f[n - 1]] = TraversalStep(r, f[n - 1])
    BY <2>2
  <2>4. Solves(f)
    BY <2>1, <2>3 DEF Iterates
  <2> QED BY <2>4
<1>5. Traversal(t, r) = CHOOSE f : Solves(f)
  BY DEF Traversal, start
<1> HIDE DEF Solves
<1>6. Solves(Traversal(t, r))
  BY <1>4, <1>5
<1> USE DEF Solves
<1>7. Traversal(t, r)[0] = start
  BY <1>6
<1>8. ASSUME NEW n \in Nat PROVE Traversal(t, r)[n + 1] = TraversalStep(r, Traversal(t, r)[n])
  <2>1. n + 1 \in Nat /\ n + 1 # 0 /\ (n + 1) - 1 = n
    OBVIOUS
  <2> QED BY <1>6, <2>1
<1> QED BY <1>7, <1>8 DEF start


LEMMA TraversalStartInv ==
  ASSUME NEW t, TableOK(t), NEW r \in DOMAIN t
  PROVE  /\ TraversalInv(t, r, 0, Traversal(t, r)[0])
         /\ ~ t[r].recordEndorseVerified => Traversal(t, r)[0].stack = <<>>
<1> DEFINE s == Traversal(t, r)[0]
<1>1. s = [table   |-> t,
           stack   |-> IF t[r].recordEndorseVerified THEN <<r>> ELSE <<>>,
           updated |-> {}]
  BY TraversalRounds
<1> SUFFICES TraversalInv(t, r, 0, s) /\ (~ t[r].recordEndorseVerified => s.stack = <<>>)
  OBVIOUS
<1> HIDE DEF s
<1>2. /\ s.table = t
      /\ s.stack = (IF t[r].recordEndorseVerified THEN <<r>> ELSE <<>>)
      /\ s.updated = {}
  BY <1>1
<1>3. r \in Record
  BY DEF TableOK
<1>4. s \in TraversalStates(t)
  BY <1>1, <1>3 DEF TraversalStates, TableOK
<1>5. s.table = Weighed(t, r, s.updated)
  BY <1>2 DEF Weighed, TableOK
<1>6. CASE t[r].recordEndorseVerified
  <2>1. s.stack = <<r>> /\ Len(s.stack) = 1 /\ DOMAIN s.stack = {1} /\ s.stack[1] = r
    BY <1>2, <1>6
  <2>2. OnStack(s, r)
    BY <2>1 DEF OnStack
  <2>3. 0 + Len(s.stack) <= 1 + Cardinality(s.updated)
    BY <1>2, <2>1, FS_EmptySet
  <2>4. /\ \A i \in DOMAIN s.stack : s.stack[i] \in s.updated \cup {r}
        /\ \A x \in s.updated \cup {r} : OnStack(s, x)
    BY <1>2, <2>1, <2>2
  <2>5. s.updated \subseteq UpdatedRecords(t, r)
    BY <1>2
  <2>6. TraversalInv(t, r, 0, s)
    BY <1>4, <1>5, <2>3, <2>4, <2>5 DEF TraversalInv
  <2>7. ~ t[r].recordEndorseVerified => s.stack = <<>>
    BY <1>6
  <2> QED BY <2>6, <2>7
<1>7. CASE ~ t[r].recordEndorseVerified
  <2>1. s.stack = <<>> /\ DOMAIN s.stack = {}
    BY <1>2, <1>7
  <2> QED BY <1>2, <1>4, <1>5, <1>7, <2>1 DEF TraversalInv
<1> QED BY <1>6, <1>7

LEMMA TraversalStepInv ==
  ASSUME NEW t, TableOK(t), NEW r \in DOMAIN t, t[r].recordEndorseVerified,
         NEW n \in Nat, NEW s, TraversalInv(t, r, n, s)
  PROVE  TraversalInv(t, r, n + 1, TraversalStep(r, s))
<1>1. r \in Record /\ s \in TraversalStates(t)
  BY DEF TableOK, TraversalInv
<1>2. CASE s.stack = <<>>
  BY <1>2 DEF TraversalStep, TraversalInv
<1>3. CASE s.stack # <<>>
  <2> DEFINE U == s.updated
             C == PointersFromHeader(Head(s.stack)) \cap Open(s.table, r)
             e == TraversalStep(r, s)
             open == Open(t, r)
  <2>1. e = [table   |-> Weighed(s.table, r, C),
             stack   |-> SetToSeq(C) \o Tail(s.stack),
             updated |-> U \cup C]
    BY <1>1, <1>3, TraversalStepDefinition
  <2>2. e \in TraversalStates(t)
    BY <1>1, TraversalStepType
  <2> HIDE DEF e
  <2>3. e.table = Weighed(s.table, r, C) /\ e.updated = U \cup C
        /\ e.stack = SetToSeq(C) \o Tail(s.stack)
    BY <2>1
  <2>4. s.table = Weighed(t, r, U) /\ U \subseteq UpdatedRecords(t, r)
    BY DEF TraversalInv
  <2>5. Open(s.table, r) = open \ U /\ e.table = Weighed(t, r, U \cup C)
    <3>1. C \in SUBSET Open(Weighed(t, r, U), r)
      BY <2>4
    <3> HIDE DEF C, U, open
    <3> QED BY <1>1, <2>3, <2>4, <3>1, WeighedTwice DEF open
  <2>6. C = (PointersFromHeader(Head(s.stack)) \cap open) \ U
    BY <2>5
  <2>7. s.stack \in Seq(Record)
    BY <1>1 DEF TraversalStates
  <2>8. \A i \in DOMAIN s.stack : s.stack[i] \in U \cup {r}
    BY DEF TraversalInv
  <2>9. Head(s.stack) \in U \cup {r} /\ Head(s.stack) \in Record
    <3>1. Head(s.stack) = s.stack[1] /\ 1 \in DOMAIN s.stack /\ Head(s.stack) \in Record
      BY <1>3, <2>7
    <3> QED BY <2>8, <3>1
  <2>10. U \cup C \subseteq UpdatedRecords(t, r)
    <3>1. TraversalClosed(open, r, UpdatedRecords(t, r))
      BY UpdatedFacts
    <3>2. PointersFromHeader(Head(s.stack)) \cap open \subseteq UpdatedRecords(t, r)
      BY <2>4, <2>9, <3>1 DEF TraversalClosed
    <3> QED BY <2>4, <2>6, <3>2
  <2>11. C \in SUBSET Record /\ U \in SUBSET Record
    BY <1>1, <2>9, PointersAreRecords DEF TraversalStates
  <2>12. C \cap U = {}
    BY <2>6
  <2>13. PointersFromHeader(Head(s.stack)) \cap open \subseteq U \cup C
    BY <2>6
  <2> HIDE DEF C, U, open
  <2>14. /\ Len(e.stack) = Cardinality(C) + Len(s.stack) - 1
         /\ \A i \in DOMAIN e.stack : \/ e.stack[i] \in C
                                      \/ \E j \in DOMAIN s.stack : e.stack[i] = s.stack[j]
         /\ \A x \in C : \E i \in DOMAIN e.stack : e.stack[i] = x
         /\ \A j \in DOMAIN s.stack : \/ s.stack[j] = Head(s.stack)
                                      \/ \E i \in DOMAIN e.stack : e.stack[i] = s.stack[j]
    <3>1. Pushed(s.stack, C, e.stack)
      BY <1>3, <2>3, <2>7, <2>11, PushAll
    <3> QED BY <3>1 DEF Pushed
  <2>15. \A i \in DOMAIN e.stack : e.stack[i] \in (U \cup C) \cup {r}
    BY <2>8, <2>14
  <2>16. ASSUME NEW x \in (U \cup C) \cup {r}
         PROVE  OnStack(e, x) \/ PointersFromHeader(x) \cap open \subseteq U \cup C
    <3>1. CASE x \in C
      BY <2>14, <3>1 DEF OnStack
    <3>2. CASE x \in U \cup {r}
      <4>1. OnStack(s, x) \/ PointersFromHeader(x) \cap open \subseteq U
        BY <3>2 DEF TraversalInv, U, open
      <4>2. ASSUME OnStack(s, x) PROVE x = Head(s.stack) \/ OnStack(e, x)
        BY <2>14, <4>2 DEF OnStack
      <4> QED BY <2>13, <4>1, <4>2
    <3> QED BY <3>1, <3>2
  <2>17. (n + 1) + Len(e.stack) <= 1 + Cardinality(U \cup C)
    <3>1. n + Len(s.stack) <= 1 + Cardinality(U)
      BY <1>3 DEF TraversalInv, U
    <3>2. IsFiniteSet(U) /\ IsFiniteSet(C) /\ Cardinality(U) \in Nat /\ Cardinality(C) \in Nat
      BY <2>11, DataAssumption, FS_Subset, FS_CardinalityType
    <3>3. Cardinality(U \cap C) = 0
      BY <2>12, FS_EmptySet
    <3>4. Cardinality(U \cup C) = Cardinality(U) + Cardinality(C)
      <4>1. Cardinality(U \cup C) = Cardinality(U) + Cardinality(C) - Cardinality(U \cap C)
        BY <3>2, FS_Union
      <4> QED BY <3>2, <3>3, <4>1
    <3>5. Len(s.stack) \in Nat
      BY <2>7
    <3> QED BY <2>14, <3>1, <3>2, <3>4, <3>5
  <2> QED BY <2>2, <2>3, <2>5, <2>10, <2>15, <2>16, <2>17 DEF TraversalInv, e, open
<1> QED BY <1>2, <1>3

LEMMA TraversalInvariant ==
  ASSUME NEW t, TableOK(t), NEW r \in DOMAIN t, NEW n \in Nat
  PROVE  /\ TraversalInv(t, r, n, Traversal(t, r)[n])
         /\ ~ t[r].recordEndorseVerified => Traversal(t, r)[n].stack = <<>>
<1> DEFINE G == {m \in Nat : /\ TraversalInv(t, r, m, Traversal(t, r)[m])
                             /\ ~ t[r].recordEndorseVerified => Traversal(t, r)[m].stack = <<>>}
<1>1. 0 \in G
  BY TraversalStartInv
<1>2. ASSUME NEW m \in G PROVE m + 1 \in G
  <2>1. m \in Nat /\ Traversal(t, r)[m + 1] = TraversalStep(r, Traversal(t, r)[m])
    BY TraversalRounds
  <2>2. CASE t[r].recordEndorseVerified
    BY <2>1, <2>2, TraversalStepInv
  <2>3. CASE ~ t[r].recordEndorseVerified
    <3>1. Traversal(t, r)[m].stack = <<>>
      BY <2>3
    <3>2. Traversal(t, r)[m + 1] = Traversal(t, r)[m]
      BY <2>1, <3>1 DEF TraversalStep
    <3>3. TraversalInv(t, r, m + 1, Traversal(t, r)[m])
      BY <3>1 DEF TraversalInv
    <3> QED BY <2>1, <3>1, <3>2, <3>3
  <2> QED BY <2>2, <2>3
<1> HIDE DEF G
<1>3. G = Nat
  <2>1. G \in SUBSET Nat
    BY DEF G
  <2> QED BY <1>1, <1>2, <2>1, NatSetInduction
<1> QED BY <1>3 DEF G

\* The loop ends, with just the records of the least set updated.  It runs no
\* more rounds than there are records: r is not updated, for it is of its own
\* producer.
LEMMA TraversalEnds ==
  ASSUME NEW t, TableOK(t), NEW r \in DOMAIN t
  PROVE  LET ended == Traversal(t, r)[Cardinality(DOMAIN t)]
         IN  /\ ended.stack = <<>>
             /\ ended.updated = UpdatedRecords(t, r)
             /\ ended.table = Weighed(t, r, ended.updated)
<1> DEFINE n == Cardinality(DOMAIN t)
           s == Traversal(t, r)[n]
           U == UpdatedRecords(t, r)
<1>1. IsFiniteSet(DOMAIN t) /\ n \in Nat
  BY DataAssumption, FS_Subset, FS_CardinalityType DEF TableOK
<1>2. TraversalInv(t, r, n, s) /\ (~ t[r].recordEndorseVerified => s.stack = <<>>)
  BY <1>1, TraversalInvariant
<1> HIDE DEF n, s
<1>3. U \subseteq Open(t, r)
  BY UpdatedFacts
<1>4. s.updated \subseteq U /\ s.table = Weighed(t, r, s.updated) /\ s \in TraversalStates(t)
  BY <1>2 DEF TraversalInv
<1> HIDE DEF U
<1>5. Cardinality(s.updated) \in Nat /\ Cardinality(s.updated) <= n - 1
  <2>1. s.updated \subseteq DOMAIN t \ {r}
    BY <1>3, <1>4 DEF Open
  <2>2. IsFiniteSet(DOMAIN t \ {r}) /\ Cardinality(DOMAIN t \ {r}) = n - 1
    BY <1>1, FS_RemoveElement DEF n
  <2> QED BY <2>1, <2>2, FS_Subset, FS_CardinalityType
<1>6. s.stack = <<>>
  <2> SUFFICES ASSUME s.stack # <<>> PROVE FALSE
    OBVIOUS
  <2>1. n + Len(s.stack) <= 1 + Cardinality(s.updated)
    BY <1>2 DEF TraversalInv
  <2>2. Len(s.stack) \in Nat \ {0}
    BY <1>4, EmptySeq DEF TraversalStates
  <2> QED BY <1>1, <1>5, <2>1, <2>2
<1>7. s.updated = U
  <2>1. CASE t[r].recordEndorseVerified
    <3>1. \A x \in s.updated \cup {r} : ~ OnStack(s, x)
      BY <1>6 DEF OnStack
    <3>2. TraversalClosed(Open(t, r), r, s.updated)
      BY <1>2, <2>1, <3>1 DEF TraversalInv, TraversalClosed
    <3>3. U \subseteq s.updated
      BY <1>3, <1>4, <3>2, UpdatedFacts DEF U
    <3> QED BY <1>4, <3>3
  <2>2. CASE ~ t[r].recordEndorseVerified
    BY <1>4, <2>2, UpdatedFacts DEF U
  <2> QED BY <2>1, <2>2
<1> QED BY <1>4, <1>6, <1>7 DEF n, s, U

(***************************************************************************)
(* The rounds of removeTimeoutRecords.                                     *)
(***************************************************************************)
RemovalStates(t) ==
  [table : {[x \in D |-> t[x]] : D \in SUBSET DOMAIN t}, timeoutList : SUBSET DOMAIN t]

\* What is gone or to go now is removed in the end; it has all late records,
\* and the children of what is gone.  Every round but the last one removes a
\* record.
RemovalRoundInv(t, time, n, s) ==
  LET gone == DOMAIN t \ DOMAIN s.table
  IN  /\ s \in RemovalStates(t)
      /\ s.timeoutList \subseteq DOMAIN s.table
      /\ TimedOut(t, time) \subseteq gone \cup s.timeoutList
      /\ gone \cup s.timeoutList \subseteq Removed(t, time)
      /\ \A x \in DOMAIN t : PointersFromHeader(x) \cap gone # {} => x \in gone \cup s.timeoutList
      /\ s.timeoutList # {} => n <= Cardinality(gone)

LEMMA RemovalStateFields ==
  ASSUME NEW t, NEW s \in RemovalStates(t)
  PROVE  /\ DOMAIN s.table \subseteq DOMAIN t
         /\ s.table = [x \in DOMAIN s.table |-> t[x]]
         /\ s.timeoutList \subseteq DOMAIN t
<1>1. PICK D \in SUBSET DOMAIN t : s.table = [x \in D |-> t[x]]
  BY DEF RemovalStates
<1> QED BY <1>1 DEF RemovalStates

LEMMA RemovalRoundType ==
  ASSUME NEW t, NEW s \in RemovalStates(t)
  PROVE  /\ RemovalRound(s) \in RemovalStates(t)
         /\ DOMAIN RemovalRound(s).table = DOMAIN s.table \ s.timeoutList
         /\ RemovalRound(s).timeoutList =
              {x \in DOMAIN s.table \ s.timeoutList : PointersFromHeader(x) \cap s.timeoutList # {}}
<1> DEFINE rest == DOMAIN s.table \ s.timeoutList
           children == {x \in rest : PointersFromHeader(x) \cap s.timeoutList # {}}
<1>1. RemovalRound(s) = [table |-> [x \in rest |-> s.table[x]], timeoutList |-> children]
  BY DEF RemovalRound
<1>2. rest \in SUBSET DOMAIN t /\ [x \in rest |-> s.table[x]] = [x \in rest |-> t[x]]
  <2>1. DOMAIN s.table \subseteq DOMAIN t /\ s.table = [x \in DOMAIN s.table |-> t[x]]
    BY RemovalStateFields
  <2>2. \A x \in rest : s.table[x] = t[x]
    BY <2>1
  <2> QED BY <2>1, <2>2
<1>3. children \in SUBSET DOMAIN t
  BY <1>2
<1> HIDE DEF rest, children
<1> QED BY <1>1, <1>2, <1>3 DEF RemovalStates, rest, children

LEMMA RemovalRoundsAre ==
  ASSUME NEW t, TableOK(t), NEW time
  PROVE  /\ RemovalRounds(t, time)[0] = [table |-> t, timeoutList |-> TimedOut(t, time)]
         /\ \A n \in Nat : RemovalRounds(t, time)[n + 1] = RemovalRound(RemovalRounds(t, time)[n])
<1> DEFINE start == [table |-> t, timeoutList |-> TimedOut(t, time)]
           S == RemovalStates(t)
           step == [s \in S |-> RemovalRound(s)]
           Solves(f) == f = [n \in Nat |-> IF n = 0 THEN start ELSE RemovalRound(f[n - 1])]
<1>1. start \in S
  <2>1. t = [x \in DOMAIN t |-> t[x]] /\ TimedOut(t, time) \subseteq DOMAIN t
    BY DEF TableOK, TimedOut
  <2> QED BY <2>1 DEF RemovalStates
<1>2. step \in [S -> S]
  <2> HIDE DEF S
  <2>1. \A s \in S : RemovalRound(s) \in S
    BY RemovalRoundType DEF S
  <2> QED BY <2>1
<1> HIDE DEF start, S
<1>3. \E f : Solves(f)
  <2>1. PICK f \in [Nat -> S] : Iterates(f, start, step)
    <3> HIDE DEF step
    <3> QED BY <1>1, <1>2, IterationExists
  <2>2. \A n \in Nat : n # 0 => n - 1 \in Nat
    OBVIOUS
  <2>3. \A n \in Nat : n # 0 => step[f[n - 1]] = RemovalRound(f[n - 1])
    BY <2>2
  <2>4. Solves(f)
    BY <2>1, <2>3 DEF Iterates
  <2> QED BY <2>4
<1>4. RemovalRounds(t, time) = CHOOSE f : Solves(f)
  BY DEF RemovalRounds, start
<1> HIDE DEF Solves
<1>5. Solves(RemovalRounds(t, time))
  BY <1>3, <1>4
<1> USE DEF Solves
<1>6. RemovalRounds(t, time)[0] = start
  BY <1>5
<1>7. ASSUME NEW n \in Nat
      PROVE  RemovalRounds(t, time)[n + 1] = RemovalRound(RemovalRounds(t, time)[n])
  <2>1. n + 1 \in Nat /\ n + 1 # 0 /\ (n + 1) - 1 = n
    OBVIOUS
  <2> QED BY <1>5, <2>1
<1> QED BY <1>6, <1>7 DEF start

LEMMA RemovedFacts ==
  ASSUME NEW t, NEW time
  PROVE  /\ TimedOut(t, time) \subseteq Removed(t, time)
         /\ \A S \in SUBSET DOMAIN t :
               TimedOut(t, time) \subseteq S /\ RemovalClosed(t, S) => Removed(t, time) \subseteq S
<1> DEFINE closedSets == {S \in SUBSET DOMAIN t : TimedOut(t, time) \subseteq S /\ RemovalClosed(t, S)}
<1>1. Removed(t, time) = {x \in DOMAIN t : \A S \in closedSets : x \in S}
  BY DEF Removed
<1>2. TimedOut(t, time) \subseteq DOMAIN t
  BY DEF TimedOut
<1> QED BY <1>1, <1>2

LEMMA RemovalRoundStep ==
  ASSUME NEW t, TableOK(t), NEW time, NEW n \in Nat, NEW s, RemovalRoundInv(t, time, n, s)
  PROVE  RemovalRoundInv(t, time, n + 1, RemovalRound(s))
<1> DEFINE e == RemovalRound(s)
           gone == DOMAIN t \ DOMAIN s.table
           list == s.timeoutList
           next == e.timeoutList
           R == Removed(t, time)
<1>1. /\ s \in RemovalStates(t)
      /\ list \subseteq DOMAIN s.table
      /\ TimedOut(t, time) \subseteq gone \cup list
      /\ gone \cup list \subseteq R
      /\ \A x \in DOMAIN t : PointersFromHeader(x) \cap gone # {} => x \in gone \cup list
      /\ list # {} => n <= Cardinality(gone)
  BY DEF RemovalRoundInv
<1>2. DOMAIN s.table \subseteq DOMAIN t
  BY <1>1, RemovalStateFields
<1>3. /\ e \in RemovalStates(t)
      /\ DOMAIN e.table = DOMAIN s.table \ list
      /\ next = {x \in DOMAIN s.table \ list : PointersFromHeader(x) \cap list # {}}
  BY <1>1, RemovalRoundType
<1> HIDE DEF e
<1>4. DOMAIN t \ DOMAIN e.table = gone \cup list
  BY <1>1, <1>2, <1>3
<1>5. next \subseteq DOMAIN e.table
  BY <1>3
<1>6. next \subseteq R
  <2>1. RemovalClosed(t, R)
    BY RemovalIsClosed
  <2> QED BY <1>1, <1>2, <1>3, <2>1 DEF RemovalClosed
<1>7. \A x \in DOMAIN t : PointersFromHeader(x) \cap (gone \cup list) # {}
                             => x \in (gone \cup list) \cup next
  BY <1>1, <1>3
<1>8. next # {} => n + 1 <= Cardinality(gone \cup list)
  <2> SUFFICES ASSUME next # {} PROVE n + 1 <= Cardinality(gone \cup list)
    OBVIOUS
  <2>1. list # {}
    BY <1>3
  <2>2. PICK x \in list : x \notin gone
    BY <1>1, <2>1
  <2>3. IsFiniteSet(gone) /\ IsFiniteSet(gone \cup list) /\ gone \cup {x} \subseteq gone \cup list
    <3>1. gone \cup list \subseteq Record
      BY <1>1, <1>2 DEF TableOK
    <3> HIDE DEF gone, list
    <3> QED BY <3>1, DataAssumption, FS_Subset
  <2> HIDE DEF gone, list, next
  <2>4. Cardinality(gone \cup {x}) = Cardinality(gone) + 1 /\ Cardinality(gone) \in Nat
    BY <2>2, <2>3, FS_AddElement, FS_CardinalityType
  <2>5. Cardinality(gone \cup {x}) <= Cardinality(gone \cup list)
    BY <2>3, FS_Subset
  <2>6. Cardinality(gone \cup list) \in Nat
    BY <2>3, FS_CardinalityType
  <2> QED BY <1>1, <2>1, <2>4, <2>5, <2>6
<1> HIDE DEF gone, list, next, R
<1> QED BY <1>1, <1>3, <1>4, <1>5, <1>6, <1>7, <1>8 DEF RemovalRoundInv, next, R, e

LEMMA RemovalRoundInvariant ==
  ASSUME NEW t, TableOK(t), NEW time, NEW n \in Nat
  PROVE  RemovalRoundInv(t, time, n, RemovalRounds(t, time)[n])
<1> DEFINE G == {m \in Nat : RemovalRoundInv(t, time, m, RemovalRounds(t, time)[m])}
<1>1. 0 \in G
  <2> DEFINE s == RemovalRounds(t, time)[0]
  <2>1. s = [table |-> t, timeoutList |-> TimedOut(t, time)]
    BY RemovalRoundsAre
  <2> HIDE DEF s
  <2>2. t = [x \in DOMAIN t |-> t[x]] /\ TimedOut(t, time) \subseteq DOMAIN t
    BY DEF TableOK, TimedOut
  <2>3. s \in RemovalStates(t)
    BY <2>1, <2>2 DEF RemovalStates
  <2>4. s.table = t /\ s.timeoutList = TimedOut(t, time) /\ DOMAIN t \ DOMAIN s.table = {}
    BY <2>1
  <2>5. Cardinality(DOMAIN t \ DOMAIN s.table) = 0
    BY <2>4, FS_EmptySet
  <2>6. RemovalRoundInv(t, time, 0, s)
    BY <2>2, <2>3, <2>4, <2>5, RemovedFacts DEF RemovalRoundInv
  <2> QED BY <2>6 DEF s
<1>2. ASSUME NEW m \in G PROVE m + 1 \in G
  <2>1. m \in Nat /\ RemovalRounds(t, time)[m + 1] = RemovalRound(RemovalRounds(t, time)[m])
    BY RemovalRoundsAre
  <2> QED BY <2>1, RemovalRoundStep
<1> HIDE DEF G
<1>3. G = Nat
  <2>1. G \in SUBSET Nat
    BY DEF G
  <2> QED BY <1>1, <1>2, <2>1, NatSetInduction
<1> QED BY <1>3 DEF G

\* The loop ends, and has removed just the records of the least set.
LEMMA RemovalEnds ==
  ASSUME NEW t, TableOK(t), NEW time
  PROVE  LET ended == RemovalRounds(t, time)[Cardinality(DOMAIN t)]
         IN  /\ ended.timeoutList = {}
             /\ ended.table = RemoveTimeoutRecords(t, time)
<1> DEFINE n == Cardinality(DOMAIN t)
           s == RemovalRounds(t, time)[n]
           gone == DOMAIN t \ DOMAIN s.table
           R == Removed(t, time)
<1>1. IsFiniteSet(DOMAIN t) /\ n \in Nat
  BY DataAssumption, FS_Subset, FS_CardinalityType DEF TableOK
<1>2. RemovalRoundInv(t, time, n, s)
  BY <1>1, RemovalRoundInvariant
<1> HIDE DEF n, s
<1>3. /\ DOMAIN s.table \subseteq DOMAIN t
      /\ s.table = [x \in DOMAIN s.table |-> t[x]]
      /\ s.timeoutList \subseteq DOMAIN s.table
  BY <1>2, RemovalStateFields DEF RemovalRoundInv
<1>4. s.timeoutList = {}
  <2> SUFFICES ASSUME NEW x \in s.timeoutList PROVE FALSE
    OBVIOUS
  <2>1. n <= Cardinality(gone)
    BY <1>2 DEF RemovalRoundInv
  <2>2. gone \subseteq DOMAIN t \ {x} /\ x \in DOMAIN t
    BY <1>3
  <2>3. IsFiniteSet(DOMAIN t \ {x}) /\ Cardinality(DOMAIN t \ {x}) = n - 1
    BY <1>1, <2>2, FS_RemoveElement DEF n
  <2>4. Cardinality(gone) <= n - 1 /\ Cardinality(gone) \in Nat
    BY <2>2, <2>3, FS_Subset, FS_CardinalityType
  <2> QED BY <1>1, <2>1, <2>4
<1>5. gone = R
  <2>1. gone \subseteq R /\ TimedOut(t, time) \subseteq gone /\ gone \in SUBSET DOMAIN t
    BY <1>2, <1>4 DEF RemovalRoundInv
  <2>2. RemovalClosed(t, gone)
    BY <1>2, <1>4 DEF RemovalRoundInv, RemovalClosed
  <2>3. R \subseteq gone
    BY <2>1, <2>2, RemovedFacts
  <2> QED BY <2>1, <2>3
<1>6. DOMAIN s.table = DOMAIN t \ R
  BY <1>3, <1>5
<1>7. s.table = RemoveTimeoutRecords(t, time)
  <2>1. CASE TimedOut(t, time) # {}
    BY <1>3, <1>6, <2>1 DEF RemoveTimeoutRecords
  <2>2. CASE TimedOut(t, time) = {}
    <3>1. RemovalClosed(t, {})
      BY DEF RemovalClosed
    <3>2. R = {}
      BY <2>2, <3>1, RemovedFacts
    <3>3. t = [x \in DOMAIN t |-> t[x]] /\ DOMAIN s.table = DOMAIN t
      BY <1>6, <3>2 DEF TableOK
    <3> QED BY <1>3, <2>2, <3>3 DEF RemoveTimeoutRecords
  <2> QED BY <2>1, <2>2
<1> QED BY <1>4, <1>7 DEF n, s

\* The loop over the stack of the traversal (ledger-impl.cpp:576-600) ends and
\* has counted the producer for just the records it should, in whatever order
\* a round pushes the parents; in every run, for every record added.
THEOREM TraversalIsLeastSetAlways == Spec => []TraversalIsLeastSet
<1>1. TypeOK => TraversalIsLeastSet
  <2> SUFFICES ASSUME TypeOK, NEW r \in Record \ DOMAIN tailRecords,
                      NEW endorseVerified \in BOOLEAN
               PROVE  LET inserted == Inserted(tailRecords, r, endorseVerified, now)
                          ended    == Traversal(inserted, r)[Cardinality(DOMAIN inserted)]
                      IN  /\ ended.stack = <<>>
                          /\ ended.updated = UpdatedRecords(inserted, r)
                          /\ ended.table = Weighed(inserted, r, ended.updated)
    BY DEF TraversalIsLeastSet
  <2>1. TableOK(tailRecords) /\ now \in Nat
    BY DEF TypeOK, TailRecordsOK, TableOK
  <2> DEFINE inserted == Inserted(tailRecords, r, endorseVerified, now)
  <2>2. TableOK(inserted) /\ r \in DOMAIN inserted
    <3>1. r \in Record
      OBVIOUS
    <3>2. TableOK(inserted) /\ DOMAIN inserted = DOMAIN tailRecords \cup {r}
      BY <2>1, <3>1, InsertedTable
    <3> QED BY <3>2
  <2> HIDE DEF inserted
  <2>3. LET ended == Traversal(inserted, r)[Cardinality(DOMAIN inserted)]
        IN  /\ ended.stack = <<>>
            /\ ended.updated = UpdatedRecords(inserted, r)
            /\ ended.table = Weighed(inserted, r, ended.updated)
    BY <2>2, TraversalEnds
  <2> QED BY <2>3 DEF inserted
<1> QED BY <1>1, LedgerTypeCorrect, PTL

\* The rounds of removeTimeoutRecords (ledger-impl.cpp:689-703) end and have
\* removed the late records with all their descendants, and nothing else.
THEOREM RemovalIsLeastSetAlways == Spec => []RemovalIsLeastSet
<1>1. TypeOK => RemovalIsLeastSet
  <2> SUFFICES ASSUME TypeOK PROVE RemovalIsLeastSet
    OBVIOUS
  <2>1. TableOK(tailRecords)
    BY DEF TypeOK, TailRecordsOK, TableOK
  <2> QED BY <2>1, RemovalEnds DEF RemovalIsLeastSet
<1> QED BY <1>1, LedgerTypeCorrect, PTL


(***************************************************************************)
(* The loop over the updated records.                                      *)
(***************************************************************************)
\* Confirming one more record, the last so far in the order of the names.
IsLast(x, R) == \A y \in R : NameOrder[y] < NameOrder[x]

CertificateRecords == {c \in Record : Type(c) = "CERTIFICATE_RECORD"}

\* A record confirmed later removes the heads it names; being no older in the
\* order of the names it removes all of them.
LEMMA LastCertsOneMore ==
  ASSUME NEW last \in SUBSET CertificateRecords,
         NEW R \in SUBSET Record, NEW x \in Record, IsLast(x, R)
  PROVE  LastCertsAfter(last, R \cup {x}) =
           (LastCertsAfter(last, R) \cup IF Type(x) = "CERTIFICATE_RECORD" THEN {x} ELSE {})
             \ PrevCertificates(x)
<1>1. x \notin R /\ \A d \in R : ~ (NameOrder[x] <= NameOrder[d]) /\ NameOrder[d] <= NameOrder[x]
  <2>1. \A d \in R : NameOrder[d] \in Nat /\ NameOrder[x] \in Nat
    BY NameOrderAssumption
  <2> QED BY <2>1 DEF IsLast
<1>0. \A c \in last : c \in Record /\ Type(c) = "CERTIFICATE_RECORD"
  BY DEF CertificateRecords
<1>2. x \notin PrevCertificates(x) /\ NameOrder[x] <= NameOrder[x]
  <2>1. \E r \in {x} : Named(r) \cap {x} = {}
    BY HashDagAssumption
  <2>2. NameOrder[x] \in Nat
    BY NameOrderAssumption
  <2> QED BY <2>1, <2>2 DEF Named
<1> DEFINE Named1(c, d) == c \in PrevCertificates(d) /\ (c \in R => NameOrder[c] <= NameOrder[d])
           Named2(c, d) == /\ c \in PrevCertificates(d)
                           /\ c \in R \cup {x} => NameOrder[c] <= NameOrder[d]
           A == LastCertsAfter(last, R)
           B == LastCertsAfter(last, R \cup {x})
<1>3. ASSUME NEW c
      PROVE  c \in A <=> /\ c \in last \/ (c \in R /\ Type(c) = "CERTIFICATE_RECORD")
                         /\ \A d \in R : ~ Named1(c, d)
  BY DEF LastCertsAfter
<1>4. ASSUME NEW c
      PROVE  c \in B <=> /\ c \in last \/ (c \in R \cup {x} /\ Type(c) = "CERTIFICATE_RECORD")
                         /\ \A d \in R \cup {x} : ~ Named2(c, d)
  BY DEF LastCertsAfter
<1> HIDE DEF A, B
<1>5. ASSUME NEW c
      PROVE  c \in B <=> (c \in A \/ (c = x /\ Type(c) = "CERTIFICATE_RECORD"))
                           /\ c \notin PrevCertificates(x)
  <2>1. CASE c = x
    <3>1. \A d \in R : ~ Named2(x, d)
      BY <1>1
    <3>2. x \in B <=> Type(x) = "CERTIFICATE_RECORD"
      BY <1>0, <1>1, <1>2, <1>4, <3>1
    <3>3. x \in A => Type(x) = "CERTIFICATE_RECORD"
      BY <1>0, <1>1, <1>3
    <3> QED BY <1>2, <2>1, <3>2, <3>3
  <2>2. CASE c # x
    <3>1. \A d \in R : Named1(c, d) <=> Named2(c, d)
      BY <2>2
    <3>2. Named2(c, x) <=> c \in PrevCertificates(x)
      BY <1>1, <2>2
    <3> HIDE DEF Named1, Named2
    <3> QED BY <1>3, <1>4, <2>2, <3>1, <3>2
  <2> QED BY <2>1, <2>2
<1> QED BY <1>5 DEF A, B

LEMMA CertsOneMore ==
  ASSUME NEW certs, NEW revoked, NEW R \in SUBSET Record, NEW x \in Record, IsLast(x, R)
  PROVE  /\ CertsAfter(certs, revoked, R \cup {x}) =
              CertsAfter(certs, revoked, R) \cup (Certificates(x) \ RevokedAfter(revoked, R))
         /\ RevokedAfter(revoked, R \cup {x}) = RevokedAfter(revoked, R) \cup RevokedCertificates(x)
<1>1. \A y \in R : NameOrder[y] \in Nat /\ NameOrder[x] \in Nat /\ NameOrder[y] < NameOrder[x]
  BY NameOrderAssumption DEF IsLast
<1>2. NameOrder[x] \in Nat
  BY NameOrderAssumption
<1>3. Before(x, R \cup {x}) = R
  BY <1>1, <1>2 DEF Before
<1>4. \A y \in R : Before(y, R \cup {x}) = Before(y, R)
  BY <1>1 DEF Before
<1>5. RevokedAfter(revoked, R \cup {x}) = RevokedAfter(revoked, R) \cup RevokedCertificates(x)
  BY DEF RevokedAfter
<1>6. CertsAfter(certs, revoked, R \cup {x}) =
        CertsAfter(certs, revoked, R) \cup (Certificates(x) \ RevokedAfter(revoked, R))
  <2> DEFINE New(y, Q) == Certificates(y) \ RevokedAfter(revoked, Before(y, Q))
  <2>1. New(x, R \cup {x}) = Certificates(x) \ RevokedAfter(revoked, R)
    BY <1>3
  <2>2. \A y \in R : New(y, R \cup {x}) = New(y, R)
    BY <1>4
  <2>3. CertsAfter(certs, revoked, R \cup {x}) = certs \cup UNION {New(y, R \cup {x}) : y \in R \cup {x}}
    BY DEF CertsAfter
  <2>4. CertsAfter(certs, revoked, R) = certs \cup UNION {New(y, R) : y \in R}
    BY DEF CertsAfter
  <2> HIDE DEF New
  <2>5. UNION {New(y, R \cup {x}) : y \in R \cup {x}} = (UNION {New(y, R) : y \in R}) \cup New(x, R \cup {x})
    BY <2>2
  <2> QED BY <2>1, <2>3, <2>4, <2>5
<1> QED BY <1>5, <1>6

\* Settling the records of D and then x, and what of them is confirmed.
LEMMA SettledOneMore ==
  ASSUME NEW t, TableOK(t), NEW D \in SUBSET DOMAIN t, NEW x \in DOMAIN t, x \notin D
  PROVE  /\ Settled(Settled(t, D), {x}) = Settled(t, D \cup {x})
         /\ Confirmed(Settled(t, D), {x}) = Confirmed(t, {x})
         /\ Confirmed(t, D \cup {x}) = Confirmed(t, D) \cup Confirmed(t, {x})
<1> DEFINE s == Settled(t, D)
           heavy(S) == {y \in S : Weight(t, y) >= removeWeight}
           value(S, y) == IF y \in S /\ Weight(t, y) = confirmWeight
                            THEN [t[y] EXCEPT !.parentEndorseVerified = TRUE] ELSE t[y]
<1>1. \A S : Settled(t, S) = [y \in DOMAIN t \ heavy(S) |-> value(S, y)]
  BY DEF Settled
<1>2. DOMAIN s = DOMAIN t \ heavy(D) /\ \A y \in DOMAIN s : s[y] = value(D, y)
  <2> HIDE DEF heavy, value
  <2>1. s = [y \in DOMAIN t \ heavy(D) |-> value(D, y)]
    BY <1>1
  <2> HIDE DEF s
  <2> QED BY <2>1
<1>3. \A y \in DOMAIN s : Weight(s, y) = Weight(t, y)
  <2> SUFFICES ASSUME NEW y \in DOMAIN s PROVE s[y].refSet = t[y].refSet
    BY DEF Weight
  <2>1. t[y] \in TailingRecordState
    BY <1>2 DEF TableOK
  <2> QED BY <1>2, <2>1 DEF TailingRecordState
<1>4. x \in DOMAIN s /\ s[x] = t[x]
  BY <1>2
<1> HIDE DEF s
<1>5. Confirmed(s, {x}) = Confirmed(t, {x})
  BY <1>3, <1>4 DEF Confirmed
<1>6. Confirmed(t, D \cup {x}) = Confirmed(t, D) \cup Confirmed(t, {x})
  BY DEF Confirmed
<1>7. Settled(s, {x}) = Settled(t, D \cup {x})
  <2> DEFINE late(y) == IF y \in {x} /\ Weight(s, y) = confirmWeight
                          THEN [s[y] EXCEPT !.parentEndorseVerified = TRUE] ELSE s[y]
             kept == DOMAIN s \ {y \in {x} : Weight(s, y) >= removeWeight}
  <2>1. Settled(s, {x}) = [y \in kept |-> late(y)]
    BY DEF Settled
  <2>2. kept = DOMAIN t \ heavy(D \cup {x})
    BY <1>2, <1>3, <1>4
  <2>3. \A y \in kept : late(y) = value(D \cup {x}, y)
    <3> SUFFICES ASSUME NEW y \in kept PROVE late(y) = value(D \cup {x}, y)
      OBVIOUS
    <3>1. y \in DOMAIN s /\ Weight(s, y) = Weight(t, y)
      BY <1>3
    <3>2. CASE y = x
      BY <1>4, <3>1, <3>2
    <3>3. CASE y # x
      BY <1>2, <3>1, <3>3
    <3> QED BY <3>2, <3>3
  <2> HIDE DEF late, kept, value, heavy
  <2> QED BY <1>1, <2>1, <2>2, <2>3
<1> QED BY <1>5, <1>6, <1>7 DEF s

\* The states of the loop, from one with table t and the updated records U.
ConfirmStates ==
  [rest    : SUBSET Record,
   table   : UNION {[D -> TailingRecordState] : D \in SUBSET Record},
   stored  : SUBSET Record,
   heads   : SUBSET Record,
   certs   : SUBSET Cert,
   revoked : SUBSET Cert]

ConfirmStart(z) ==
  /\ z \in ConfirmStates
  /\ z.rest \subseteq DOMAIN z.table
  /\ \A c \in z.heads : Type(c) = "CERTIFICATE_RECORD"

\* After each round: the records done come before the others by name, and all
\* is as if they had been confirmed together.
ConfirmInv(z, n, s) ==
  LET done == z.rest \ s.rest
      C    == Confirmed(z.table, done)
  IN  /\ s.rest \subseteq z.rest
      /\ \A x \in s.rest : IsLast(x, done)
      /\ s.table   = Settled(z.table, done)
      /\ s.stored  = z.stored \cup C
      /\ s.heads   = LastCertsAfter(z.heads, C)
      /\ s.certs   = CertsAfter(z.certs, z.revoked, C)
      /\ s.revoked = RevokedAfter(z.revoked, C)
      /\ s.rest # {} => n + Cardinality(s.rest) <= Cardinality(z.rest)

LEMMA ConfirmTable ==
  ASSUME NEW s \in ConfirmStates
  PROVE  TableOK(s.table)
<1>1. PICK D \in SUBSET Record : s.table \in [D -> TailingRecordState]
  BY DEF ConfirmStates
<1> QED BY <1>1 DEF TableOK

LEMMA TableStates ==
  ASSUME NEW t, TableOK(t)
  PROVE  t \in UNION {[D -> TailingRecordState] : D \in SUBSET Record}
<1>1. DOMAIN t \in SUBSET Record /\ t \in [DOMAIN t -> TailingRecordState]
  BY DEF TableOK
<1> QED BY <1>1

LEMMA SettledTable ==
  ASSUME NEW t, TableOK(t), NEW S
  PROVE  TableOK(Settled(t, S))
<1> DEFINE kept == DOMAIN t \ {y \in S : Weight(t, y) >= removeWeight}
           value(y) == IF y \in S /\ Weight(t, y) = confirmWeight
                         THEN [t[y] EXCEPT !.parentEndorseVerified = TRUE] ELSE t[y]
<1>1. Settled(t, S) = [y \in kept |-> value(y)]
  BY DEF Settled
<1>2. \A y \in kept : value(y) \in TailingRecordState
  <2> SUFFICES ASSUME NEW y \in kept PROVE value(y) \in TailingRecordState
    OBVIOUS
  <2>1. t[y] \in TailingRecordState
    BY DEF TableOK
  <2> QED BY <2>1 DEF TailingRecordState
<1>3. kept \subseteq Record
  BY DEF TableOK
<1> HIDE DEF kept, value
<1> QED BY <1>1, <1>2, <1>3 DEF TableOK

\* The next record by name, and the round that deals with it.
LEMMA NextByName ==
  ASSUME NEW S \in SUBSET Record, S # {}
  PROVE  LET x == CHOOSE y \in S : \A z \in S : NameOrder[y] <= NameOrder[z]
         IN  x \in S /\ \A z \in S \ {x} : NameOrder[x] < NameOrder[z]
<1> DEFINE less == {ss \in Nat \X Nat : ss[1] < ss[2]}
           T == {NameOrder[y] : y \in S}
           First(y) == \A z \in S : NameOrder[y] <= NameOrder[z]
<1>1. \A y \in S : NameOrder[y] \in Nat
  BY NameOrderAssumption
<1>2. \E y \in S : First(y)
  <2>1. IsWellFoundedOn(less, Nat)
    BY NatLessThanWellFounded DEF OpToRel
  <2>2. T \subseteq Nat /\ T # {}
    BY <1>1
  <2>3. PICK m \in T : \A k \in T : ~ (<<k, m>> \in less)
    <3> HIDE DEF less, T
    <3> QED BY <2>1, <2>2, WFMin
  <2>4. PICK y \in S : m = NameOrder[y]
    BY <2>3
  <2>5. ASSUME NEW z \in S PROVE NameOrder[y] <= NameOrder[z]
    <3>1. ~ (<<NameOrder[z], NameOrder[y]>> \in less)
      BY <2>3, <2>4
    <3>2. NameOrder[z] \in Nat /\ NameOrder[y] \in Nat
      BY <1>1
    <3> QED BY <3>1, <3>2
  <2> QED BY <2>4, <2>5
<1> DEFINE x == CHOOSE y \in S : First(y)
<1>3. x \in S /\ First(x)
  <2> HIDE DEF First
  <2> QED BY <1>2
<1> HIDE DEF x
<1>4. ASSUME NEW z \in S \ {x} PROVE NameOrder[x] < NameOrder[z]
  <2>1. NameOrder[x] <= NameOrder[z] /\ NameOrder[x] # NameOrder[z]
    BY <1>3, NameOrderAssumption
  <2> QED BY <1>1, <1>3, <2>1
<1> QED BY <1>3, <1>4 DEF x


\* What one round does with the next record x.
ConfirmedNext(s, x) ==
  LET R == Confirmed(s.table, {x})
  IN  [rest    |-> s.rest \ {x},
       table   |-> Settled(s.table, {x}),
       stored  |-> s.stored \cup R,
       heads   |-> (s.heads \cup {c \in R : Type(c) = "CERTIFICATE_RECORD"})
                     \ UNION {PrevCertificates(c) : c \in R},
       certs   |-> s.certs \cup ((UNION {Certificates(c) : c \in R}) \ s.revoked),
       revoked |-> s.revoked \cup UNION {RevokedCertificates(c) : c \in R}]

LEMMA ConfirmStepNext ==
  ASSUME NEW s, s.rest \in SUBSET Record, s.rest # {}
  PROVE  \E x \in s.rest : /\ \A z \in s.rest \ {x} : NameOrder[x] < NameOrder[z]
                           /\ ConfirmStep(s) = ConfirmedNext(s, x)
<1> DEFINE x == CHOOSE y \in s.rest : \A z \in s.rest : NameOrder[y] <= NameOrder[z]
<1>1. x \in s.rest /\ \A z \in s.rest \ {x} : NameOrder[x] < NameOrder[z]
  BY NextByName
<1>2. ConfirmStep(s) = ConfirmedNext(s, x)
  BY DEF ConfirmStep, ConfirmedNext
<1> HIDE DEF x
<1> QED BY <1>1, <1>2

LEMMA CertificateTypes ==
  ASSUME NEW r \in Record
  PROVE  Certificates(r) \in SUBSET Cert /\ RevokedCertificates(r) \in SUBSET Cert
  BY DataAssumption DEF Certificates, RevokedCertificates, Packet

LEMMA ConfirmStepType ==
  ASSUME NEW s \in ConfirmStates
  PROVE  ConfirmStep(s) \in ConfirmStates
<1>1. CASE s.rest = {}
  BY <1>1 DEF ConfirmStep
<1>2. CASE s.rest # {}
  <2>1. PICK x \in s.rest : ConfirmStep(s) = ConfirmedNext(s, x)
    BY <1>2, ConfirmStepNext DEF ConfirmStates
  <2> DEFINE R == Confirmed(s.table, {x})
             e == ConfirmedNext(s, x)
  <2>2. x \in Record /\ R \subseteq {x}
    BY DEF ConfirmStates, Confirmed
  <2>3. e.table \in UNION {[D -> TailingRecordState] : D \in SUBSET Record}
    <3>1. TableOK(Settled(s.table, {x}))
      BY ConfirmTable, SettledTable
    <3> QED BY <3>1, TableStates DEF ConfirmedNext
  <2> HIDE DEF R
  <2>4. /\ UNION {Certificates(c) : c \in R} \subseteq Cert
        /\ UNION {RevokedCertificates(c) : c \in R} \subseteq Cert
    BY <2>2, CertificateTypes
  <2>5. e = [rest    |-> s.rest \ {x},
             table   |-> e.table,
             stored  |-> s.stored \cup R,
             heads   |-> (s.heads \cup {c \in R : Type(c) = "CERTIFICATE_RECORD"})
                           \ UNION {PrevCertificates(c) : c \in R},
             certs   |-> s.certs \cup ((UNION {Certificates(c) : c \in R}) \ s.revoked),
             revoked |-> s.revoked \cup UNION {RevokedCertificates(c) : c \in R}]
    BY DEF ConfirmedNext, R
  <2> HIDE DEF e
  <2>6. e \in ConfirmStates
    BY <2>2, <2>3, <2>4, <2>5 DEF ConfirmStates
  <2> QED BY <2>1, <2>6 DEF e
<1> QED BY <1>1, <1>2

LEMMA ConfirmRoundsAre ==
  ASSUME NEW z \in ConfirmStates
  PROVE  /\ ConfirmRounds(z)[0] = z
         /\ \A n \in Nat : ConfirmRounds(z)[n + 1] = ConfirmStep(ConfirmRounds(z)[n])
<1> DEFINE S == ConfirmStates
           step == [s \in S |-> ConfirmStep(s)]
           Solves(f) == f = [n \in Nat |-> IF n = 0 THEN z ELSE ConfirmStep(f[n - 1])]
<1>1. step \in [S -> S]
  <2> HIDE DEF S
  <2>1. \A s \in S : ConfirmStep(s) \in S
    BY ConfirmStepType DEF S
  <2> QED BY <2>1
<1> HIDE DEF S
<1>2. \E f : Solves(f)
  <2>1. PICK f \in [Nat -> S] : Iterates(f, z, step)
    <3>1. z \in S
      BY DEF S
    <3> HIDE DEF step
    <3> QED BY <1>1, <3>1, IterationExists
  <2>2. \A n \in Nat : n # 0 => n - 1 \in Nat
    OBVIOUS
  <2>3. \A n \in Nat : n # 0 => step[f[n - 1]] = ConfirmStep(f[n - 1])
    BY <2>2
  <2>4. Solves(f)
    BY <2>1, <2>3 DEF Iterates
  <2> QED BY <2>4
<1>3. ConfirmRounds(z) = CHOOSE f : Solves(f)
  BY DEF ConfirmRounds
<1> HIDE DEF Solves
<1>4. Solves(ConfirmRounds(z))
  BY <1>2, <1>3
<1> USE DEF Solves
<1>5. ConfirmRounds(z)[0] = z
  BY <1>4
<1>6. ASSUME NEW n \in Nat PROVE ConfirmRounds(z)[n + 1] = ConfirmStep(ConfirmRounds(z)[n])
  <2>1. n + 1 \in Nat /\ n + 1 # 0 /\ (n + 1) - 1 = n
    OBVIOUS
  <2> QED BY <1>4, <2>1
<1> QED BY <1>5, <1>6

LEMMA ConfirmStartInv ==
  ASSUME NEW z, ConfirmStart(z)
  PROVE  ConfirmInv(z, 0, z)
<1>1. z \in ConfirmStates /\ TableOK(z.table) /\ z.rest \ z.rest = {}
  BY ConfirmTable DEF ConfirmStart
<1>2. Confirmed(z.table, {}) = {}
  BY DEF Confirmed
<1>3. z.table = Settled(z.table, {})
  BY <1>1 DEF Settled, TableOK
<1>4. /\ z.heads   = LastCertsAfter(z.heads, {})
      /\ z.certs   = CertsAfter(z.certs, z.revoked, {})
      /\ z.revoked = RevokedAfter(z.revoked, {})
  BY DEF LastCertsAfter, CertsAfter, RevokedAfter
<1>5. \A x \in z.rest : IsLast(x, {})
  BY DEF IsLast
<1>6. IsFiniteSet(z.rest) /\ Cardinality(z.rest) \in Nat
  BY <1>1, DataAssumption, FS_Subset, FS_CardinalityType DEF ConfirmStates
<1>7. 0 + Cardinality(z.rest) <= Cardinality(z.rest)
  BY <1>6
<1> QED BY <1>1, <1>2, <1>3, <1>4, <1>5, <1>7 DEF ConfirmInv

LEMMA ConfirmStepInv ==
  ASSUME NEW z, ConfirmStart(z), NEW n \in Nat, NEW s, ConfirmInv(z, n, s)
  PROVE  ConfirmInv(z, n + 1, ConfirmStep(s))
<1>1. CASE s.rest = {}
  BY <1>1 DEF ConfirmStep, ConfirmInv
<1>2. CASE s.rest # {}
  <2> DEFINE t == z.table
             D == z.rest \ s.rest
             C == Confirmed(t, D)
  <2>1. /\ s.rest \subseteq z.rest
        /\ \A x \in s.rest : IsLast(x, D)
        /\ s.table   = Settled(t, D)
        /\ s.stored  = z.stored \cup C
        /\ s.heads   = LastCertsAfter(z.heads, C)
        /\ s.certs   = CertsAfter(z.certs, z.revoked, C)
        /\ s.revoked = RevokedAfter(z.revoked, C)
        /\ n + Cardinality(s.rest) <= Cardinality(z.rest)
    BY <1>2 DEF ConfirmInv
  <2>2. /\ z \in ConfirmStates /\ z.rest \subseteq DOMAIN t /\ TableOK(t)
        /\ z.heads \in SUBSET CertificateRecords
    BY ConfirmTable DEF ConfirmStart, ConfirmStates, CertificateRecords
  <2>3. z.rest \in SUBSET Record /\ s.rest \in SUBSET Record
    BY <2>1, <2>2 DEF ConfirmStates
  <2>4. PICK x \in s.rest : /\ \A y \in s.rest \ {x} : NameOrder[x] < NameOrder[y]
                            /\ ConfirmStep(s) = ConfirmedNext(s, x)
    BY <1>2, <2>3, ConfirmStepNext
  <2> DEFINE e == ConfirmedNext(s, x)
             E == D \cup {x}
             R == Confirmed(t, {x})
  <2>5. D \in SUBSET DOMAIN t /\ x \in DOMAIN t /\ x \notin D /\ x \in Record
    BY <2>1, <2>2, <2>3
  <2>6. z.rest \ (s.rest \ {x}) = E
    BY <2>1
  <2>7. C \subseteq D /\ (R = {} \/ R = {x}) /\ C \in SUBSET Record
    BY <2>3 DEF Confirmed
  <2> HIDE DEF t, D, C
  <2>8. /\ Settled(Settled(t, D), {x}) = Settled(t, E)
        /\ Confirmed(Settled(t, D), {x}) = R
        /\ Confirmed(t, E) = C \cup R
    BY <2>2, <2>5, SettledOneMore DEF C
  <2>9. IsLast(x, C)
    BY <2>1, <2>7 DEF IsLast
  <2>10. /\ e.rest    = s.rest \ {x}
         /\ e.table   = Settled(t, E)
         /\ e.stored  = s.stored \cup R
         /\ e.heads   = (s.heads \cup {c \in R : Type(c) = "CERTIFICATE_RECORD"})
                          \ UNION {PrevCertificates(c) : c \in R}
         /\ e.certs   = s.certs \cup ((UNION {Certificates(c) : c \in R}) \ s.revoked)
         /\ e.revoked = s.revoked \cup UNION {RevokedCertificates(c) : c \in R}
    BY <2>1, <2>8 DEF ConfirmedNext
  <2> HIDE DEF e, R, E
  <2>11. /\ e.stored  = z.stored \cup (C \cup R)
         /\ e.heads   = LastCertsAfter(z.heads, C \cup R)
         /\ e.certs   = CertsAfter(z.certs, z.revoked, C \cup R)
         /\ e.revoked = RevokedAfter(z.revoked, C \cup R)
    <3>1. CASE R = {}
      BY <2>1, <2>10, <3>1
    <3>2. CASE R = {x}
      <4>0. x \in Record /\ C \in SUBSET Record /\ IsLast(x, C)
        BY <2>5, <2>7, <2>9
      <4>1. LastCertsAfter(z.heads, C \cup {x}) =
              (LastCertsAfter(z.heads, C) \cup IF Type(x) = "CERTIFICATE_RECORD" THEN {x} ELSE {})
                \ PrevCertificates(x)
        BY <2>2, <4>0, LastCertsOneMore
      <4>2. /\ CertsAfter(z.certs, z.revoked, C \cup {x}) =
                 CertsAfter(z.certs, z.revoked, C) \cup (Certificates(x) \ RevokedAfter(z.revoked, C))
            /\ RevokedAfter(z.revoked, C \cup {x}) =
                 RevokedAfter(z.revoked, C) \cup RevokedCertificates(x)
        BY <4>0, CertsOneMore
      <4>3. /\ UNION {PrevCertificates(c) : c \in R} = PrevCertificates(x)
            /\ {c \in R : Type(c) = "CERTIFICATE_RECORD"} =
                  IF Type(x) = "CERTIFICATE_RECORD" THEN {x} ELSE {}
            /\ UNION {Certificates(c) : c \in R} = Certificates(x)
            /\ UNION {RevokedCertificates(c) : c \in R} = RevokedCertificates(x)
        BY <3>2
      <4>4. e.heads = LastCertsAfter(z.heads, C \cup {x})
        BY <2>1, <2>10, <3>2, <4>1, <4>3
      <4>5. e.certs = CertsAfter(z.certs, z.revoked, C \cup {x})
        <5>1. e.certs = s.certs \cup (Certificates(x) \ s.revoked)
          BY <2>10, <4>3
        <5> QED BY <2>1, <4>2, <5>1
      <4>6. e.revoked = RevokedAfter(z.revoked, C \cup {x})
        BY <2>1, <2>10, <3>2, <4>2, <4>3
      <4>7. e.stored = z.stored \cup (C \cup R)
        BY <2>1, <2>10
      <4> QED BY <3>2, <4>4, <4>5, <4>6, <4>7
    <3> QED BY <2>7, <3>1, <3>2
  <2>12. \A y \in e.rest : IsLast(y, E)
    BY <2>1, <2>4, <2>10 DEF IsLast, E
  <2>13. (n + 1) + Cardinality(e.rest) <= Cardinality(z.rest)
    <3>1. IsFiniteSet(s.rest) /\ Cardinality(s.rest) \in Nat
      BY <2>3, DataAssumption, FS_Subset, FS_CardinalityType
    <3>2. Cardinality(s.rest \ {x}) = Cardinality(s.rest) - 1
      BY <3>1, FS_RemoveElement
    <3>3. IsFiniteSet(z.rest) /\ Cardinality(z.rest) \in Nat
      BY <2>3, DataAssumption, FS_Subset, FS_CardinalityType
    <3>4. e.rest = s.rest \ {x}
      BY <2>10
    <3> QED BY <2>1, <3>1, <3>2, <3>3, <3>4
  <2>14. e.rest \subseteq z.rest /\ z.rest \ e.rest = E
    BY <2>1, <2>6, <2>10
  <2>15. ConfirmInv(z, n + 1, e)
    BY <2>8, <2>10, <2>11, <2>12, <2>13, <2>14 DEF ConfirmInv, t
  <2> QED BY <2>4, <2>15 DEF e
<1> QED BY <1>1, <1>2

\* The loop ends, and has confirmed and removed what should be.
LEMMA ConfirmEnds ==
  ASSUME NEW z, ConfirmStart(z)
  PROVE  LET ended == ConfirmRounds(z)[Cardinality(z.rest)]
             C     == Confirmed(z.table, z.rest)
         IN  /\ ended.rest    = {}
             /\ ended.table   = Settled(z.table, z.rest)
             /\ ended.stored  = z.stored \cup C
             /\ ended.heads   = LastCertsAfter(z.heads, C)
             /\ ended.certs   = CertsAfter(z.certs, z.revoked, C)
             /\ ended.revoked = RevokedAfter(z.revoked, C)
<1> DEFINE n == Cardinality(z.rest)
           s == ConfirmRounds(z)[n]
           G == {m \in Nat : ConfirmInv(z, m, ConfirmRounds(z)[m])}
<1>1. z \in ConfirmStates
  BY DEF ConfirmStart
<1>2. 0 \in G
  BY <1>1, ConfirmStartInv, ConfirmRoundsAre
<1>3. ASSUME NEW m \in G PROVE m + 1 \in G
  <2>1. m \in Nat /\ ConfirmRounds(z)[m + 1] = ConfirmStep(ConfirmRounds(z)[m])
    BY <1>1, ConfirmRoundsAre
  <2> QED BY <2>1, ConfirmStepInv
<1> HIDE DEF G
<1>4. G = Nat
  <2>1. G \in SUBSET Nat
    BY DEF G
  <2> QED BY <1>2, <1>3, <2>1, NatSetInduction
<1>5. IsFiniteSet(z.rest) /\ n \in Nat
  BY <1>1, DataAssumption, FS_Subset, FS_CardinalityType DEF ConfirmStates
<1>6. ConfirmInv(z, n, s)
  BY <1>4, <1>5 DEF G
<1> HIDE DEF s
<1>7. s.rest = {}
  <2> SUFFICES ASSUME s.rest # {} PROVE FALSE
    OBVIOUS
  <2>1. n + Cardinality(s.rest) <= n /\ s.rest \subseteq z.rest
    BY <1>6 DEF ConfirmInv
  <2>2. IsFiniteSet(s.rest) /\ Cardinality(s.rest) \in Nat
    BY <1>5, <2>1, FS_Subset, FS_CardinalityType
  <2>3. Cardinality(s.rest) # 0
    BY <2>2, FS_EmptySet
  <2> QED BY <1>5, <2>1, <2>2, <2>3
<1>8. z.rest \ s.rest = z.rest
  BY <1>7
<1> QED BY <1>6, <1>7, <1>8 DEF ConfirmInv, s

-----------------------------------------------------------------------------
\* The heads of the certificate chains are certificate records.
HeadsAreCertificates == \A c \in lastCertRecords : Type(c) = "CERTIFICATE_RECORD"

LEMMA StepHeads == LedgerInv /\ HeadsAreCertificates /\ [AnyNext]_vars => HeadsAreCertificates'
<1> SUFFICES ASSUME LedgerInv, HeadsAreCertificates, [AnyNext]_vars PROVE HeadsAreCertificates'
  OBVIOUS
<1>1. CASE lastCertRecords' = lastCertRecords
  BY <1>1 DEF HeadsAreCertificates
<1>2. ASSUME NEW r, NEW e, AddStep(r, e) PROVE HeadsAreCertificates'
  <2>1. PICK R \in SUBSET Record : OnRecordsConfirmed(R, {})
    BY <1>2, AddConfirms
  <2>2. lastCertRecords' = LastCertsAfter(lastCertRecords, R)
    BY <2>1 DEF OnRecordsConfirmed
  <2> QED BY <2>2 DEF HeadsAreCertificates, LastCertsAfter
<1>3. ASSUME NEW r \in Record, CreateRecord(r) PROVE HeadsAreCertificates'
  BY <1>2, <1>3, CreateRecordAdds
<1>4. CASE ScanAdd
  BY <1>2, <1>4, ScanAddAdds, <1>1 DEF ledgerVars
<1>5. CASE Restart
  BY <1>5 DEF Restart, Reopen, HeadsAreCertificates
<1> QED BY <1>1, <1>3, <1>4, <1>5 DEF AnyNext, Scan, OnLedgerSyncRequest, SendReplySync,
           OnFetchedRecord, ScanExpire, ScanKeep, ScanEnd, LoseInterest, Tick, vars,
           ledgerVars, countVars, fetchVars

\* An addition as the code runs it, loop after loop, is the addition of the
\* model, which computes every loop's result at once.
LEMMA AddIsByLoops ==
  ASSUME TypeOK, HeadsAreCertificates, NEW r \in Record, NEW e \in BOOLEAN
  PROVE  AddToTailingRecord(r, e) <=> AddByLoops(r, e)
<1> DEFINE inserted == Inserted(tailRecords, r, e, now)
           U == UpdatedRecords(inserted, r)
           w == Weighed(inserted, r, U)
           traversed == Traversal(inserted, r)[Cardinality(DOMAIN inserted)]
           start == [rest |-> traversed.updated, table |-> traversed.table,
                     stored |-> backend, heads |-> lastCertRecords,
                     certs |-> peerCertificates, revoked |-> revokedCertificates]
           confirmed == ConfirmRounds(start)[Cardinality(traversed.updated)]
           removed == RemovalRounds(confirmed.table, now)[Cardinality(DOMAIN confirmed.table)]
           settled == Settled(w, U)
           C == Confirmed(w, U)
<1>1. TableOK(tailRecords) /\ now \in Nat
  BY DEF TypeOK, TailRecordsOK, TableOK
<1>2. TableOK(inserted) /\ r \in DOMAIN inserted
  <2>1. TableOK(inserted) /\ DOMAIN inserted = DOMAIN tailRecords \cup {r}
    BY <1>1, InsertedTable
  <2> QED BY <2>1
<1> HIDE DEF inserted
<1>3. traversed.updated = U /\ traversed.table = w
  BY <1>2, TraversalEnds
<1>4. TableOK(w) /\ DOMAIN w = DOMAIN inserted
  BY <1>2, WeighedTable
<1>5. U \subseteq DOMAIN w
  BY <1>4, UpdatedFacts DEF Open
<1> HIDE DEF U, w, traversed
<1>6. ConfirmStart(start)
  <2>1. w \in UNION {[D -> TailingRecordState] : D \in SUBSET Record}
    BY <1>4, TableStates
  <2>2. U \in SUBSET Record
    BY <1>4, <1>5 DEF TableOK
  <2> QED BY <1>3, <1>5, <2>1, <2>2 DEF ConfirmStart, ConfirmStates, TypeOK, HeadsAreCertificates
<1>7. /\ start.rest = U /\ start.table = w /\ start.stored = backend
      /\ start.heads = lastCertRecords /\ start.certs = peerCertificates
      /\ start.revoked = revokedCertificates
  BY <1>3
<1> HIDE DEF start
<1>8. /\ confirmed.table = settled
      /\ confirmed.stored = backend \cup C
      /\ confirmed.heads = LastCertsAfter(lastCertRecords, C)
      /\ confirmed.certs = CertsAfter(peerCertificates, revokedCertificates, C)
      /\ confirmed.revoked = RevokedAfter(revokedCertificates, C)
  BY <1>3, <1>6, <1>7, ConfirmEnds
<1>9. TableOK(settled)
  BY <1>4, SettledTable
<1> HIDE DEF confirmed, settled
<1>10. removed.table = RemoveTimeoutRecords(settled, now)
  BY <1>8, <1>9, RemovalEnds
<1> HIDE DEF removed, C
<1>11. AddByLoops(r, e) <=>
         /\ tailRecords' = removed.table
         /\ backend' = confirmed.stored
         /\ lastCertRecords' = confirmed.heads
         /\ peerCertificates' = confirmed.certs
         /\ revokedCertificates' = confirmed.revoked
         /\ admitted' = IF e THEN admitted \cup {r} ELSE admitted
         /\ timedOut' = timedOut \cup (DOMAIN confirmed.table \ DOMAIN removed.table)
         /\ fault' = NullDereference(traversed.table, r, traversed.updated)
  BY DEF AddByLoops, removed, confirmed, start, traversed, inserted
<1>12. AddToTailingRecord(r, e) <=>
         /\ tailRecords' = RemoveTimeoutRecords(settled, now)
         /\ OnRecordsConfirmed(C, {})
         /\ admitted' = IF e THEN admitted \cup {r} ELSE admitted
         /\ timedOut' = timedOut \cup (DOMAIN settled \ DOMAIN tailRecords')
         /\ fault' = NullDereference(w, r, U)
  BY DEF AddToTailingRecord, AddWriting, settled, C, w, U, inserted
<1>13. OnRecordsConfirmed(C, {}) <=>
         /\ backend' = backend \cup C
         /\ lastCertRecords' = LastCertsAfter(lastCertRecords, C)
         /\ peerCertificates' = CertsAfter(peerCertificates, revokedCertificates, C)
         /\ revokedCertificates' = RevokedAfter(revokedCertificates, C)
  BY DEF OnRecordsConfirmed
<1> QED BY <1>3, <1>8, <1>10, <1>11, <1>12, <1>13

\* In every run, adding a record is running the code's loops one after the
\* other: the traversal with its stack (ledger-impl.cpp:576-600), the loop over
\* the updated records in the order of their names, which confirms them one at
\* a time (602-618, 650-671), and the rounds of removeTimeoutRecords (689-703).
THEOREM AdditionsRunTheLoops ==
  Spec => [][\A r \in Record, e \in BOOLEAN : AddToTailingRecord(r, e) <=> AddByLoops(r, e)]_vars
<1> DEFINE Same == \A r \in Record, e \in BOOLEAN : AddToTailingRecord(r, e) <=> AddByLoops(r, e)
<1>1. LedgerInv /\ HeadsAreCertificates /\ [Next]_vars => [Same]_vars
  BY AddIsByLoops DEF LedgerInv
<1>2. Init => HeadsAreCertificates
  BY DEF Init, HeadsAreCertificates
<1>3. LedgerInv /\ HeadsAreCertificates /\ [Next]_vars => HeadsAreCertificates'
  BY StepHeads, NextIsAny
<1> QED BY <1>1, <1>2, <1>3, LedgerInvariant, PTL DEF Spec

-----------------------------------------------------------------------------
(***************************************************************************)
(* Verdicts and weights, and part 4 of addToTailingRecord, which the model *)
(* leaves out.                                                             *)
(***************************************************************************)
\* What an addition does to a record that was tailing and still is.
LEMMA AddKeepsVerdict ==
  ASSUME LedgerInv, NEW r, NEW e, AddStep(r, e), NEW x \in DOMAIN tailRecords \cap DOMAIN tailRecords'
  PROVE  /\ tailRecords'[x].recordEndorseVerified = tailRecords[x].recordEndorseVerified
         /\ tailRecords[x].refSet \subseteq tailRecords'[x].refSet
         /\ Weight(tailRecords', x) <= Weight(tailRecords, x) + 1
<1> DEFINE U == UpdatedNow(r, e)
           w == WeighedNow(r, e)
           s == SettledNow(r, e)
<1>1. TypeOK /\ Addable(r) /\ e \in BOOLEAN
  BY DEF LedgerInv, AddStep
<1>2. /\ TableOK(w) /\ DOMAIN w = DOMAIN tailRecords \cup {r}
      /\ U \subseteq DOMAIN tailRecords
  BY <1>1, WeighedNowTable
<1>3. /\ x \in U => w[x].refSet = tailRecords[x].refSet \cup {ProducerPrefix(r)}
      /\ x \notin U => w[x].refSet = tailRecords[x].refSet
      /\ w[x].recordEndorseVerified = tailRecords[x].recordEndorseVerified
  BY <1>1, WeighedNowRefSets, WeighedNowEndorsed
<1>4. s = Settled(w, U) /\ tailRecords' = RemoveTimeoutRecords(s, now)
  BY AddDefinition DEF AddStep, SettledNow
<1> HIDE DEF U, w, s
<1>5. U \in SUBSET DOMAIN w
  BY <1>2
<1>6. /\ TableOK(s) /\ DOMAIN s \subseteq DOMAIN w
      /\ \A y \in DOMAIN s : /\ s[y].refSet = w[y].refSet
                             /\ s[y].recordEndorseVerified = w[y].recordEndorseVerified
  BY <1>2, <1>4, <1>5, SettledPart
<1>7. DOMAIN tailRecords' \subseteq DOMAIN s /\ \A y \in DOMAIN tailRecords' : tailRecords'[y] = s[y]
  BY <1>4, <1>6, RemoveTimeoutPart
<1>8. /\ tailRecords'[x].refSet = w[x].refSet
      /\ tailRecords'[x].recordEndorseVerified = w[x].recordEndorseVerified
  BY <1>6, <1>7
<1>9. IsFiniteSet(tailRecords[x].refSet) /\ Cardinality(tailRecords[x].refSet) \in Nat
  <2>1. TableOK(tailRecords)
    BY <1>1 DEF TypeOK, TailRecordsOK, TableOK
  <2>2. IsFiniteSet(tailRecords[x].refSet)
    BY <2>1, StateFields
  <2> QED BY <2>2, FS_CardinalityType
<1>10. Cardinality(w[x].refSet) <= Cardinality(tailRecords[x].refSet) + 1
  <2>1. CASE x \in U /\ ProducerPrefix(r) \notin tailRecords[x].refSet
    <3>1. Cardinality(tailRecords[x].refSet \cup {ProducerPrefix(r)})
            = Cardinality(tailRecords[x].refSet) + 1
      BY <1>9, <2>1, FS_AddElement
    <3>2. w[x].refSet = tailRecords[x].refSet \cup {ProducerPrefix(r)}
      BY <1>3, <2>1
    <3> QED BY <1>9, <3>1, <3>2
  <2>2. CASE ~ (x \in U /\ ProducerPrefix(r) \notin tailRecords[x].refSet)
    <3>1. w[x].refSet = tailRecords[x].refSet
      BY <1>3, <2>2
    <3> QED BY <1>9, <3>1
  <2> QED BY <2>1, <2>2
<1> QED BY <1>3, <1>8, <1>10 DEF Weight

\* As long as a record is tailing the verdict on it is final, its approvals
\* are kept, and they grow one by one, so that "weight == confirmWeight" is
\* not stepped over.
THEOREM VerdictsNeverChange == Spec => VerdictsAreFinal
<1> DEFINE FinalStep ==
      restarts' = restarts =>
       \A r \in DOMAIN tailRecords \cap DOMAIN tailRecords' :
         /\ tailRecords'[r].parentEndorseVerified = tailRecords[r].parentEndorseVerified
         /\ tailRecords'[r].recordEndorseVerified = tailRecords[r].recordEndorseVerified
         /\ tailRecords[r].refSet \subseteq tailRecords'[r].refSet
         /\ Weight(tailRecords', r) <= Weight(tailRecords, r) + 1
<1>1. LedgerInv /\ LedgerInv' /\ [Next]_vars => [FinalStep]_vars
  <2> SUFFICES ASSUME LedgerInv, LedgerInv', Next, restarts' = restarts,
                      NEW x \in DOMAIN tailRecords \cap DOMAIN tailRecords'
               PROVE  /\ tailRecords'[x].parentEndorseVerified = tailRecords[x].parentEndorseVerified
                      /\ tailRecords'[x].recordEndorseVerified = tailRecords[x].recordEndorseVerified
                      /\ tailRecords[x].refSet \subseteq tailRecords'[x].refSet
                      /\ Weight(tailRecords', x) <= Weight(tailRecords, x) + 1
    OBVIOUS
  <2> DEFINE Final ==
               /\ tailRecords'[x].parentEndorseVerified = tailRecords[x].parentEndorseVerified
               /\ tailRecords'[x].recordEndorseVerified = tailRecords[x].recordEndorseVerified
               /\ tailRecords[x].refSet \subseteq tailRecords'[x].refSet
               /\ Weight(tailRecords', x) <= Weight(tailRecords, x) + 1
             Kept == /\ tailRecords'[x].recordEndorseVerified = tailRecords[x].recordEndorseVerified
                     /\ tailRecords[x].refSet \subseteq tailRecords'[x].refSet
                     /\ Weight(tailRecords', x) <= Weight(tailRecords, x) + 1
  <2>1. TableOK(tailRecords) /\ restarts \in Nat
    BY DEF LedgerInv, TypeOK, TailRecordsOK, TableOK
  <2>2. ASSUME tailRecords' = tailRecords PROVE Final
    <3>1. Weight(tailRecords, x) \in Nat
      BY <2>1, StateFields
    <3> QED BY <2>2, <3>1 DEF Weight
  <2>3. ASSUME NEW r, NEW e, AddStep(r, e) PROVE Kept
    BY <2>3, AddKeepsVerdict
  <2>4. ASSUME Kept
        PROVE  tailRecords'[x].parentEndorseVerified = tailRecords[x].parentEndorseVerified
    <3>1. /\ RecordInv(tailRecords, backend, x)
          /\ (\A y \in DOMAIN tailRecords : RecordInv(tailRecords, backend, y))'
      <4>1. TailInv(tailRecords, backend) /\ TailInv(tailRecords', backend')
        BY DEF LedgerInv
      <4> QED BY <4>1, LinkInvParts
    <3>2. /\ tailRecords[x].parentEndorseVerified = tailRecords[x].recordEndorseVerified
          /\ tailRecords'[x].parentEndorseVerified = tailRecords'[x].recordEndorseVerified
      BY <3>1 DEF RecordInv
    <3> QED BY <2>4, <3>2
  <2>5. Kept => Final
    BY <2>4
  <2> HIDE DEF Kept, Final
  <2> SUFFICES Final
    BY DEF Final
  <2>6. ASSUME NEW r \in Record, CreateRecord(r) PROVE Final
    BY <2>3, <2>5, <2>6, CreateRecordAdds
  <2>7. CASE ScanAdd
    BY <2>3, <2>5, <2>7, ScanAddAdds
  <2>8. CASE Restart
    BY <2>1, <2>8 DEF Restart, Reopen
  <2> QED BY <2>2, <2>6, <2>7, <2>8 DEF Next, Scan, OnLedgerSyncRequest, SendReplySync,
             OnFetchedRecord, ScanExpire, ScanKeep, ScanEnd, LoseInterest, Tick, ledgerVars
<1> QED BY <1>1, LedgerInvariant, PTL DEF Spec, VerdictsAreFinal

\* What an addition confirms was verified before.
LEMMA ConfirmsVerified ==
  ASSUME LedgerInv, NEW r, Addable(r), NEW e \in BOOLEAN
  PROVE  ~ ReferenceNeedUpdate(r, e)
<1> DEFINE U == UpdatedNow(r, e)
           w == WeighedNow(r, e)
<1>1. TypeOK /\ LinkInv(tailRecords, backend)
  BY LinkInvParts DEF LedgerInv
<1>2. /\ \A x \in U : w[x].recordEndorseVerified
      /\ LinkInv(w, backend \cup Confirmed(w, U))
  BY <1>1, WeighedNowLink
<1>3. TableOK(w) /\ DOMAIN w = DOMAIN tailRecords \cup {r} /\ U \subseteq DOMAIN tailRecords
  BY <1>1, WeighedNowTable
<1>4. ReferenceNeedUpdate(r, e) <=> \E x \in Confirmed(w, U) : ~ w[x].parentEndorseVerified
  BY DEF ReferenceNeedUpdate, UpdatedNow, WeighedNow, InsertedNow
<1> HIDE DEF U, w
<1>5. \A x \in DOMAIN w : w[x].parentEndorseVerified = w[x].recordEndorseVerified
  BY <1>2, <1>3, LinkInvParts DEF RecordInv
<1>6. \A x \in Confirmed(w, U) : w[x].parentEndorseVerified
  BY <1>2, <1>3, <1>5 DEF Confirmed
<1> QED BY <1>4, <1>6

\* A rejected record is never confirmed, so the loop that would verify its
\* descendants (ledger-impl.cpp:620-641) is dead code: in every run, for every
\* record that may be added.
THEOREM ReferencesNeverNeedUpdate == Spec => []ReferencesNeedNoUpdate
<1>1. LedgerInv => ReferencesNeedNoUpdate
  <2> SUFFICES ASSUME LedgerInv, NEW r \in Record, NEW e \in BOOLEAN, MayAdd(r, e)
               PROVE  ~ ReferenceNeedUpdate(r, e)
    BY DEF ReferencesNeedNoUpdate
  <2>1. QueueInv
    BY DEF LedgerInv, QueueInv
  <2>2. CASE CanCreate(r)
    BY <2>1, <2>2, CanCreateAddable, ConfirmsVerified
  <2>3. CASE AtRecord /\ r = Current /\ Ready(tailRecords, backend, Current)
    BY <2>1, <2>3, StackedAddable, ConfirmsVerified
  <2> QED BY <2>2, <2>3 DEF MayAdd
<1> QED BY <1>1, LedgerInvariant, PTL

-----------------------------------------------------------------------------
(***************************************************************************)
(* The loop over the sync stack ends.                                      *)
(***************************************************************************)
\* It is at one of the records or past the last.
ScanPlace == ~ Idle => scan.at \in 1 .. Len(syncStack) + 1

\* What a step of the loop does to the stack and to the place in it.
LEMMA ScanSteps ==
  ASSUME TypeOK, ScanInv, ScanPlace, Scan
  PROVE  /\ ~ Idle
         /\ \/ /\ scan.at <= Len(syncStack) /\ Len(syncStack') = Len(syncStack) - 1
               /\ scan' = scan
            \/ /\ scan.at <= Len(syncStack) /\ Len(syncStack') = Len(syncStack)
               /\ scan'.at = scan.at + 1 /\ scan'.stackSize = scan.stackSize
            \/ /\ scan.at = Len(syncStack) + 1 /\ Len(syncStack') = Len(syncStack)
               /\ IF scan.stackSize # Len(syncStack)
                    THEN scan'.at = 1 /\ scan'.stackSize = Len(syncStack)
                    ELSE Idle'
<1>1. /\ Len(syncStack) \in Nat /\ DOMAIN syncStack = 1 .. Len(syncStack)
      /\ scan \in [at : Nat, stackSize : Nat] /\ scan.at \in Nat
  BY LenProperties DEF TypeOK
<1>2. AtRecord => ~ Idle /\ scan.at <= Len(syncStack)
  BY <1>1 DEF AtRecord, Idle
<1>3. CASE ScanAdd \/ ScanExpire
  <2>1. AtRecord /\ syncStack' = RemoveAt(syncStack, scan.at) /\ scan' = scan
    BY <1>3 DEF ScanAdd, ScanExpire
  <2>2. Len(syncStack') = Len(syncStack) - 1
    BY <1>1, <2>1, RemoveAtFacts DEF AtRecord, TypeOK
  <2> QED BY <1>2, <2>1, <2>2
<1>4. CASE ScanKeep
  <2>1. AtRecord /\ scan' = [scan EXCEPT !.at = scan.at + 1] /\ syncStack' = syncStack
    BY <1>4 DEF ScanKeep
  <2>2. scan'.at = scan.at + 1 /\ scan'.stackSize = scan.stackSize
    BY <1>1, <2>1
  <2> QED BY <1>2, <2>1, <2>2
<1>5. CASE ScanEnd
  <2>1. /\ ~ Idle /\ scan.at \notin DOMAIN syncStack /\ syncStack' = syncStack
        /\ scan' = IF scan.stackSize # Len(syncStack)
                     THEN [at |-> 1, stackSize |-> Len(syncStack)]
                     ELSE [at |-> 0, stackSize |-> 0]
    BY <1>5 DEF ScanEnd, AtRecord
  <2>2. scan.at = Len(syncStack) + 1
    BY <1>1, <2>1 DEF ScanPlace
  <2>3. CASE scan.stackSize # Len(syncStack)
    <3>1. scan'.at = 1 /\ scan'.stackSize = Len(syncStack)
      BY <2>1, <2>3
    <3> QED BY <2>1, <2>2, <2>3, <3>1
  <2>4. CASE scan.stackSize = Len(syncStack)
    BY <2>1, <2>2, <2>4 DEF Idle
  <2> QED BY <2>3, <2>4
<1> QED BY <1>3, <1>4, <1>5 DEF Scan

LEMMA StepPlace == LedgerInv /\ ScanInv /\ ScanPlace /\ [AnyNext]_vars => ScanPlace'
<1> SUFFICES ASSUME LedgerInv, ScanInv, ScanPlace, [AnyNext]_vars PROVE ScanPlace'
  OBVIOUS
<1>1. TypeOK /\ Len(syncStack) \in Nat /\ scan.at \in Nat
  BY LenProperties DEF LedgerInv, TypeOK
<1>2. CASE Scan
  BY <1>1, <1>2, ScanSteps DEF ScanPlace
<1>3. ASSUME NEW r \in pending, OnFetchedRecord(r) PROVE ScanPlace'
  <2>1. CASE UNCHANGED <<syncStack, scan>>
    BY <2>1 DEF ScanPlace, Idle
  <2>2. CASE StackRecord(r)
    <3>1. /\ syncStack' = Append(syncStack, [record |-> r, addedTime |-> now])
          /\ scan' = scan \/ scan'.at = 1
      BY <2>2 DEF StackRecord
    <3>2. Len(syncStack') = Len(syncStack) + 1
      <4>1. syncStack \in Seq(StackEntry) /\ [record |-> r, addedTime |-> now] \in StackEntry
        BY <1>1 DEF TypeOK, StackEntry
      <4> QED BY <3>1, <4>1, LenProperties
    <3> QED BY <1>1, <1>3, <3>1, <3>2 DEF ScanPlace, OnFetchedRecord, Idle
  <2> QED BY <1>3, <2>1, <2>2 DEF OnFetchedRecord, DropRecord
<1>4. CASE Restart
  BY <1>4 DEF Restart, Reopen, ScanPlace, Idle
<1>5. CASE UNCHANGED <<syncStack, scan>>
  BY <1>5 DEF ScanPlace, Idle
<1> QED BY <1>2, <1>3, <1>4, <1>5 DEF AnyNext, CreateRecord, OnLedgerSyncRequest, SendReplySync,
           LoseInterest, Tick, vars, ledgerVars, fetchVars

\* How many steps are left at the place at of a stack of n records, at most.
Left(n, at, size) == n * n + (IF size # n THEN n + 1 ELSE 0) + (n + 2 - at)

LEMMA LeftDecreases ==
  ASSUME NEW n \in Nat, NEW at \in 1 .. n + 1, NEW size
  PROVE  /\ Left(n, at, size) \in Nat /\ 0 < Left(n, at, size)
         /\ Left(n, at, size) < Left(n + 1, at, size)
         /\ at + 1 <= n + 1 => Left(n, at + 1, size) < Left(n, at, size)
         /\ size # n => Left(n, 1, n) < Left(n, n + 1, size)
<1>1. PICK k \in Nat : k = n * n
  OBVIOUS
<1>2. (n + 1) * (n + 1) = k + n + n + 1
  BY <1>1
<1>3. /\ Left(n, at, size) = k + (IF size # n THEN n + 1 ELSE 0) + (n + 2 - at)
      /\ Left(n, at + 1, size) = k + (IF size # n THEN n + 1 ELSE 0) + (n + 2 - (at + 1))
      /\ Left(n, 1, n) = k + 0 + (n + 2 - 1)
      /\ Left(n, n + 1, size) = k + (IF size # n THEN n + 1 ELSE 0) + (n + 2 - (n + 1))
  BY <1>1 DEF Left
<1>4. Left(n + 1, at, size)
        = (k + n + n + 1) + (IF size # n + 1 THEN (n + 1) + 1 ELSE 0) + ((n + 1) + 2 - at)
  BY <1>2 DEF Left
<1>5. Left(n, at, size) \in Nat /\ 0 < Left(n, at, size)
  BY <1>3
<1>6. Left(n, at, size) < Left(n + 1, at, size)
  <2>1. Left(n, at, size) <= k + (n + 1) + (n + 2 - at)
    BY <1>3
  <2>2. Left(n + 1, at, size) >= (k + n + n + 1) + ((n + 1) + 2 - at)
    BY <1>4
  <2>3. Left(n + 1, at, size) \in Nat
    BY <1>4
  <2> QED BY <1>5, <2>1, <2>2, <2>3
<1>7. at + 1 <= n + 1 => Left(n, at + 1, size) < Left(n, at, size)
  BY <1>3
<1>8. size # n => Left(n, 1, n) < Left(n, n + 1, size)
  BY <1>3
<1> QED BY <1>5, <1>6, <1>7, <1>8

\* Whatever the stack holds and whatever happens to the records on it, the
\* loop over it ends: the event loop is not held up for ever.
THEOREM ScanAlwaysTerminates == Spec => ScanTerminates
<1>1. LedgerInv /\ ScanInv /\ ScanPlace /\ [Next]_vars
        => [Scan => StepsLeft' \in Nat /\ StepsLeft \in Nat /\ StepsLeft' < StepsLeft]_vars
  <2> SUFFICES ASSUME LedgerInv, ScanInv, ScanPlace, Scan
               PROVE  StepsLeft' \in Nat /\ StepsLeft \in Nat /\ StepsLeft' < StepsLeft
    OBVIOUS
  <2>1. PICK n, m, at, size : /\ n = Len(syncStack) /\ m = Len(syncStack')
                              /\ at = scan.at /\ size = scan.stackSize
    OBVIOUS
  <2>2. TypeOK /\ n \in Nat
    BY <2>1, LenProperties DEF LedgerInv, TypeOK
  <2>3. /\ ~ Idle
        /\ \/ at <= n /\ m = n - 1 /\ scan' = scan
           \/ at <= n /\ m = n /\ scan'.at = at + 1 /\ scan'.stackSize = size
           \/ at = n + 1 /\ m = n /\ IF size # n THEN scan'.at = 1 /\ scan'.stackSize = n
                                                 ELSE Idle'
    BY <2>1, <2>2, ScanSteps
  <2>4. at \in 1 .. n + 1
    BY <2>1, <2>3 DEF ScanPlace
  <2>5. StepsLeft = Left(n, at, size)
    BY <2>1, <2>3 DEF StepsLeft, Left
  <2>6. StepsLeft' = IF Idle' THEN 0 ELSE Left(m, scan'.at, scan'.stackSize)
    BY <2>1 DEF StepsLeft, Left
  <2>7. Left(n, at, size) \in Nat /\ 0 < Left(n, at, size)
    BY <2>2, <2>4, LeftDecreases
  <2>8. CASE Idle'
    BY <2>5, <2>6, <2>7, <2>8
  <2>9. ASSUME ~ Idle' PROVE StepsLeft' \in Nat /\ StepsLeft' < Left(n, at, size)
    <3>1. CASE at <= n /\ m = n - 1 /\ scan' = scan
      <4>1. m \in Nat /\ at \in 1 .. m + 1 /\ n = m + 1
        BY <2>2, <2>4, <3>1
      <4>2. StepsLeft' = Left(m, at, size)
        BY <2>1, <2>6, <2>9, <3>1
      <4> QED BY <4>1, <4>2, LeftDecreases
    <3>2. CASE at <= n /\ m = n /\ scan'.at = at + 1 /\ scan'.stackSize = size
      <4>1. StepsLeft' = Left(n, at + 1, size)
        BY <2>6, <2>9, <3>2
      <4>2. at + 1 \in 1 .. n + 1 /\ at + 1 <= n + 1
        BY <2>2, <2>4, <3>2
      <4> QED BY <2>2, <2>4, <4>1, <4>2, LeftDecreases
    <3>3. CASE at = n + 1 /\ m = n /\ size # n /\ scan'.at = 1 /\ scan'.stackSize = n
      <4>1. StepsLeft' = Left(n, 1, n)
        BY <2>6, <2>9, <3>3
      <4>2. 1 \in 1 .. n + 1
        BY <2>2
      <4> QED BY <2>2, <2>4, <3>3, <4>1, <4>2, LeftDecreases
    <3> QED BY <2>3, <2>9, <3>1, <3>2, <3>3
  <2> QED BY <2>5, <2>7, <2>8, <2>9
<1>2. Init => ScanPlace
  BY DEF Init, ScanPlace, Idle
<1>3. LedgerInv /\ ScanInv /\ ScanPlace /\ [Next]_vars => ScanPlace'
  BY StepPlace, NextIsAny
<1> QED BY <1>1, <1>2, <1>3, InitScan, StepScan, NextIsAny, LedgerInvariant, PTL
        DEF Spec, ScanTerminates
=============================================================================
