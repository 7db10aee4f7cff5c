------------------------ MODULE RecordBuildingProofs ------------------------
(***************************************************************************)
(* How often a Record object is published and who takes it, for any number *)
(* of attempts and whatever the ledger looks like at each of them.         *)
(***************************************************************************)
EXTENDS RecordBuilding, FiniteSetTheorems, SequenceTheorems, TLAPS

(***************************************************************************)
(* The inductive invariant.  An object that is not built yet has no        *)
(* pointers until signing has failed, and at least precedingRecordNum from *)
(* then on.                                                                *)
(***************************************************************************)
Unbuilt ==
  /\ published = {}
  /\ failedToSign = 0 => record.pointers = <<>>
  /\ failedToSign # 0 => Len(record.pointers) >= precedingRecordNum

Built ==
  \E p : /\ published = {p}
         /\ CheckPointerCount(p.packet) <=> failedToSign = 0

BuildInv ==
  /\ record.pointers \in Seq(TailRecord)
  /\ DOMAIN record = {"type", "pointers", "items"}
  /\ failedToSign \in Nat
  /\ built \in BOOLEAN
  /\ appendable \in SUBSET TailRecord
  /\ ~ built => Unbuilt
  /\ built => Built

LEMMA InitInv == Init => BuildInv
<1> SUFFICES ASSUME Init PROVE BuildInv
  OBVIOUS
<1>1. PICK type \in {"GENERIC_RECORD", "CERTIFICATE_RECORD"}, c \in Content :
        record = [type |-> type, pointers |-> <<>>, items |-> <<c>>]
  BY DEF Init
<1>2. record.pointers = <<>> /\ DOMAIN record = {"type", "pointers", "items"}
  BY <1>1
<1>3. record.pointers \in Seq(TailRecord)
  BY <1>2, EmptySeq
<1> QED BY <1>2, <1>3 DEF Init, BuildInv, Unbuilt

\* KeyLocators are items; the pointers stay.
LEMMA PrevCertificatesKeepPointers ==
  ASSUME BuildInv
  PROVE  /\ WithPrevCertificates(record).pointers = record.pointers
         /\ DOMAIN WithPrevCertificates(record) = {"type", "pointers", "items"}
  BY DEF WithPrevCertificates, BuildInv

\* A choice from the shuffled candidates is a sequence of different names.
LEMMA ShuffledFacts ==
  ASSUME NEW k \in Nat, appendable \in SUBSET TailRecord, NEW s \in Shuffled(k)
  PROVE  /\ s \in Seq(TailRecord)
         /\ Len(s) = k
         /\ Cardinality(Range(s)) = k
<1>1. /\ s \in [1 .. k -> TailRecord]
      /\ \A i, j \in 1 .. k : s[i] = s[j] => i = j
  BY DEF Shuffled
<1>2. s \in Seq(TailRecord) /\ Len(s) = k
  BY <1>1
<1>3. DOMAIN s = 1 .. k
  BY <1>1
<1>4. s \in Bijection(1 .. k, Range(s))
  BY <1>1, <1>3 DEF Bijection, Injection, Surjection, IsInjective, Range
<1>5. IsFiniteSet(1 .. k) /\ Cardinality(1 .. k) = k
  <2>1. 1 \in Int /\ k \in Int
    OBVIOUS
  <2>2. IsFiniteSet(1 .. k) /\ Cardinality(1 .. k) = IF 1 > k THEN 0 ELSE k - 1 + 1
    BY <2>1, FS_Interval
  <2> QED BY <2>2
<1>6. ExistsBijection(1 .. k, Range(s))
  BY <1>4, Zenon DEF ExistsBijection
<1>7. Cardinality(Range(s)) = Cardinality(1 .. k)
  BY <1>5, <1>6, FS_Bijection, Zenon
<1> QED BY <1>2, <1>5, <1>7

\* Linking an object for the first time gives it the right number of different
\* pointers, linking it again gives it too many.
LEMMA LinkPointers ==
  ASSUME BuildInv, Link
  PROVE  /\ ~ built /\ Unbuilt
         /\ record'.pointers \in Seq(TailRecord)
         /\ DOMAIN record' = {"type", "pointers", "items"}
         /\ Len(record'.pointers) >= precedingRecordNum
         /\ CheckPointerCount(record') <=> failedToSign = 0
<1>1. ~ built /\ Unbuilt
  BY DEF Link, MayModify, BuildInv
<1>2. PICK s \in Shuffled(PointersToAdd(record)) :
        record' = WithPointers(WithPrevCertificates(record), s)
  BY DEF Link
<1>3. /\ record'.pointers = record.pointers \o s
      /\ DOMAIN record' = {"type", "pointers", "items"}
  BY <1>2, PrevCertificatesKeepPointers DEF WithPointers
<1>4. /\ record.pointers \in Seq(TailRecord) /\ Len(record.pointers) \in Nat
      /\ precedingRecordNum \in Nat \ {0}
  BY LenProperties, BuildingAssumption DEF BuildInv
<1>5. PointersToAdd(record) \in Nat
  BY <1>4 DEF PointersToAdd
<1>6. /\ s \in Seq(TailRecord) /\ Len(s) = PointersToAdd(record)
      /\ Cardinality(Range(s)) = PointersToAdd(record)
  BY <1>5, ShuffledFacts DEF BuildInv
<1>7. /\ record'.pointers \in Seq(TailRecord)
      /\ Len(record'.pointers) = Len(record.pointers) + PointersToAdd(record)
  <2>1. /\ record.pointers \o s \in Seq(TailRecord)
        /\ Len(record.pointers \o s) = Len(record.pointers) + Len(s)
    BY <1>4, <1>6, ConcatProperties
  <2> QED BY <1>3, <1>6, <2>1
<1>8. CASE failedToSign = 0
  <2>1. record.pointers = <<>>
    BY <1>1, <1>8 DEF Unbuilt
  <2>2. PointersToAdd(record) = precedingRecordNum
    BY <1>4, <2>1 DEF PointersToAdd
  <2>3. record'.pointers = s
    BY <1>3, <1>6, <2>1, ConcatEmptySeq
  <2>4. Cardinality(Range(record'.pointers)) = precedingRecordNum
    BY <1>6, <2>2, <2>3
  <2>5. CheckPointerCount(record')
    BY <1>6, <2>2, <2>3, <2>4 DEF CheckPointerCount
  <2> QED BY <1>1, <1>3, <1>4, <1>6, <1>7, <1>8, <2>2, <2>3, <2>5
<1>9. CASE failedToSign # 0
  <2>1. Len(record.pointers) >= precedingRecordNum
    BY <1>1, <1>9 DEF Unbuilt
  <2>2. PointersToAdd(record) = 1
    BY <1>4, <2>1 DEF PointersToAdd
  <2>3. Len(record'.pointers) > precedingRecordNum
    BY <1>4, <1>7, <2>1, <2>2
  <2> QED BY <1>1, <1>3, <1>4, <1>7, <1>9, <2>3 DEF CheckPointerCount
<1> QED BY <1>8, <1>9

LEMMA StepInv == BuildInv /\ [Next]_vars => BuildInv'
<1> SUFFICES ASSUME BuildInv, [Next]_vars PROVE BuildInv'
  OBVIOUS
<1>1. CASE UNCHANGED <<record, built, failedToSign, published>> /\ appendable' \in SUBSET TailRecord
  BY <1>1 DEF BuildInv, Unbuilt, Built, CheckPointerCount
<1>2. CASE RefuseForTail
  <2>1. /\ record' = WithPrevCertificates(record)
        /\ UNCHANGED <<built, raised, failedToSign, published, appendable>>
    BY <1>2 DEF RefuseForTail, Attempt
  <2>2. record'.pointers = record.pointers /\ DOMAIN record' = {"type", "pointers", "items"}
    BY <2>1, PrevCertificatesKeepPointers
  <2> QED BY <2>1, <2>2 DEF BuildInv, Unbuilt, Built, CheckPointerCount
<1>3. CASE Link
  <2>1. /\ ~ built /\ Unbuilt
        /\ record'.pointers \in Seq(TailRecord)
        /\ DOMAIN record' = {"type", "pointers", "items"}
        /\ Len(record'.pointers) >= precedingRecordNum
        /\ CheckPointerCount(record') <=> failedToSign = 0
    BY <1>3, LinkPointers
  <2>2. appendable' = appendable
    BY <1>3 DEF Link, Attempt
  <2>3. CASE failedToSign' = failedToSign + 1 /\ UNCHANGED <<built, published>>
    BY <2>1, <2>2, <2>3 DEF BuildInv, Unbuilt
  <2>4. CASE /\ built' = TRUE /\ failedToSign' = failedToSign
             /\ published' = published \cup {[packet |-> record', heads |-> lastCertRecords]}
    <3>1. published' = {[packet |-> record', heads |-> lastCertRecords]}
      BY <2>1, <2>4 DEF Unbuilt
    <3>2. CheckPointerCount([packet |-> record', heads |-> lastCertRecords].packet)
            <=> failedToSign' = 0
      BY <2>1, <2>4
    <3>3. Built'
      BY <3>1, <3>2 DEF Built, CheckPointerCount
    <3> QED BY <2>1, <2>2, <2>4, <3>3 DEF BuildInv
  <2> QED BY <1>3, <2>3, <2>4 DEF Link
<1>4. CASE LedgerMoves
  BY <1>1, <1>4 DEF LedgerMoves
<1>5. CASE RefuseAtOnce \/ Raise \/ UNCHANGED vars
  <2>1. UNCHANGED <<record, built, failedToSign, published, appendable>>
    BY <1>5 DEF RefuseAtOnce, Raise, Attempt, vars
  <2> QED BY <1>1, <2>1 DEF BuildInv
<1> QED BY <1>2, <1>3, <1>4, <1>5 DEF Next

THEOREM BuildInvariant == Spec => []BuildInv
  BY InitInv, StepInv, PTL DEF Spec

\* One Record object becomes one record of the ledger at most, however often
\* createRecord is called with it.
THEOREM PublishedOnceAlways == Spec => []PublishedOnce
<1>1. BuildInv => PublishedOnce
  <2> SUFFICES ASSUME BuildInv PROVE PublishedOnce
    OBVIOUS
  <2>1. CASE built
    <3>1. PICK p : published = {p}
      BY <2>1 DEF BuildInv, Built
    <3>2. Cardinality(published) = 1
      BY <3>1, FS_Singleton
    <3> QED BY <3>2 DEF PublishedOnce
  <2>2. CASE ~ built
    <3>1. Cardinality(published) = 0
      BY <2>2, FS_EmptySet DEF BuildInv, Unbuilt
    <3> QED BY <3>1 DEF PublishedOnce
  <2> QED BY <2>1, <2>2
<1> QED BY <1>1, BuildInvariant, PTL

\* The other peers take it just when signing did not fail before.
THEOREM TakenIfSignedAtOnceAlways == Spec => []TakenIfSignedAtOnce
<1>1. BuildInv => TakenIfSignedAtOnce
  BY DEF BuildInv, Unbuilt, Built, TakenIfSignedAtOnce
<1> QED BY <1>1, BuildInvariant, PTL

-----------------------------------------------------------------------------
(***************************************************************************)
(* The items of the object, and how many pointers it can come to have.     *)
(***************************************************************************)
\* The community module's enumeration of a finite set has every member.
LEMMA SetToSeqFacts ==
  ASSUME NEW S, IsFiniteSet(S)
  PROVE  SetToSeq(S) \in Seq(S) /\ Range(SetToSeq(S)) = S
<1> DEFINE n == Cardinality(S)
<1>1. n \in Nat /\ ExistsBijection(1 .. n, S)
  BY FS_CardinalityType
<1>2. PICK g : g \in Bijection(1 .. n, S)
  BY <1>1, Zenon DEF ExistsBijection
<1>3. g \in [1 .. n -> S] /\ IsInjective(g)
  BY <1>2 DEF Bijection, Injection
<1>4. SetToSeq(S) \in [1 .. n -> S] /\ IsInjective(SetToSeq(S))
  BY <1>3, Zenon DEF SetToSeq
<1> DEFINE f == SetToSeq(S)
<1> HIDE DEF f
<1>5. f \in Injection(1 .. n, S)
  BY <1>4 DEF Injection, f
<1>6. Cardinality(1 .. n) = n
  <2>1. 1 \in Int /\ n \in Int
    BY <1>1
  <2> HIDE DEF n
  <2>2. Cardinality(1 .. n) = IF 1 > n THEN 0 ELSE n - 1 + 1
    BY <2>1, FS_Interval
  <2> QED BY <1>1, <2>2
<1>7. f \in Surjection(1 .. n, S)
  BY <1>5, <1>6, FS_Injection
<1>8. f \in [1 .. n -> S] /\ \A t \in S : \E i \in 1 .. n : f[i] = t
  BY <1>7 DEF Surjection
<1> HIDE DEF n
<1>9. DOMAIN f = 1 .. n /\ f \in Seq(S)
  BY <1>1, <1>8
<1>10. Range(f) = S
  BY <1>8, <1>9 DEF Range
<1> QED BY <1>9, <1>10 DEF f

\* The application's item comes first, the KeyLocators after it.
Packet(rec) ==
  /\ rec \in RecordObject
  /\ 1 \in DOMAIN rec.items /\ rec.items[1] \in Content
  /\ \A i \in DOMAIN rec.items : i # 1 => rec.items[i] \in CertRecord

PacketInv ==
  /\ Packet(record)
  /\ \A p \in published :
       /\ Packet(p.packet)
       /\ p.packet.type = "CERTIFICATE_RECORD" =>
            p.heads \subseteq PrevCertificates(p.packet)

AttemptsInv ==
  /\ attempts \in 0 .. MaxAttempts /\ failedToSign \in 0 .. attempts
  /\ raised \in BOOLEAN
  /\ lastCertRecords \in SUBSET CertRecord
  /\ Len(record.pointers) <= precedingRecordNum + failedToSign
  /\ ~ built /\ failedToSign # 0 =>
       Len(record.pointers) < precedingRecordNum + failedToSign

ObjectInv == BuildInv /\ PacketInv /\ AttemptsInv

LEMMA InitObject == Init => ObjectInv
<1> SUFFICES ASSUME Init PROVE ObjectInv
  OBVIOUS
<1>1. PICK type \in {"GENERIC_RECORD", "CERTIFICATE_RECORD"}, c \in Content :
        record = [type |-> type, pointers |-> <<>>, items |-> <<c>>]
  BY DEF Init
<1>2. <<c>> \in Seq(CertRecord \cup Content) /\ DOMAIN <<c>> = {1} /\ <<c>>[1] = c
  BY <1>1
<1>3. <<>> \in Seq(TailRecord)
  BY EmptySeq
<1>4. record \in RecordObject
  BY <1>1, <1>2, <1>3 DEF RecordObject
<1>5. Packet(record)
  BY <1>1, <1>2, <1>4 DEF Packet
<1>6. PacketInv
  BY <1>5 DEF PacketInv, Init
<1>7. Len(record.pointers) = 0
  BY <1>1
<1>8. AttemptsInv
  <2>1. /\ attempts = 0 /\ failedToSign = 0 /\ raised = FALSE
        /\ lastCertRecords \in SUBSET CertRecord
    BY DEF Init
  <2>2. precedingRecordNum \in Nat \ {0} /\ MaxAttempts \in Nat
    BY BuildingAssumption
  <2>3. /\ Len(record.pointers) <= precedingRecordNum + failedToSign
        /\ attempts \in 0 .. MaxAttempts /\ failedToSign \in 0 .. attempts
    BY <1>7, <2>1, <2>2
  <2> QED BY <2>1, <2>3, Zenon DEF AttemptsInv
<1> QED BY <1>6, <1>8, InitInv DEF ObjectInv

\* The certificates of a packet are what the application put in.
LEMMA OneCertificate ==
  ASSUME NEW packet, Packet(packet)
  PROVE  Certificates(packet) = {1}
<1>1. CertRecord \cap Content = {}
  BY BuildingAssumption
<1> QED BY <1>1 DEF Packet, Certificates

\* The first step of createRecord adds KeyLocators only, one for each head.
LEMMA PrevCertificatesLink ==
  ASSUME NEW rec, Packet(rec), lastCertRecords \in SUBSET CertRecord
  PROVE  /\ Packet(WithPrevCertificates(rec))
         /\ WithPrevCertificates(rec).pointers = rec.pointers
         /\ WithPrevCertificates(rec).type = rec.type
         /\ rec.type = "CERTIFICATE_RECORD" =>
              lastCertRecords \subseteq PrevCertificates(WithPrevCertificates(rec))
<1> DEFINE out == WithPrevCertificates(rec)
           s == SetToSeq(lastCertRecords)
<1>1. CASE rec.type # "CERTIFICATE_RECORD"
  BY <1>1 DEF WithPrevCertificates
<1>2. CASE rec.type = "CERTIFICATE_RECORD"
  <2>1. rec \in RecordObject
    BY DEF Packet
  <2>2. out = [rec EXCEPT !.items = @ \o s]
    BY <1>2 DEF WithPrevCertificates
  <2>3. IsFiniteSet(lastCertRecords)
    BY BuildingAssumption, FS_Subset
  <2>4. s \in Seq(lastCertRecords) /\ Range(s) = lastCertRecords
    BY <2>3, SetToSeqFacts
  <2> HIDE DEF s, out
  <2>5. s \in Seq(CertRecord \cup Content) /\ \A i \in 1 .. Len(s) : s[i] \in lastCertRecords
    <3>1. Len(s) \in Nat /\ s \in [1 .. Len(s) -> lastCertRecords]
      BY <2>4, LenProperties
    <3>2. s \in [1 .. Len(s) -> CertRecord \cup Content]
      BY <3>1
    <3> QED BY <3>1, <3>2
  <2>6. rec.items \in Seq(CertRecord \cup Content)
    BY <2>1 DEF RecordObject
  <2> DEFINE items == rec.items \o s
  <2>7. /\ items \in Seq(CertRecord \cup Content)
        /\ Len(items) = Len(rec.items) + Len(s)
        /\ \A i \in 1 .. Len(rec.items) + Len(s) :
             items[i] = IF i <= Len(rec.items) THEN rec.items[i] ELSE s[i - Len(rec.items)]
    BY <2>5, <2>6, ConcatProperties
  <2>8. /\ Len(rec.items) \in Nat /\ Len(s) \in Nat
        /\ DOMAIN rec.items = 1 .. Len(rec.items) /\ DOMAIN s = 1 .. Len(s)
        /\ DOMAIN items = 1 .. Len(rec.items) + Len(s)
    BY <2>5, <2>6, <2>7, LenProperties
  <2>9. /\ out \in RecordObject
        /\ out.items = items /\ out.pointers = rec.pointers /\ out.type = rec.type
    BY <2>1, <2>2, <2>7 DEF RecordObject
  <2> HIDE DEF items
  <2>10. 1 \in DOMAIN items /\ items[1] \in Content
    BY <2>7, <2>8 DEF Packet
  <2>11. ASSUME NEW i \in DOMAIN items, i # 1 PROVE items[i] \in CertRecord
    <3>1. CASE i <= Len(rec.items)
      BY <2>7, <2>8, <2>11, <3>1 DEF Packet
    <3>2. CASE i > Len(rec.items)
      <4>1. i - Len(rec.items) \in 1 .. Len(s) /\ items[i] = s[i - Len(rec.items)]
        BY <2>7, <2>8, <3>2
      <4> QED BY <2>5, <4>1
    <3> QED BY <2>8, <3>1, <3>2
  <2>12. ASSUME NEW h \in lastCertRecords PROVE h \in PrevCertificates(out)
    <3>1. PICK j \in 1 .. Len(s) : s[j] = h
      BY <2>4, <2>8 DEF Range
    <3>2. /\ Len(rec.items) + j \in DOMAIN items
          /\ items[Len(rec.items) + j] = s[j]
      BY <2>7, <2>8
    <3>3. h \in Range(items)
      BY <3>1, <3>2 DEF Range
    <3> QED BY <2>9, <3>3 DEF PrevCertificates
  <2> QED BY <2>9, <2>10, <2>11, <2>12 DEF Packet, out
<1> QED BY <1>1, <1>2

\* The second adds pointers only.
LEMMA PointersKeepItems ==
  ASSUME NEW rec, Packet(rec), NEW s \in Seq(TailRecord)
  PROVE  /\ Packet(WithPointers(rec, s))
         /\ WithPointers(rec, s).items = rec.items
         /\ WithPointers(rec, s).type = rec.type
         /\ WithPointers(rec, s).pointers = rec.pointers \o s
<1>1. rec \in RecordObject
  BY DEF Packet
<1>2. rec.pointers \o s \in Seq(TailRecord)
  BY <1>1, ConcatProperties DEF RecordObject
<1> DEFINE pointers == rec.pointers \o s
<1> HIDE DEF pointers
<1>3. WithPointers(rec, s) = [rec EXCEPT !.pointers = pointers]
  BY <1>1 DEF WithPointers, pointers, RecordObject
<1>4. /\ WithPointers(rec, s) \in RecordObject
      /\ WithPointers(rec, s).items = rec.items
      /\ WithPointers(rec, s).type = rec.type
      /\ WithPointers(rec, s).pointers = pointers
  BY <1>1, <1>2, <1>3 DEF RecordObject, pointers
<1> QED BY <1>4 DEF Packet, pointers

\* What a linked object has: every head, and at most one pointer more than it
\* had if it had the right number already.
LEMMA LinkObject ==
  ASSUME ObjectInv, Link
  PROVE  /\ ~ built /\ Packet(record')
         /\ record'.type = "CERTIFICATE_RECORD" =>
              lastCertRecords \subseteq PrevCertificates(record')
         /\ Len(record'.pointers) <= precedingRecordNum + failedToSign
<1>1. /\ ~ built /\ Unbuilt
  BY LinkPointers DEF ObjectInv
<1>2. PICK s \in Shuffled(PointersToAdd(record)) :
        record' = WithPointers(WithPrevCertificates(record), s)
  BY DEF Link
<1> DEFINE mid == WithPrevCertificates(record)
<1>3. /\ Packet(mid) /\ mid.pointers = record.pointers /\ mid.type = record.type
      /\ record.type = "CERTIFICATE_RECORD" => lastCertRecords \subseteq PrevCertificates(mid)
  BY PrevCertificatesLink DEF ObjectInv, PacketInv, AttemptsInv
<1>4. /\ record.pointers \in Seq(TailRecord) /\ Len(record.pointers) \in Nat
      /\ precedingRecordNum \in Nat \ {0} /\ failedToSign \in Nat
  BY LenProperties, BuildingAssumption DEF ObjectInv, BuildInv
<1>5. PointersToAdd(record) \in Nat
  BY <1>4 DEF PointersToAdd
<1>6. s \in Seq(TailRecord) /\ Len(s) = PointersToAdd(record)
  BY <1>5, ShuffledFacts DEF ObjectInv, BuildInv
<1> HIDE DEF mid
<1>7. /\ Packet(record') /\ record'.items = mid.items /\ record'.type = mid.type
      /\ record'.pointers = mid.pointers \o s
  BY <1>2, <1>3, <1>6, PointersKeepItems DEF mid
<1>8. Len(record'.pointers) = Len(record.pointers) + PointersToAdd(record)
  <2>1. Len(record.pointers \o s) = Len(record.pointers) + Len(s)
    BY <1>4, <1>6, ConcatProperties
  <2> QED BY <1>3, <1>6, <1>7, <2>1
<1>9. Len(record'.pointers) <= precedingRecordNum + failedToSign
  <2>1. CASE failedToSign = 0
    <3>1. record.pointers = <<>>
      BY <1>1, <2>1 DEF Unbuilt
    <3>2. Len(record.pointers) = 0
      BY <3>1
    <3>3. PointersToAdd(record) = precedingRecordNum
      BY <1>4, <3>2 DEF PointersToAdd
    <3> QED BY <1>4, <1>8, <2>1, <3>2, <3>3
  <2>2. CASE failedToSign # 0
    <3>1. /\ Len(record.pointers) >= precedingRecordNum
          /\ Len(record.pointers) < precedingRecordNum + failedToSign
      BY <1>1, <2>2 DEF Unbuilt, ObjectInv, AttemptsInv
    <3>2. PointersToAdd(record) = 1
      BY <1>4, <3>1 DEF PointersToAdd
    <3> QED BY <1>4, <1>8, <3>1, <3>2
  <2> QED BY <2>1, <2>2
<1>10. record'.type = "CERTIFICATE_RECORD" => lastCertRecords \subseteq PrevCertificates(record')
  BY <1>3, <1>7 DEF PrevCertificates
<1> QED BY <1>1, <1>7, <1>9, <1>10

LEMMA StepObject == ObjectInv /\ [Next]_vars => ObjectInv'
<1> SUFFICES ASSUME ObjectInv, [Next]_vars PROVE PacketInv' /\ AttemptsInv'
  BY StepInv DEF ObjectInv
<1>1. /\ precedingRecordNum \in Nat \ {0} /\ MaxAttempts \in Nat
      /\ attempts \in 0 .. MaxAttempts /\ failedToSign \in 0 .. attempts
      /\ failedToSign \in Nat
      /\ record.pointers \in Seq(TailRecord) /\ Len(record.pointers) \in Nat
  BY BuildingAssumption, LenProperties DEF ObjectInv, BuildInv, AttemptsInv
<1>2. ASSUME UNCHANGED <<record, published>> PROVE PacketInv'
  BY <1>2 DEF ObjectInv, PacketInv, Packet, PrevCertificates
<1>3. ASSUME Attempt
      PROVE  /\ attempts' \in 0 .. MaxAttempts
             /\ failedToSign' \in {failedToSign, failedToSign + 1} => failedToSign' \in 0 .. attempts'
             /\ lastCertRecords' \in SUBSET CertRecord
  BY <1>1, <1>3 DEF Attempt, ObjectInv, AttemptsInv
<1>4. CASE RefuseAtOnce \/ Raise
  <2>1. /\ Attempt /\ UNCHANGED <<record, built, failedToSign, published>>
        /\ raised' \in BOOLEAN
    BY <1>4 DEF RefuseAtOnce, Raise, ObjectInv, AttemptsInv
  <2>2. AttemptsInv'
    BY <1>1, <1>3, <2>1 DEF ObjectInv, AttemptsInv
  <2> QED BY <1>2, <2>1, <2>2
<1>5. CASE RefuseForTail
  <2>1. /\ Attempt /\ UNCHANGED <<built, raised, failedToSign, published>>
        /\ record' = WithPrevCertificates(record)
    BY <1>5 DEF RefuseForTail
  <2>2. Packet(record') /\ record'.pointers = record.pointers
    BY <2>1, PrevCertificatesLink DEF ObjectInv, PacketInv, AttemptsInv
  <2>3. PacketInv'
    BY <2>1, <2>2 DEF ObjectInv, PacketInv, Packet, PrevCertificates
  <2>4. AttemptsInv'
    BY <1>1, <1>3, <2>1, <2>2 DEF ObjectInv, AttemptsInv
  <2> QED BY <2>3, <2>4
<1>6. CASE Link
  <2>1. /\ ~ built /\ Packet(record')
        /\ record'.type = "CERTIFICATE_RECORD" => lastCertRecords \subseteq PrevCertificates(record')
        /\ Len(record'.pointers) <= precedingRecordNum + failedToSign
    BY <1>6, LinkObject
  <2>2. Attempt /\ raised' = raised
    BY <1>6 DEF Link
  <2>3. Len(record'.pointers) \in Nat
    <3>1. record'.pointers \in Seq(TailRecord)
      BY <2>1 DEF Packet, RecordObject
    <3> QED BY <3>1, LenProperties
  <2>4. CASE failedToSign' = failedToSign + 1 /\ UNCHANGED <<built, published>>
    <3>1. AttemptsInv'
      BY <1>1, <1>3, <2>1, <2>2, <2>3, <2>4 DEF ObjectInv, AttemptsInv
    <3>2. PacketInv'
      BY <2>1, <2>4 DEF ObjectInv, PacketInv, Packet, PrevCertificates
    <3> QED BY <3>1, <3>2
  <2>5. CASE /\ built' = TRUE /\ failedToSign' = failedToSign
             /\ published' = published \cup {[packet |-> record', heads |-> lastCertRecords]}
    <3>1. AttemptsInv'
      BY <1>1, <1>3, <2>1, <2>2, <2>3, <2>5 DEF ObjectInv, AttemptsInv
    <3>2. PacketInv'
      <4>1. Packet(record)'
        BY <2>1 DEF Packet
      <4>2. ASSUME NEW p \in published'
            PROVE  /\ Packet(p.packet)
                   /\ p.packet.type = "CERTIFICATE_RECORD" =>
                        p.heads \subseteq PrevCertificates(p.packet)
        <5>1. CASE p \in published
          BY <5>1 DEF ObjectInv, PacketInv
        <5>2. CASE p.packet = record' /\ p.heads = lastCertRecords
          BY <2>1, <5>2
        <5> QED BY <2>5, <5>1, <5>2
      <4> QED BY <4>1, <4>2 DEF PacketInv, Packet, PrevCertificates
    <3> QED BY <3>1, <3>2
  <2> QED BY <1>6, <2>4, <2>5 DEF Link
<1>7. CASE LedgerMoves
  <2>1. /\ UNCHANGED <<record, built, raised, attempts, failedToSign, published>>
        /\ lastCertRecords' \in SUBSET CertRecord
    BY <1>7 DEF LedgerMoves
  <2> QED BY <1>2, <2>1 DEF ObjectInv, AttemptsInv
<1>8. CASE UNCHANGED vars
  BY <1>2, <1>8 DEF vars, ObjectInv, AttemptsInv
<1> QED BY <1>4, <1>5, <1>6, <1>7, <1>8 DEF Next

THEOREM ObjectInvariant == Spec => []ObjectInv
  BY InitObject, StepObject, PTL DEF Spec

\* The object is built when a packet of it is in the ledger, and every attempt
\* that could not be signed left at most one pointer too many in it.
THEOREM BuildTypeCorrect == Spec => []BuildTypeOK
<1>1. ObjectInv => BuildTypeOK
  <2> SUFFICES ASSUME ObjectInv PROVE BuildTypeOK
    OBVIOUS
  <2>1. built <=> published # {}
    BY DEF ObjectInv, BuildInv, Unbuilt, Built
  <2>2. failedToSign \in 0 .. MaxAttempts
    BY BuildingAssumption DEF ObjectInv, AttemptsInv
  <2> QED BY <2>1, <2>2 DEF ObjectInv, BuildInv, PacketInv, AttemptsInv, Packet, BuildTypeOK
<1> QED BY <1>1, ObjectInvariant, PTL

\* A certificate record links to every head of the chains, however many
\* attempts it took, and has the application's certificates and no other.
THEOREM LinksAllHeadsAlways == Spec => []LinksAllHeads
<1>1. ObjectInv => LinksAllHeads
  <2> SUFFICES ASSUME ObjectInv, NEW p \in published, p.packet.type = "CERTIFICATE_RECORD"
               PROVE  /\ p.heads \subseteq PrevCertificates(p.packet)
                      /\ Cardinality(Certificates(p.packet)) = 1
    BY DEF LinksAllHeads
  <2>1. Packet(p.packet) /\ p.heads \subseteq PrevCertificates(p.packet)
    BY DEF ObjectInv, PacketInv
  <2>2. Certificates(p.packet) = {1}
    BY <2>1, OneCertificate
  <2>3. Cardinality({1}) = 1
    BY FS_Singleton
  <2> QED BY <2>1, <2>2, <2>3
<1> QED BY <1>1, ObjectInvariant, PTL
=============================================================================
