--------------------------- MODULE RecordBuilding ---------------------------
(***************************************************************************)
(* One Record object of an application, from its construction until it is  *)
(* in the ledger (src/src/record.cpp, LedgerImpl::createRecord).  The      *)
(* application passes it to createRecord by reference and may do so again  *)
(* when it was told of a failure, as dfi-ledger.cpp:100 does; createRecord *)
(* writes to the object before it can fail.  What the ledger would link it *)
(* to and whether the peer can sign change between two attempts.           *)
(***************************************************************************)
EXTENDS Integers, Sequences, SequencesExt, FiniteSets

CONSTANTS
  TailRecord,           \* names of records that may be tailing
  CertRecord,           \* names of certificate records that may be confirmed
  Content,              \* content items: certificates, or an application's data
  precedingRecordNum,
  MaxAttempts           \* bound: calls of createRecord

ASSUME BuildingAssumption ==
  /\ IsFiniteSet(TailRecord) /\ IsFiniteSet(CertRecord)
  /\ CertRecord \cap Content = {}
  /\ precedingRecordNum \in Nat \ {0}
  /\ MaxAttempts \in Nat

VARIABLES
  record,            \* the object; its items are KeyLocators, given as the names
                     \* they locate, and content
  built,             \* m_data is set
  raised,            \* an exception left createRecord
  appendable,        \* verified tailing records light enough, of other peers
  lastCertRecords,   \* m_lastCertRecords
  attempts,          \* bounded count
  failedToSign,      \* history: attempts at which the record was not signed
  published          \* history: packets added to the ledger, and the heads then

vars == <<record, built, raised, appendable, lastCertRecords, attempts, failedToSign, published>>

RecordObject == [type : {"GENERIC_RECORD", "CERTIFICATE_RECORD"},
                 pointers : Seq(TailRecord), items : Seq(CertRecord \cup Content)]

Init ==
  /\ \E type \in {"GENERIC_RECORD", "CERTIFICATE_RECORD"}, c \in Content :
       record = [type |-> type, pointers |-> <<>>, items |-> <<c>>]
  /\ built = FALSE /\ raised = FALSE
  /\ appendable \in SUBSET TailRecord
  /\ lastCertRecords \in SUBSET CertRecord
  /\ attempts = 0 /\ failedToSign = 0
  /\ published = {}

(***************************************************************************)
(* createRecord, step by step: what each one does to the object is a       *)
(* function of it.                                                         *)
(***************************************************************************)
\* Mutant of WithPrevCertificates: a retry does not add KeyLocators again.
WithFirstPrevCertificates(rec) ==
  IF rec.type # "CERTIFICATE_RECORD" \/ Range(rec.items) \cap CertRecord # {} THEN rec
  ELSE [rec EXCEPT !.items = @ \o SetToSeq(lastCertRecords)]

\* A certificate record gets a KeyLocator for each head of the certificate
\* chains.
WithPrevCertificates(rec) ==
  IF rec.type # "CERTIFICATE_RECORD" THEN rec
  ELSE [rec EXCEPT !.items = @ \o SetToSeq(lastCertRecords)]

\* Mutant of PointersToAdd: the test comes before the first pointer is added.
PointersMissing(rec) ==
  IF Len(rec.pointers) >= precedingRecordNum THEN 0
  ELSE precedingRecordNum - Len(rec.pointers)

\* Mutant of PointersToAdd: every attempt adds all pointers.
PointersAfresh(rec) == precedingRecordNum

\* The loop over the shuffled candidates adds one before it compares.
PointersToAdd(rec) ==
  IF Len(rec.pointers) >= precedingRecordNum THEN 1
  ELSE precedingRecordNum - Len(rec.pointers)

WithPointers(rec, s) == [rec EXCEPT !.pointers = @ \o s]

Shuffled(k) == {s \in [1 .. k -> appendable] : \A i, j \in 1 .. k : s[i] = s[j] => i = j}

\* Mutant of MayModify: a built record can be changed.
MayModifyAlways == TRUE

\* addPointer and addRecordItem throw once the record is built.
MayModify == ~ built

Attempt ==
  /\ ~ raised /\ attempts < MaxAttempts
  /\ attempts' = attempts + 1
  /\ UNCHANGED <<appendable, lastCertRecords>>

\* noTailingRecord, or no valid certificate: nothing has been done yet.
RefuseAtOnce ==
  /\ Attempt
  /\ UNCHANGED <<record, built, raised, failedToSign, published>>

Raise ==
  /\ Attempt
  /\ ~ MayModify
  /\ \/ record.type = "CERTIFICATE_RECORD" /\ lastCertRecords # {}
     \/ Cardinality(appendable) >= precedingRecordNum
  /\ raised' = TRUE
  /\ UNCHANGED <<record, built, failedToSign, published>>

\* notEnoughTailingRecord: the KeyLocators stay in the object.
RefuseForTail ==
  /\ Attempt
  /\ Cardinality(appendable) < precedingRecordNum
  /\ MayModify \/ WithPrevCertificates(record) = record
  /\ record' = WithPrevCertificates(record)
  /\ UNCHANGED <<built, raised, failedToSign, published>>

\* The object is complete.  Signing it may fail; otherwise it is added, and
\* createRecord reports an error still if the sync Interest cannot be signed.
Link ==
  /\ Attempt
  /\ MayModify
  /\ Cardinality(appendable) >= precedingRecordNum
  /\ \E s \in Shuffled(PointersToAdd(record)) :
       record' = WithPointers(WithPrevCertificates(record), s)
  /\ raised' = raised
  /\ \/ /\ failedToSign' = failedToSign + 1
        /\ UNCHANGED <<built, published>>
     \/ /\ built' = TRUE
        /\ published' = published \cup {[packet |-> record', heads |-> lastCertRecords]}
        /\ failedToSign' = failedToSign

\* Between two attempts records arrive, become heavy and are confirmed.
LedgerMoves ==
  /\ ~ raised
  /\ \E A \in SUBSET TailRecord, H \in SUBSET CertRecord : appendable' = A /\ lastCertRecords' = H
  /\ UNCHANGED <<record, built, raised, attempts, failedToSign, published>>

Next == RefuseAtOnce \/ Raise \/ RefuseForTail \/ Link \/ LedgerMoves

Spec == Init /\ [][Next]_vars

(***************************************************************************)
(* What another peer makes of the packet.                                  *)
(***************************************************************************)
\* checkPointerCount: as many pointers as configured, none repeated.
CheckPointerCount(packet) ==
  /\ Len(packet.pointers) = precedingRecordNum
  /\ Cardinality(Range(packet.pointers)) = precedingRecordNum

\* CertificateRecord(Record) sorts the items by their TLV type; the certificates
\* are given by their positions.
PrevCertificates(packet) == Range(packet.items) \cap CertRecord
Certificates(packet)     == {i \in DOMAIN packet.items : packet.items[i] \in Content}

-----------------------------------------------------------------------------
BuildTypeOK ==
  /\ record \in RecordObject
  /\ built \in BOOLEAN /\ raised \in BOOLEAN
  /\ attempts \in 0 .. MaxAttempts /\ failedToSign \in 0 .. MaxAttempts
  /\ built <=> published # {}
  /\ Len(record.pointers) <= precedingRecordNum + failedToSign

\* However often an application calls createRecord with one Record object, one
\* record at most gets into the ledger.
PublishedOnce == Cardinality(published) <= 1

\* The other peers take the record just when it was signed the first time it
\* was linked: the pointers of an attempt that could not be signed stay in the
\* object (ledger-impl.cpp:125, 141), this peer adds the record to its own
\* tailing records without checkPointerCount, and every other peer refuses it.
TakenIfSignedAtOnce ==
  \A p \in published : CheckPointerCount(p.packet) <=> failedToSign = 0

\* A certificate record links to every head of the certificate chains, however
\* many attempts it took, so no chain is left behind; and its certificates are
\* the ones the application put in.
LinksAllHeads ==
  \A p \in published : p.packet.type = "CERTIFICATE_RECORD" =>
    /\ p.heads \subseteq PrevCertificates(p.packet)
    /\ Cardinality(Certificates(p.packet)) = 1
=============================================================================
