----------------------------- MODULE RecordDag -----------------------------
(***************************************************************************)
(* The records of a DLedger and the hash DAG their pointers form.          *)
(*                                                                         *)
(* A record is identified with its full name: the name ends in the digest  *)
(* of the packet, so the name determines the content, and the content of a *)
(* record names its preceding records.  Data maps a full name to the       *)
(* fields of the packet the ledger reads (src/include/dledger/record.hpp,  *)
(* src/src/record.cpp, src/src/record_name.cpp).                           *)
(***************************************************************************)
EXTENDS Integers, FiniteSets

CONSTANTS
  Peer,      \* name prefixes of record producers, the prefix "/genesis" included
  Cert,      \* full names of certificates
  Key,       \* key pairs
  Record,    \* full names of records
  Data,      \* [Record -> Packet]
  NameOrder  \* position of a record's name in the order of ndn::Name

RecordType == {"GENESIS_RECORD", "GENERIC_RECORD",
               "CERTIFICATE_RECORD", "REVOCATION_RECORD"}

Packet == [producer  : Peer,            \* prefix of the name
           type      : RecordType,
           timestamp : Nat,
           pointers  : SUBSET Record,   \* the header
           prevCerts : SUBSET Record,   \* KeyLocator items of a certificate record
           certs     : SUBSET Cert,     \* certificates it issues
           revoked   : SUBSET Cert,     \* certificate names it revokes
           key       : Key]             \* the key that signed it

ProducerPrefix(r)     == Data[r].producer
Type(r)               == Data[r].type
GenerationTimestamp(r) == Data[r].timestamp
PointersFromHeader(r) == Data[r].pointers
PrevCertificates(r)   == IF Type(r) = "CERTIFICATE_RECORD"
                           THEN Data[r].prevCerts ELSE {}
Certificates(r)       == IF Type(r) = "CERTIFICATE_RECORD"
                           THEN Data[r].certs ELSE {}
RevokedCertificates(r) == IF Type(r) = "REVOCATION_RECORD"
                            THEN Data[r].revoked ELSE {}

GenesisRecords == {r \in Record : Type(r) = "GENESIS_RECORD"}

\* The header is a list of names.  checkPointerCount refuses a list with a
\* repetition, whatever its length: such a record is one whose set of
\* pointers has another size.
PointerCountOK(r, numPointers) == Cardinality(PointersFromHeader(r)) = numPointers

(***************************************************************************)
(* The DAG.  A packet contains the digests of the packets it names, so no  *)
(* set of records is closed under "is named by": in every nonempty set     *)
(* some record names no record of the set.                                 *)
(***************************************************************************)
Named(r) == PointersFromHeader(r) \cup PrevCertificates(r)

ASSUME DataAssumption ==
  /\ IsFiniteSet(Record)
  /\ IsFiniteSet(Peer)
  /\ Data \in [Record -> Packet]

ASSUME NameOrderAssumption ==
  /\ NameOrder \in [Record -> Nat]
  /\ \A r, s \in Record : NameOrder[r] = NameOrder[s] => r = s

ASSUME GenesisAssumption ==
  \A g \in GenesisRecords :
     /\ Named(g) = {}
     /\ \A r \in Record : ProducerPrefix(r) = ProducerPrefix(g) => r \in GenesisRecords

ASSUME HashDagAssumption ==
  \A S \in SUBSET Record :
     S # {} => \E r \in S : Named(r) \cap S = {}

\* The records r descends from: its pointers and what they descend from.
AncestorsOf[r \in Record] ==
  PointersFromHeader(r) \cup UNION {AncestorsOf[p] : p \in PointersFromHeader(r)}

\* The records r was made after: itself and those its content names, directly
\* or not.
RestsOn[r \in Record] == {r} \cup UNION {RestsOn[p] : p \in Named(r)}

\* The certificate records found by following the certificate chain from r.
ChainOf[r \in Record] == {r} \cup UNION {ChainOf[c] : c \in PrevCertificates(r)}
=============================================================================
