---------------------------- MODULE CertManager ----------------------------
(***************************************************************************)
(* The certificate manager of one peer as a state machine.  The ledger     *)
(* calls acceptRecord when a certificate or revocation record is confirmed *)
(* (ledger-impl.cpp:668-670), in an order that depends on the other peers. *)
(* The tables are kept in memory only: after a restart they hold the       *)
(* certificates of the configuration again.                                *)
(***************************************************************************)
EXTENDS Certificates

CONSTANT Self   \* m_peerPrefix

ASSUME SelfAssumption == Self \in Peer

VARIABLES
  peerCertificates,     \* m_peerCertificates
  revokedCertificates,  \* m_revokedCertificates
  accepted              \* history: the records accepted since the process started

vars == <<peerCertificates, revokedCertificates, accepted>>

\* The records acceptRecord may be given: those of others passed
\* checkSyntaxValidityOfRecord when they were fetched, those of this peer were
\* added by createRecord, which checks no format.
IdentityRecords ==
  {r \in Record : /\ Type(r) \in {"CERTIFICATE_RECORD", "REVOCATION_RECORD"}
                  /\ ProducerPrefix(r) = Self \/ VerifyRecordFormat(r)}

Init ==
  /\ peerCertificates = StartingCerts
  /\ revokedCertificates = {}
  /\ accepted = {}

AcceptRecord(r) ==
  /\ r \notin accepted
  /\ peerCertificates' = CertsAfter(peerCertificates, revokedCertificates, {r})
  /\ revokedCertificates' = RevokedAfter(revokedCertificates, {r})
  /\ accepted' = accepted \cup {r}

Restart ==
  /\ accepted # {}
  /\ peerCertificates' = StartingCerts
  /\ revokedCertificates' = {}
  /\ accepted' = {}

Next == (\E r \in IdentityRecords : AcceptRecord(r)) \/ Restart

Spec == Init /\ [][Next]_vars

TypeOK ==
  /\ peerCertificates \in SUBSET Cert
  /\ revokedCertificates \in SUBSET Cert
  /\ accepted \in SUBSET IdentityRecords

(***************************************************************************)
(* Revocation does not depend on the order in which certificate and        *)
(* revocation records are confirmed: the certificates that still endorse a *)
(* record (endorseSignature, verifySignature(Interest)) are the starting   *)
(* and the issued ones without the revoked ones, also when a certificate's *)
(* revocation was accepted before the certificate.                         *)
(***************************************************************************)
EffectiveCertificates ==
  peerCertificates \ revokedCertificates =
    (StartingCerts \cup UNION {Certificates(r) : r \in accepted})
       \ UNION {RevokedCertificates(r) : r \in accepted}
=============================================================================
