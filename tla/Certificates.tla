---------------------------- MODULE Certificates ----------------------------
(***************************************************************************)
(* The checks of DefaultCertificateManager (default-cert-manager.cpp) as   *)
(* operators of its two tables:                                            *)
(*   certs   - m_peerCertificates: the certificates known, each filed      *)
(*             under its identity                                          *)
(*   revoked - m_revokedCertificates: the names revoked so far             *)
(***************************************************************************)
EXTENDS RecordDag

CONSTANTS
  CertInfo,        \* [Cert -> [identity, key, issuedByAnchor]]
  Under,           \* Under[p]: the prefixes that p is a prefix of, p included
  AnchorIdentity,  \* identity of m_anchorCert
  StartingCerts    \* the anchor's certificate and those of startingPeers

ASSUME CertInfoAssumption ==
  /\ IsFiniteSet(Cert)
  /\ CertInfo \in [Cert -> [identity : Peer, key : Key, issuedByAnchor : BOOLEAN]]

ASSUME PrefixAssumption ==
  /\ Under \in [Peer -> SUBSET Peer]
  /\ \A p \in Peer : p \in Under[p]

ASSUME AnchorAssumption ==
  /\ AnchorIdentity \in Peer
  /\ StartingCerts \in SUBSET Cert

Identity(c) == CertInfo[c].identity

\* Does one of the certificates filed under this identity match the key?
SignedUnder(certs, identity, key) ==
  \E c \in certs : Identity(c) = identity /\ CertInfo[c].key = key

\* verifySignature(Data): a revoked certificate is still good enough.
VerifySignature(certs, r) == SignedUnder(certs, ProducerPrefix(r), Data[r].key)

\* Mutant of EndorseSignature: a revoked certificate still endorses.
EndorseAnySignature(certs, revoked, r) == VerifySignature(certs, r)

\* endorseSignature(Data): revoked certificates are skipped.
EndorseSignature(certs, revoked, r) == VerifySignature(certs \ revoked, r)

\* verifySignature(Interest) of a sync Interest m: revoked ones are skipped.
VerifyInterest(certs, revoked, m) == SignedUnder(certs \ revoked, m.sender, m.key)

\* Mutant of VerifyRecordFormat: anybody may revoke anything.
VerifyIssuedOnly(r) ==
  Type(r) = "CERTIFICATE_RECORD" =>
    /\ ProducerPrefix(r) \in Under[AnchorIdentity]
    /\ \A c \in Certificates(r) : CertInfo[c].issuedByAnchor

\* A certificate record comes from under the anchor's name and holds only
\* certificates the anchor signed; a revocation record comes from the anchor
\* or revokes only its producer's certificates.
VerifyRecordFormat(r) ==
  CASE Type(r) = "CERTIFICATE_RECORD" ->
         /\ ProducerPrefix(r) \in Under[AnchorIdentity]
         /\ \A c \in Certificates(r) : CertInfo[c].issuedByAnchor
    [] Type(r) = "REVOCATION_RECORD" ->
         \/ ProducerPrefix(r) = AnchorIdentity
         \/ \A c \in RevokedCertificates(r) : Identity(c) = ProducerPrefix(r)
    [] OTHER -> TRUE

AuthorizedToGenerate(certs, peerPrefix) == \E c \in certs : Identity(c) = peerPrefix

\* Mutants of RevokedAfter: the table is replaced; it holds record names.
RevokedReplaced(revoked, R) == UNION {RevokedCertificates(r) : r \in R}
RevokedByRecord(revoked, R) == revoked \cup {r \in R : Type(r) = "REVOCATION_RECORD"}

(***************************************************************************)
(* acceptRecord, for one record and for a set R of records accepted one    *)
(* after the other in the order of their names.  A certificate is filed    *)
(* unless it was revoked before its record's turn.                         *)
(***************************************************************************)
RevokedAfter(revoked, R) == revoked \cup UNION {RevokedCertificates(r) : r \in R}

Before(r, R) == {q \in R : NameOrder[q] < NameOrder[r]}

CertsAfter(certs, revoked, R) ==
  certs \cup UNION {Certificates(r) \ RevokedAfter(revoked, Before(r, R)) : r \in R}
=============================================================================
