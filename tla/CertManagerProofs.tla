------------------------- MODULE CertManagerProofs -------------------------
(***************************************************************************)
(* Proofs about the certificate manager, for every set of records and      *)
(* certificates.                                                           *)
(***************************************************************************)
EXTENDS CertManager, TLAPS

\* Packets hold certificates: what a record issues or revokes is a set of Cert.
LEMMA RecordFields ==
  ASSUME NEW r \in Record
  PROVE  /\ Certificates(r) \in SUBSET Cert
         /\ RevokedCertificates(r) \in SUBSET Cert
  BY DataAssumption DEF Certificates, RevokedCertificates, Type, Packet

\* Accepting one record: everything it revokes is added, and everything it
\* issues except what was revoked before.
LEMMA AcceptOne ==
  ASSUME NEW certs, NEW revoked, NEW r \in Record
  PROVE  /\ RevokedAfter(revoked, {r}) = revoked \cup RevokedCertificates(r)
         /\ CertsAfter(certs, revoked, {r}) = certs \cup (Certificates(r) \ revoked)
<1>1. \A q \in {r} : RevokedCertificates(q) = RevokedCertificates(r)
  OBVIOUS
<1>2. RevokedAfter(revoked, {r}) = revoked \cup RevokedCertificates(r)
  BY DEF RevokedAfter
<1>3. Before(r, {r}) = {}
  BY NameOrderAssumption DEF Before
<1>4. RevokedAfter(revoked, Before(r, {r})) = revoked
  BY <1>3 DEF RevokedAfter
<1>5. CertsAfter(certs, revoked, {r}) = certs \cup (Certificates(r) \ revoked)
  BY <1>4 DEF CertsAfter
<1> QED BY <1>2, <1>5

\* The tables hold certificates and only identity records are accepted.
THEOREM CertManagerTypeCorrect == Spec => []TypeOK
<1>1. Init => TypeOK
  BY AnchorAssumption DEF Init, TypeOK
<1>2. TypeOK /\ [Next]_vars => TypeOK'
  <2> SUFFICES ASSUME TypeOK, [Next]_vars PROVE TypeOK'
    OBVIOUS
  <2>1. ASSUME NEW r \in IdentityRecords, AcceptRecord(r) PROVE TypeOK'
    BY <2>1, RecordFields, AcceptOne DEF TypeOK, AcceptRecord, IdentityRecords
  <2>2. CASE Restart
    BY <2>2, AnchorAssumption DEF TypeOK, Restart
  <2>3. CASE UNCHANGED vars
    BY <2>3 DEF TypeOK, vars
  <2> QED BY <2>1, <2>2, <2>3 DEF Next
<1> QED BY <1>1, <1>2, PTL DEF Spec

(***************************************************************************)
(* What the tables amount to does not depend on the order of acceptance.   *)
(* The equation alone is not inductive: that the revoked table is exactly  *)
(* what the accepted records revoke has to be carried along, since a       *)
(* certificate is dropped on account of that table.                        *)
(***************************************************************************)
RevokedExactly ==
  revokedCertificates = UNION {RevokedCertificates(r) : r \in accepted}

EffectiveInv == RevokedExactly /\ EffectiveCertificates

LEMMA EffectiveInvStep ==
  TypeOK /\ EffectiveInv /\ [Next]_vars => EffectiveInv'
<1> SUFFICES ASSUME TypeOK, EffectiveInv, [Next]_vars PROVE EffectiveInv'
  OBVIOUS
<1>1. ASSUME NEW r \in IdentityRecords, AcceptRecord(r) PROVE EffectiveInv'
  <2>1. r \in Record
    BY DEF IdentityRecords
  <2>2. /\ revokedCertificates' = revokedCertificates \cup RevokedCertificates(r)
        /\ peerCertificates' = peerCertificates \cup (Certificates(r) \ revokedCertificates)
    BY <1>1, <2>1, AcceptOne DEF AcceptRecord
  <2>3. accepted' = accepted \cup {r}
    BY <1>1 DEF AcceptRecord
  <2>4. UNION {RevokedCertificates(q) : q \in accepted'}
          = (UNION {RevokedCertificates(q) : q \in accepted}) \cup RevokedCertificates(r)
    BY <2>3
  <2>5. UNION {Certificates(q) : q \in accepted'}
          = (UNION {Certificates(q) : q \in accepted}) \cup Certificates(r)
    BY <2>3
  <2>6. RevokedExactly'
    BY <2>2, <2>4 DEF EffectiveInv, RevokedExactly
  <2>7. EffectiveCertificates'
    <3> DEFINE Issued  == UNION {Certificates(q) : q \in accepted}
               Revoked == UNION {RevokedCertificates(q) : q \in accepted}
    <3>1. /\ peerCertificates \ revokedCertificates = (StartingCerts \cup Issued) \ Revoked
          /\ revokedCertificates = Revoked
      BY DEF EffectiveInv, EffectiveCertificates, RevokedExactly
    <3>2. peerCertificates' \ revokedCertificates'
            = (StartingCerts \cup (Issued \cup Certificates(r)))
                 \ (Revoked \cup RevokedCertificates(r))
      <4> HIDE DEF Issued, Revoked
      <4> QED BY <2>2, <3>1
    <3> QED BY <3>2, <2>4, <2>5 DEF EffectiveCertificates
  <2> QED BY <2>6, <2>7 DEF EffectiveInv
<1>2. CASE Restart
  BY <1>2 DEF Restart, EffectiveInv, RevokedExactly, EffectiveCertificates
<1>3. CASE UNCHANGED vars
  BY <1>3 DEF vars, EffectiveInv, RevokedExactly, EffectiveCertificates
<1> QED BY <1>1, <1>2, <1>3 DEF Next

\* In every run, the certificates that endorse are those of the configuration
\* and the accepted records, less the revoked ones, in whatever order the
\* records were accepted.
THEOREM EffectiveCertificatesAlways == Spec => []EffectiveCertificates
<1>1. Init => EffectiveInv
  BY DEF Init, EffectiveInv, RevokedExactly, EffectiveCertificates
<1>2. EffectiveInv => EffectiveCertificates
  BY DEF EffectiveInv
<1> QED BY <1>1, <1>2, EffectiveInvStep, CertManagerTypeCorrect, PTL DEF Spec
========================================
