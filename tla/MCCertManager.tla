--------------------------- MODULE MCCertManager ---------------------------
(***************************************************************************)
(* An organisation: its anchor, a subordinate identity manager under the   *)
(* anchor's name, this peer and a peer of another organisation.  Identity  *)
(* records issue, renew, revoke and issue anew.  Three are badly formed:   *)
(* the two of others are never accepted, this peer's own might be.         *)
(***************************************************************************)
EXTENDS CertManager, TLC

CONSTANTS anchor, manager, self, outsider,
          anchorCert, managerCert, selfCert, selfCert2, outsiderCert, forgedCert,
          kAnchor, kManager, kSelf, kSelf2, kOutsider,
          issueSelf, renewSelf, issueManager, issueOutsider, reissueSelf,
          revokeSelf, revokeMany, revokeOther, revokeForeign, issueForged, oldRecord,
          genesis

MCPeer == {anchor, manager, self, outsider, "/genesis"}
MCCert == {anchorCert, managerCert, selfCert, selfCert2, outsiderCert, forgedCert}
MCKey  == {kAnchor, kManager, kSelf, kSelf2, kOutsider}
MCRecord == {genesis, issueSelf, renewSelf, issueManager, issueOutsider,
             reissueSelf, revokeSelf, revokeMany, revokeOther, revokeForeign, issueForged,
             oldRecord}

Issue(p, k, cs) ==
  [producer |-> p, type |-> "CERTIFICATE_RECORD", timestamp |-> 0, pointers |-> {genesis},
   prevCerts |-> {}, certs |-> cs, revoked |-> {}, key |-> k]
Revoke(p, k, cs) ==
  [producer |-> p, type |-> "REVOCATION_RECORD", timestamp |-> 0, pointers |-> {genesis},
   prevCerts |-> {}, certs |-> {}, revoked |-> cs, key |-> k]

MCData ==
     genesis       :> [producer |-> "/genesis", type |-> "GENESIS_RECORD", timestamp |-> 0,
                       pointers |-> {}, prevCerts |-> {}, certs |-> {}, revoked |-> {},
                       key |-> kAnchor]
  @@ issueSelf     :> Issue(anchor, kAnchor, {selfCert})
  @@ renewSelf     :> Issue(manager, kManager, {selfCert2})
  @@ issueManager  :> Issue(anchor, kAnchor, {managerCert})
  @@ issueOutsider :> Issue(anchor, kAnchor, {outsiderCert, selfCert2})
  @@ reissueSelf   :> Issue(anchor, kAnchor, {selfCert, managerCert})
  @@ revokeSelf    :> Revoke(self, kSelf, {selfCert})
  @@ revokeMany    :> Revoke(anchor, kAnchor, {managerCert, outsiderCert})
  @@ revokeOther   :> Revoke(outsider, kOutsider, {selfCert2})
  @@ revokeForeign :> Revoke(self, kSelf, {outsiderCert})
  @@ issueForged   :> Issue(anchor, kAnchor, {forgedCert})
  @@ oldRecord     :> [producer |-> self, type |-> "GENERIC_RECORD", timestamp |-> 0,
                       pointers |-> {genesis}, prevCerts |-> {}, certs |-> {},
                       revoked |-> {}, key |-> kSelf]

MCNameOrder ==
     genesis :> 0 @@ issueSelf :> 1 @@ renewSelf :> 2 @@ issueManager :> 3
  @@ issueOutsider :> 4 @@ reissueSelf :> 5 @@ revokeSelf :> 6 @@ revokeMany :> 7
  @@ revokeOther :> 8 @@ issueForged :> 9 @@ oldRecord :> 10 @@ revokeForeign :> 11

CertOf(p, k, issued) == [identity |-> p, key |-> k, issuedByAnchor |-> issued]
MCCertInfo ==
     anchorCert :> CertOf(anchor, kAnchor, TRUE)
  @@ managerCert :> CertOf(manager, kManager, TRUE)
  @@ selfCert :> CertOf(self, kSelf, TRUE)
  @@ selfCert2 :> CertOf(self, kSelf2, TRUE)
  @@ outsiderCert :> CertOf(outsider, kOutsider, TRUE)
  @@ forgedCert :> CertOf(outsider, kOutsider, FALSE)

MCUnder == [p \in MCPeer |-> IF p = anchor THEN {anchor, manager, self} ELSE {p}]
MCStartingCerts == {anchorCert, selfCert}
=============================================================================
