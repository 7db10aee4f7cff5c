CONSTANTS
  anchor = anchor
  manager = manager
  self = self
  outsider = outsider
  anchorCert = anchorCert
  managerCert = managerCert
  selfCert = selfCert
  selfCert2 = selfCert2
  outsiderCert = outsiderCert
  forgedCert = forgedCert
  kAnchor = kAnchor
  kManager = kManager
  kSelf = kSelf
  kSelf2 = kSelf2
  kOutsider = kOutsider
  issueSelf = issueSelf
  renewSelf = renewSelf
  issueManager = issueManager
  issueOutsider = issueOutsider
  reissueSelf = reissueSelf
  revokeSelf = revokeSelf
  revokeMany = revokeMany
  revokeOther = revokeOther
  revokeForeign = revokeForeign
  issueForged = issueForged
  oldRecord = oldRecord
  genesis = genesis
  Peer <- MCPeer
  Cert <- MCCert
  Key <- MCKey
  Record <- MCRecord
  Data <- MCData
  NameOrder <- MCNameOrder
  CertInfo <- MCCertInfo
  Under <- MCUnder
  AnchorIdentity = anchor
  StartingCerts <- MCStartingCerts
  Self = self
SPECIFICATION Spec
INVARIANTS TypeOK EffectiveCertificates
