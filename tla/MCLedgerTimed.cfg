CONSTANTS
  self = self
  b = b
  c = c
  d = d
  key = key
  g1 = g1
  g2 = g2
  b1 = b1
  c1 = c1
  d1 = d1
  d0 = d0
  c2 = c2
  s1 = s1
  s2 = s2
  s3 = s3
  d2 = d2
  b2 = b2
  c3 = c3
  Peer <- MCPeer
  Cert <- MCCert
  Key <- MCKey
  Record <- FewRecord
  Data <- FewData
  NameOrder <- FewNameOrder
  CertInfo <- MCCertInfo
  Under <- MCUnder
  AnchorIdentity = b
  StartingCerts <- MCCert
  Member = {self}
  Advert <- FewAdvert
  AppRetrieves <- FewRecord
  AppEndorses <- FewRecord
  precedingRecordNum = 2
  appendWeight = 1
  contributionWeight = 2
  confirmWeight = 2
  blockConfirmationTimeout = 1
  ancestorFetchTimeout = 0
  clockSkewTolerance = 0
  MaxTime = 3
  MaxLosses = 0
  MaxRestarts = 1
SPECIFICATION Spec
CHECK_DEADLOCK FALSE
INVARIANTS
  LedgerInv
  AncestorsConfirmed
  ConfirmedByK
  NoOrphans
  RemovalIsLeastSet
PROPERTIES
  ConfirmedLeaveDeep
  ImplementsLedger
