CONSTANTS
  self = self
  b = b
  c = c
  d = d
  key = key
  g1 = g1
  g2 = g2
  b1 = b1
  c1 = c1
  d1 = d1
  d0 = d0
  c2 = c2
  s1 = s1
  s2 = s2
  s3 = s3
  d2 = d2
  b2 = b2
  c3 = c3
  Peer <- MCPeer
  Cert <- MCCert
  Key <- MCKey
  Record <- MCRecord
  Data <- MCData
  NameOrder <- MCNameOrder
  CertInfo <- MCCertInfo
  Under <- MCUnder
  AnchorIdentity = b
  StartingCerts <- MCCert
  Member = {self}
  Advert <- MCAdvert
  AppRetrieves <- MCRecord
  AppEndorses <- MCRecord
  precedingRecordNum = 2
  appendWeight = 1
  contributionWeight = 2
  confirmWeight = 2
  blockConfirmationTimeout = 1
  ancestorFetchTimeout = 0
  clockSkewTolerance = 0
  MaxTime = 0
  MaxLosses = 0
  MaxRestarts = 0
SPECIFICATION Spec
CHECK_DEADLOCK FALSE
INVARIANTS
  NoNullDereference
  WeightIsApprovals
  ConfirmedAtK
  RejectedIsolated
  WeightMonotone
  StackBlocked
  TipsCoverLedger
  TraversalIsLeastSet
