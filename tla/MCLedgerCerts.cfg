CONSTANTS
  anchor = anchor
  self = self
  b = b
  c = c
  newcomer = newcomer
  key = key
  newKey = newKey
  newCert = newCert
  g1 = g1
  g2 = g2
  i1 = i1
  j1 = j1
  b3 = b3
  c3 = c3
  b1 = b1
  c1 = c1
  n1 = n1
  v1 = v1
  b2 = b2
  c2 = c2
  i2 = i2
  n2 = n2
  s1 = s1
  s2 = s2
  Peer <- MCPeer
  Cert <- MCCert
  Key <- MCKey
  Record <- MCRecord
  Data <- MCData
  NameOrder <- MCNameOrder
  CertInfo <- MCCertInfo
  Under <- MCUnder
  AnchorIdentity = anchor
  StartingCerts <- MCStartingCerts
  Member = {self}
  Advert <- MCAdvert
  AppRetrieves <- MCRecord
  AppEndorses <- MCRecord
  precedingRecordNum = 2
  appendWeight = 1
  contributionWeight = 2
  confirmWeight = 2
  blockConfirmationTimeout = 1
  ancestorFetchTimeout = 0
  clockSkewTolerance = 0
  MaxTime = 0
  MaxLosses = 1
  MaxRestarts = 0
SPECIFICATION Spec
CHECK_DEADLOCK FALSE
INVARIANTS
  ChainsCoverCertificates
  ConfirmedChangesEffective
PROPERTIES
  EndorsedByLiveCertificate
