CONSTANTS
  a = a
  b = b
  c = c
  newCert = newCert
  key = key
  g1 = g1
  g2 = g2
  a1 = a1
  b1 = b1
  c1 = c1
  c0 = c0
  revokeB = revokeB
  a2 = a2
  b2 = b2
  Peer <- MCPeer
  Cert <- MCCert
  Key <- MCKey
  Record <- QuietRecord
  Data <- QuietData
  NameOrder <- QuietNameOrder
  CertInfo <- MCCertInfo
  Under <- MCUnder
  AnchorIdentity = a
  StartingCerts <- MCPeer
  Member <- MCMember
  SigningKey <- MCSigningKey
  Advert = {}
  AppRetrieves <- QuietRecord
  AppEndorses <- QuietRecord
  precedingRecordNum = 2
  appendWeight = 1
  contributionWeight = 2
  confirmWeight = 2
  blockConfirmationTimeout = 1
  ancestorFetchTimeout = 0
  clockSkewTolerance = 0
  MaxTime = 0
  MaxLosses = 0
  MaxRestarts = 1
  MayRestart = {}
  MaxSent = 6
SPECIFICATION NetworkSpec
CHECK_DEADLOCK FALSE
INVARIANTS
  QuietMeansConsistent
