CONSTANTS
  t1 = t1
  t2 = t2
  t3 = t3
  k1 = k1
  k2 = k2
  content = content
  TailRecord <- MCTailRecord
  CertRecord <- MCCertRecord
  Content <- MCContent
  precedingRecordNum = 2
  MaxAttempts = 3
SPECIFICATION Spec
CHECK_DEADLOCK FALSE
INVARIANTS
  BuildTypeOK
  PublishedOnce
  TakenIfSignedAtOnce
  LinksAllHeads
