CONSTANTS
  d1 = d1
  d2 = d2
  word = word
  filter = filter
  broken = broken
  output = output
  none = none
  Argument <- MCRecord
  NoValue = none
  FuncName = {"GETB", "NOPE", "NULL"}
  Callback = {"GETB"}
  EmptyBlock = {"NULL"}
  Polls = 3
  Record <- MCRecord
  Code = {filter, broken}
  Output = {output}
  Own = {d1, output}
  Numeric = {d1, d2}
  Overlong = {d2}
  FirstByte <- MCFirstByte
  Invalid = {broken}
  Behaviour <- MCBehaviour
  Batch = 1
  MaxRestarts = 1
SPECIFICATION FairSpec
CHECK_DEADLOCK FALSE
INVARIANTS
  DfiTypeOK
  NothingOverlooked
  NoticedResultReturned
  NoRunaway
PROPERTIES
  BatchEnds
