SPECIFICATION Spec
CONSTANTS
  h1 = h1
  h2 = h2
  b1 = b1
  b2 = b2
  Requests = {r1, r2}
  FileId = {f1}
  Path = {p1}
  Hash = {h1, h2}
  Blob = {b1, b2}
  Payload <- MCPayload
  Limits <- MCOneLimit
  MaxVersion = 2
  MaxEpoch = 0
SYMMETRY MCSymmetry
PROPERTY PurgeOnlyArchived
CHECK_DEADLOCK FALSE
