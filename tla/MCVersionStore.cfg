SPECIFICATION Spec
CONSTANTS
  h1 = h1
  h2 = h2
  b1 = b1
  b2 = b2
  Requests = {r1, r2}
  FileId = {f1}
  Path = {p1}
  Hash = {h1, h2}
  Blob = {b1, b2}
  Payload <- MCPayload
  Limits <- MCLimits
  MaxVersion = 3
  MaxEpoch = 1
SYMMETRY MCSymmetry
INVARIANTS IndInv CurrentIsNewest CurrentRowPresent HashMatchesCurrent RollbackWillInsert
PROPERTY PruneKeepsCurrent
CHECK_DEADLOCK FALSE
