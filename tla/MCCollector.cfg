SPECIFICATION FairCollectSpec
CONSTANTS
  h1 = h1
  h2 = h2
  b1 = b1
  b2 = b2
  Requests = {r1, r2}
  FileId = {f1}
  Path = {p1}
  Hash = {h1, h2}
  Blob = {b1}
  Payload <- MCOnePayload
  Limits <- MCLimits
  MaxVersion = 2
  MaxEpoch = 0
  MaxQueued = 1
INVARIANTS CollectInv PassCollects
PROPERTIES HistoryTrimmed OrphanCollected
CHECK_DEADLOCK FALSE
