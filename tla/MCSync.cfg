SPECIFICATION FairRoundSpec
CONSTANTS
  d1 = d1
  d2 = d2
  Device = {d1, d2}
  Path = {p1}
  Content = {c1, c2}
  Skew <- MCSkew
  MaxTime = 1
  MaxEdits = 2
  MaxLost = 1
  MaxPanel = 1
INVARIANTS RoundInv RoundsAgree
PROPERTIES UneditedNeverUploads CursorRetreats EventuallyAgree
CHECK_DEADLOCK FALSE
