SPECIFICATION Spec
CONSTANTS
  User = {u1}
  Device = {d1, d2, d3}
  Token = {t1, t2, t3}
  Request = {r1, r2}
  Threshold = 2
  MaxAttempts = 0
  MaxPassword = 1
SYMMETRY MCSymmetry
INVARIANTS SessionsInv TokenNeedsDevice OneToken OldSessionsEnd
PROPERTY ImplementsLife
CHECK_DEADLOCK FALSE
