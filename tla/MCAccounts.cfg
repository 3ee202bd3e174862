SPECIFICATION Spec
CONSTANTS
  User = {u1, u2}
  Device = {d1, d2}
  Token = {t1}
  Request = {r1, r2}
  Threshold = 2
  MaxAttempts = 2
  MaxPassword = 0
SYMMETRY MCSymmetry
INVARIANTS AdminRemains OneFounder CounterExact
CHECK_DEADLOCK FALSE
