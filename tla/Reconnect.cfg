SPECIFICATION Spec
CONSTANTS
  Sockets = {s1, s2}
  NoSocket = NoSocket
  Requests = {r1}
  MaxKeys = 2
  MaxAdmin = 0
  MaxRestarts = 0
SYMMETRY SessionSymmetry
INVARIANTS
  ServedIsReachable
CHECK_DEADLOCK FALSE
