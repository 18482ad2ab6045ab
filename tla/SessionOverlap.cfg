SPECIFICATION FairSpec
CONSTANTS
  Sockets = {s1, s2}
  NoSocket = NoSocket
  Requests = {r1}
  MaxKeys = 2
  MaxAdmin = 1
  MaxRestarts = 1
INVARIANTS
  TypeOK
  
PROPERTIES
  BarredStaysBarred
  
CHECK_DEADLOCK FALSE
