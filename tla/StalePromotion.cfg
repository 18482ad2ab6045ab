SPECIFICATION Spec
CONSTANTS
  Ops = {o1, o2}
  NoOp = NoOp
  MaxRevision = 2
  MaxChanges = 2
  MaxOwnerCommits = 0
  MaxAsks = 0
  MaxCancels = 0
  MaxCrashes = 0
  MaxDrops = 0
SYMMETRY OpsSymmetry
PROPERTIES
  StaleNeverPromoted
CHECK_DEADLOCK FALSE
