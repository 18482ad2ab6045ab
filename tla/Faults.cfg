SPECIFICATION Spec
CONSTANTS
  Ops = {o1}
  NoOp = NoOp
  MaxRevision = 2
  MaxChanges = 3
  MaxOwnerCommits = 1
  MaxAsks = 1
  MaxCancels = 1
  MaxCrashes = 1
  MaxDrops = 1
INVARIANTS
  
  CompletedIsPromoted
  OneTaskPerOperation
PROPERTIES
  PrimaryNeverLosesWork
  CheckpointNeverLost
  ImplementsLedger
CHECK_DEADLOCK FALSE
