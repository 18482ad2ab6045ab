SPECIFICATION FairSpec
CONSTANTS
  Ops = {o1, o2}
  NoOp = NoOp
  MaxRevision = 2
  MaxChanges = 2
  MaxOwnerCommits = 0
  MaxAsks = 1
  MaxCancels = 0
  MaxCrashes = 0
  MaxDrops = 0
INVARIANTS
  TypeOK
  LaneHolderIsCurrent
  PrimaryHoldsOnlyApprovedWork
  

  
CHECK_DEADLOCK FALSE
