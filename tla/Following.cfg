SPECIFICATION Spec
CONSTANTS
  Clients = {c1, c2}
  Opened = {c1}
  Tasks = {t1}
  Handler = Handler
  MaxItems = 3
  MaxUpdates = 0
  MaxIntents = 1
  MaxSelects = 1
  MaxClientDrops = 1
  MaxSpokeDrops = 1
INVARIANTS
  TypeOK
  FollowedItemsArrive
  CacheCoversViews
PROPERTIES
  ImplementsLog
CHECK_DEADLOCK FALSE
