SPECIFICATION FairSpec
CONSTANTS
  Clients = {c1}
  Opened = {c1}
  Tasks = {t1}
  Handler = Handler
  MaxItems = 4
  MaxUpdates = 1
  MaxIntents = 0
  MaxSelects = 1
  MaxClientDrops = 1
  MaxSpokeDrops = 0
PROPERTIES
  ViewsConverge
CHECK_DEADLOCK FALSE
