SPECIFICATION Spec
CONSTANTS
  Clients = {c1}
  Opened = {c1}
  Tasks = {t1}
  Handler = Handler
  MaxItems = 3
  MaxUpdates = 0
  MaxIntents = 1
  MaxSelects = 0
  MaxClientDrops = 0
  MaxSpokeDrops = 0
PROPERTIES
  MessageShownUntilRepresented
CHECK_DEADLOCK FALSE
