SPECIFICATION FairSpec
CONSTANTS
  t1 = t1
  t2 = t2
  Tasks = {t1, t2}
  Connector = t1
  MaxId = 3
  MaxNotes = 2
  Capacity = 1
  None = None
INVARIANT CallsSound
PROPERTIES
  
  ForwarderEnds
  
CHECK_DEADLOCK FALSE
