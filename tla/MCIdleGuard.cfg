SPECIFICATION FairSpec
CONSTANTS
  Periods = 2
  Slots = {e1, e2}
PROPERTIES
  NoAlarmWhileUsed
  OrphanStopped
