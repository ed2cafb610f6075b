SPECIFICATION FairSpec
CONSTANTS
  MaxRecords = 4
INVARIANTS
  TypeOK
  NoCallAfterAbort
PROPERTIES
  LogSpec
  UploaderEnds
CHECK_DEADLOCK FALSE
