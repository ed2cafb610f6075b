SPECIFICATION ReportSpec
INVARIANTS
  ContainerNeedsBoth
  BootVerdict
  PhasesClosed
  NothingLeft
  ReportTrue
PROPERTIES
  BootEnds
CHECK_DEADLOCK FALSE
