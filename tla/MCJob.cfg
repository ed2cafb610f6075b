SPECIFICATION FairSpec
CONSTANTS
  Nobody = Nobody
  Guard = Guard
  r1 = r1
  r2 = r2
  u1 = u1
  d1 = d1
  h1 = h1
  Runs = {r1}
  Ups = {}
  Downs = {}
  Hosts = {h1}
  HostOf <- OneHost
  UpPolicy <- OnlineUps
  StartStacks = {"batch", "legacy"}
  MaxPolls = 3
  JobLimits = {TRUE, FALSE}
  BusyHosts = {h1}
INVARIANTS
  NoOrphans
  NoLateTimers
PROPERTIES
  HonestExit
  SessionsEnd
CHECK_DEADLOCK FALSE
