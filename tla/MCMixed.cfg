SPECIFICATION Spec
CONSTANTS
  Nobody = Nobody
  Guard = Guard
  r1 = r1
  r2 = r2
  u1 = u1
  d1 = d1
  h1 = h1
  Runs = {r1}
  Ups = {u1}
  Downs = {d1}
  Hosts = {h1}
  HostOf <- OneHost
  UpPolicy <- OnlineUps
  StartStacks = {"absent", "online", "interactive"}
  MaxPolls = 1
  JobLimits = {FALSE}
  BusyHosts = {}
INVARIANTS
  TargetRecorded
  NoLeakedCapacity
  MinWithinDesired
CHECK_DEADLOCK FALSE
