SPECIFICATION Spec
CONSTANTS
  Nobody = Nobody
  Guard = Guard
  r1 = r1
  r2 = r2
  u1 = u1
  d1 = d1
  h1 = h1
  Runs = {r1, r2}
  Ups = {}
  Downs = {}
  Hosts = {h1}
  HostOf <- OneHost
  UpPolicy <- OnlineUps
  StartStacks = {"batch"}
  MaxPolls = 2
  JobLimits = {FALSE}
  BusyHosts = {}
INVARIANTS
  TypeOK
  LockExclusive
PROPERTIES
  NoForeignStop
CHECK_DEADLOCK FALSE
