SPECIFICATION Spec
CONSTANTS
  Nobody = Nobody
  Guard = Guard
  r1 = r1
  r2 = r2
  u1 = u1
  d1 = d1
  h1 = h1
  Runs = {}
  Ups = {u1}
  Downs = {}
  Hosts = {h1}
  HostOf <- OneHost
  UpPolicy <- OnlineUps
  StartStacks = {"online"}
  MaxPolls = 1
  JobLimits = {TRUE, FALSE}
  BusyHosts = {}
PROPERTIES
  UpFailureReleases
CHECK_DEADLOCK FALSE
