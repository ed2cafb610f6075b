SPECIFICATION FairSpec
CONSTANTS
  Nobody = Nobody
  Guard = Guard
  a = a
  b = b
  c = c
  u1 = u1
  s1 = s1
  d1 = d1
  Region = {a, b}
  Autos = {u1}
  Seeds = {}
  Downs = {d1}
  DownOptions <- PurgeA
  Standby = "lazy"
  K = 2
  MaxRounds = 1
  MaxSeeds = 1
INVARIANTS
  EntrantsRecorded
PROPERTIES
  ProcsEnd
CHECK_DEADLOCK FALSE
