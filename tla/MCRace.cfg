SPECIFICATION Spec
CONSTANTS
  Nobody = Nobody
  Guard = Guard
  a = a
  b = b
  c = c
  u1 = u1
  s1 = s1
  d1 = d1
  Region = {a, b, c}
  Autos = {u1}
  Seeds = {s1}
  Downs = {}
  DownOptions <- PlainDown
  Standby = "race"
  K = 3
  MaxRounds = 1
  MaxSeeds = 1
SYMMETRY Alike
INVARIANTS
  OneRegionLeft
  TimeoutReported
  EntrantsRecorded
  DownTargetIsWinner
CHECK_DEADLOCK FALSE
