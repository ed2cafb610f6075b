SPECIFICATION FairSpec
CONSTANTS
  Files = {f1, f2}
  Marker = Marker
  Scripts = {p1}
  Boots = {b1}
  NoSeeder = NoSeeder
  MaxPolls = 2
INVARIANTS
  MarkerComplete
  MarkerTrusted
PROPERTIES
  SeedersGo
CHECK_DEADLOCK FALSE
