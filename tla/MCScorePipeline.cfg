SPECIFICATION Spec
CONSTANTS
  Null = Null
  ra = ra
  rb = rb
  rc = rc
  g = g
  p = p
  Window = 1
  Collected <- MCCollected
  Types = {g, p}
  Regions <- MCRegions
  Pools <- MCPools
  Histories <- MCHistories
  Scores = {1, 3}
  BatchSize = 1
  MaxTime = 2
  Rtt <- MCRtt
  Price <- MCPrice
  Ties <- MCTies
  Lists <- MCLists
INVARIANTS
  LostOnlyRefusedTwice
  ScoreFresh
  RankSound
