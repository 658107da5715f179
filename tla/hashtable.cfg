SPECIFICATION HTFairSpec
CONSTANTS
  k1 = k1 k2 = k2 k3 = k3 k4 = k4 v1 = v1 v2 = v2
  Keys = {k1, k2, k3, k4}
  Vals = {v1, v2}
  Hash <- Collisions
  InitCap = 2
  MaxCap = 8
  NoValue = NoValue
INVARIANTS HTTypeOK Located UniqueKeys CountMatches FreeNeverAborts
PROPERTIES ImplementsDictionary LoopsEnd
