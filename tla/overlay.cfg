SPECIFICATION FairOverlaySpec
CONSTANTS
  script = script
  page = page
  s1 = s1
  s2 = s2
  g = g
  e = e
  route = route
  NoFile = NoFile
  PathOrder <- MCPathOrder
  Contents = {s1, s2, g, e}
  Size <- MCSize
  Threshold = 2
  Patchable <- MCPatchable
  MaxDeltas = 1
  MaxDeltaBytes = 3
  MaxAssetBytes = 3
  MaxChainBytes = 20
  Budget = 2
  Fraction = 1
  Dists <- MCDists
  Embedded <- MCEmbedded
  Keys = {script, page, route}
  Candidates <- MCCandidates
  MaxReading = 2
  MaxPacks = 3
  MaxFaults = 2
INVARIANTS
  ServesAsMeant
  CacheIsRight
  ResultsPresent
PROPERTIES
  ResultsReturn
