SPECIFICATION FairSpec
CONSTANTS
  b1 = b1
  p2 = p2
  b3 = b3
  b4 = b4
  d1 = d1
  NoPack = NoPack
  Meta <- MCMeta
  Batches <- MCPatch
  Packs = {b1, p2}
  Seeds = {b1}
  Corruptible = {p2}
  LoadReasons = {"io"}
  ErrorCodes = {"io"}
  MaxBootAttempts = 3
  MaxConsecutiveRollbacks = 3
  MaxWatermark = 0
  MaxEpoch = 1
  MaxClock = 1
  MaxFaults = 1
  FlushedBeforeOpen = TRUE
  TransientStrikes = 3
  TransientTtl = 2
PROPERTIES
  TrialEnds
