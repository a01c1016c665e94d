SPECIFICATION Spec
CONSTANTS
  b1 = b1
  p2 = p2
  b3 = b3
  b4 = b4
  d1 = d1
  NoPack = NoPack
  Meta <- MCMeta
  Batches <- MCExtensions
  Packs = {b1, p2, d1}
  Seeds = {b1}
  Corruptible = {b1}
  LoadReasons = {"spec"}
  ErrorCodes = {}
  MaxBootAttempts = 2
  MaxConsecutiveRollbacks = 1
  MaxWatermark = 0
  MaxEpoch = 1
  MaxClock = 0
  MaxFaults = 0
  FlushedBeforeOpen = TRUE
  TransientStrikes = 2
  TransientTtl = 1
INVARIANTS
  PatchesNeverAlone
