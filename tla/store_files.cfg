SPECIFICATION HistorySpec
CONSTANTS
  b1 = b1
  p2 = p2
  b3 = b3
  b4 = b4
  d1 = d1
  NoPack = NoPack
  Meta <- MCMeta
  Batches <- MCBases
  Packs = {b1, b3, b4}
  Seeds = {b1}
  Corruptible = {b4}
  LoadReasons = {"spec"}
  ErrorCodes = {}
  MaxBootAttempts = 2
  MaxConsecutiveRollbacks = 1
  MaxWatermark = 0
  MaxEpoch = 2
  MaxClock = 0
  MaxFaults = 1
  FlushedBeforeOpen = TRUE
  TransientStrikes = 3
  TransientTtl = 1
INVARIANTS
  TypeOK
  ReadableStateResolves
  FloorsSurvive
  BarredNeverLoads
PROPERTIES
  NoDowngrade
