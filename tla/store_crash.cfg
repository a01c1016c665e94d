SPECIFICATION HistorySpec
CONSTANTS
  b1 = b1
  p2 = p2
  b3 = b3
  b4 = b4
  d1 = d1
  NoPack = NoPack
  Meta <- MCMeta
  Batches <- MCSingles
  Packs = {b1, p2}
  Seeds = {b1}
  Corruptible = {b1}
  LoadReasons = {"spec"}
  ErrorCodes = {}
  MaxBootAttempts = 2
  MaxConsecutiveRollbacks = 1
  MaxWatermark = 0
  MaxEpoch = 1
  MaxClock = 2
  MaxFaults = 1
  FlushedBeforeOpen = TRUE
  TransientStrikes = 3
  TransientTtl = 1
INVARIANTS
  NeededLayersPresent
  AckSurvives
  RolledBackNeverLoads
  TrialBudget
  UpdatingStops
  StacksClosed
PROPERTIES
  RollbackSparesCommitted
  ImplementsLifecycle
