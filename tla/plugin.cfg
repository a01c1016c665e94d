SPECIFICATION PluginSpec
CONSTANTS
  b1 = b1
  p2 = p2
  p3 = p3
  b4 = b4
  p5 = p5
  d1 = d1
  NoPack = NoPack
  Meta <- MCMeta
  Packs = {b1, p2, p3, b4, p5}
  Channels <- MCChannels
  Corruptible = {b1, p5}
  LoadReasons = {"spec"}
  ErrorCodes = {}
  MaxBootAttempts = 2
  MaxConsecutiveRollbacks = 2
  MaxClock = 1
  TransientStrikes = 2
  TransientTtl = 1
INVARIANTS
  PlansStage
  PlanFindsAWay
  PlanConverges
PROPERTIES
  PendingIsGood
