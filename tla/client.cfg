SPECIFICATION ClientSpec
CONSTANTS
  large = large
  small = small
  NoFile = NoFile
  NoDoc = NoDoc
  Packs = {large, small}
  Content <- MCContent
  Sites <- MCSites
  Blocks <- MCBlocks
  MaxFaults = 3
  Channel = "stable"
  Docs <- MCDocs
  Mistakes <- MCMistakes
  Trust <- MCTrust
INVARIANTS
  ClientTypeOK
  PartsFit
  FinishedIsAdvertised
  NeverLockedOut
  PendingIsPublished
PROPERTIES
  StagingEmptiesTheCache
  UpdatesArrive
