SPECIFICATION ToolsSpec
CONSTANTS
  small = small
  large = large
  huge = huge
  touched = touched
  page1 = page1
  page2 = page2
  None = None
  ManifestName = ManifestName
  SignatureName = SignatureName
  OtherName = OtherName
  PublisherKey = PublisherKey
  OtherKey = OtherKey
  PathOrder <- MCPaths
  Kinds = {"base", "patch", "dlc", "mod"}
  Contents = {small, large}
  Size <- MCSize
  ZstdSize <- MCZstdSize
  Streams <- MCStreams
  StreamSize <- MCStreamSize
  ZstdStreamSize <- MCZstdStreamSize
  MinCompressBytes = 4096
  Expansion = 64
  Slack = 1048576
  MaxEntries = 5
  ManifestSize <- MCManifestSize
  MaxManifestBytes = 1200
  Drafts <- MCDrafts
  Trust <- MCTrust
  MinEpoch = 1
  Rollouts = {0, 10}
  Epochs = {0, 1}
  Times <- MCTimes
  MaxShelf = 2
  MaxListed = 2
  Pieces <- MCPieces
  Loads <- MCLoads
  MaxLen <- MCMaxLen
  MaxNotes = 3
INVARIANTS
  BuiltPacksOpen
  ReadsAsSigned
  NothingUnaccountedFor
  PublishedWhenItWas
  PagesStayInThePack
  PathsAreNames
  NotesAreWhatIsSeen
  CodeIsJudged
CHECK_DEADLOCK FALSE
