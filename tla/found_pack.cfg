SPECIFICATION ReleaseSpec
CONSTANTS
  small = small
  large = large
  huge = huge
  touched = touched
  page1 = page1
  page2 = page2
  None = None
  ManifestName = ManifestName
  SignatureName = SignatureName
  OtherName = OtherName
  PublisherKey = PublisherKey
  OtherKey = OtherKey
  PathOrder <- MCPaths
  Kinds = {"base", "patch", "dlc", "mod"}
  Contents = {small, huge, touched}
  Size <- MCSize
  ZstdSize <- MCZstdSize
  Streams <- MCStreamsOfTouched
  StreamSize <- MCStreamSize
  ZstdStreamSize <- MCZstdStreamSize
  MinCompressBytes = 4096
  Expansion = 64
  Slack = 1048576
  MaxEntries = 5
  ManifestSize <- MCManifestSize
  MaxManifestBytes = 4194304
  Drafts <- MCChain
  Trust <- MCTrust
  MinEpoch = 1
  Rollouts = {100}
  Epochs = {1}
  Times <- MCTimes
  MaxShelf = 2
  MaxListed = 2
INVARIANTS
  BuiltPatchesRead
