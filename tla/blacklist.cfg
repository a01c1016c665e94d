SPECIFICATION ListSpec
CONSTANTS
  first = first
  rebuilt = rebuilt
  other = other
  third = third
  Files = {first, rebuilt, other, third}
  Identity <- MCIdentity
  Causes = {"io", "spec"}
  MaxEntries = 2
  MaxClock = 2
  TransientStrikes = 3
  TransientTtl = 1
INVARIANTS
  OneEntryPerFile
PROPERTIES
  ListActsAsMap
  RecordingKeepsBlocks
