SPECIFICATION FirmwareSpec
CONSTANTS
  Releases = {"1@dev", "1-dev@stable"}
  Files = {"rebooter-1-dev"}
  Channels = {"dev", "stable"}
  FinalName <- MCFinalName
  ChannelOf <- MCChannelOf
  VersionOf <- MCVersionOf
  Parsed <- MCParsed
  Contents = {"a", "b"}
  Workers = {w1, w2}
  MaxAssign = 2
  MaxOps = 4
  MaxFaults = 1
INVARIANTS ReleaseServesItsHash OlderNeverResumes
PROPERTY RolloutEnds
CHECK_DEADLOCK FALSE
