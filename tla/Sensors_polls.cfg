SPECIFICATION SensorsSpec
CONSTANTS
  Sources = {"s1", "s2"}
  Fleets <- MCFleets
  Topics = {"door", "noise"}
  Interval = 1
  MaxAge = 1
  Threshold = 1
  ScanLimit = 2
  CounterMax = 1
INVARIANTS SilenceIsNoEvidence ErrorRuleNeedsErrors
PROPERTIES SourcesArePolled
