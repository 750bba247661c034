SPECIFICATION Spec
CONSTANTS
  Plugs = {p1}
  Forms = {"bare", "colon"}
  Workers = {w1, w2}
  MaxTokens = 3
  MaxDevices = 2
  MaxOps = 3
  MaxFaults = 2
INVARIANTS TokenRegistersOneDevice DuplicateNeedsRace OfferedTokenIsFresh
PROPERTY PlugHeals
CHECK_DEADLOCK FALSE
