SPECIFICATION Spec
CONSTANTS
  Hubs = {h1, h2}
  Keys = {k1, k2}
  Foreign = {k2}
  BatchLimit = 2
  MaxEdits = 3
  MaxClock = 2
  MaxFaults = 1
INVARIANT DeletedStaysDeleted
PROPERTIES ImplementsRegister Converges
CHECK_DEADLOCK FALSE
