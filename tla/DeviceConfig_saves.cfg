SPECIFICATION ConfigSpec
CONSTANTS
  Managed = TRUE
  Modes = {"smart_plug", "internet_watchdog"}
  Threads = {w1, w2}
  Reports <- PartialOrFull
  MaxSaves = 3
  MaxPushes = 2
  MaxEvents = 3
INVARIANT PushesMoveForward
PROPERTIES FormKeepsConfig DriftVerdictSettles RecoveryIsRepaired
CHECK_DEADLOCK FALSE
