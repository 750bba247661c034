SPECIFICATION Spec
CONSTANTS
    Device = {d1}
    Thread = {t1, t2}
    Type = {"relay_cycle", "relay_off"}
    MaxCommands = 2
SYMMETRY GroupSymmetry
INVARIANTS HoldOffFollowsCommands
PROPERTIES LockoutHolds HeldOffStaysOff
CHECK_DEADLOCK FALSE
