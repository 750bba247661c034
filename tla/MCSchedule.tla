---------------------------- MODULE MCSchedule ----------------------------
(* Schedule on a small instance.  A day is two units long; one schedule    *)
(* cycles power every day or opens a window every week, the other opens a  *)
(* window once.  The third request for the first is refused.               *)
EXTENDS Schedule

CONSTANTS s1, s2

Of(kind, recurrence, weekdays, start_at, duration) ==
    [kind |-> kind, recurrence |-> recurrence, at |-> 1, weekdays |-> weekdays,
     start_at |-> start_at, duration |-> duration]

SmallSchedule == {s1, s2}
SmallConfig ==
    [s \in SmallSchedule |->
        IF s = s1
        THEN {Of("power_cycle", "daily", {}, NULL, 0),
              Of("maintenance", "weekly", {1}, NULL, 1),
              Of("power_cycle", "weekly", {}, NULL, 0)}
        ELSE {Of("maintenance", "once", {}, 2, 1)}]
=============================================================================
