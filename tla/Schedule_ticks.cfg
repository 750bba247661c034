SPECIFICATION ScheduleFairSpec
CONSTANTS
    s1 = s1
    s2 = s2
    Schedule <- SmallSchedule
    Config <- SmallConfig
    Day = 2
    MaxTime = 4
    MaxLost = 1
PROPERTIES OncePerDueTime DueRunsAreTaken MaintenanceFollowsWindows
