SPECIFICATION WatchdogFairSpec
CONSTANTS
    Rule = {r1}
    Target = {t1, t2}
    FailureThreshold = 2
    RecoveryThreshold = 2
    Window = 1
    Cooldown = 2
PROPERTIES CooldownHolds Rearms BindingFollows
