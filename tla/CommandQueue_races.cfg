SPECIFICATION FairSpec
CONSTANTS
    Device = {d1}
    Cmd = {c1}
    Thread = {t1, t2}
    Reports <- AckThenCompleted
    Ttl = 2
    Grace = 1
    MaxTime = 3
    MaxWire = 1
INVARIANTS RowsAreSound CancelIsEffective
PROPERTIES GraceAfterDelivery LiveSettles
CHECK_DEADLOCK FALSE
