SPECIFICATION Spec
CONSTANTS
  Orgs = {"o1", "o2"}
  DefaultOrg = "o1"
  Closed = {"o2"}
  Users = {"ann"}
  Supers = {"ann"}
  Sites = {"Default", "s1"}
  Named = {"s1"}
  DefaultSite = "Default"
  Threads = {t1, t2}
  TTL = 1
  MaxTime = 1
  MaxRequests = 2
  MaxChanges = 1
SYMMETRY Pool
INVARIANT OnlyOwnRows
PROPERTY DecisionIsCurrent
CHECK_DEADLOCK FALSE
