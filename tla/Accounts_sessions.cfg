SPECIFICATION Spec
CONSTANTS
  Emails = {"root", "ann"}
  Root = "root"
  Roles = {"super_admin", "admin"}
  Workers = {w1, w2}
  TTL = 1
  MaxTime = 1
  MaxPassword = 2
  MaxCreds = 5
  MaxRows = 1
  MaxOps = 4
SYMMETRY Threads
INVARIANTS OldPasswordEnds AccountMeansConsumed RejectedNeverJoins
PROPERTY EndedStaysEnded
