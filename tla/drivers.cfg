CONSTANTS
  Plan <- Clerk
  OneForm = FALSE
  Server = {s1, s2}
  Proc = {p1, p2, p3}
  Nobody = Nobody
  Deadlines = {1}
  MaxClock = 1
  MaxMarks = 1
  MaxRequests = 2
  MaxCrashes = 1
  Operators = TRUE
  Streams = {}
SPECIFICATION Spec
CHECK_DEADLOCK FALSE
SYMMETRY Symmetry
INVARIANTS DriveInv ActiveIsDriven
PROPERTY ImplementsRun
