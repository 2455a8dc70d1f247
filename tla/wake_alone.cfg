CONSTANTS
  Plan <- Napper
  OneForm = FALSE
  Server = {s1}
  Proc = {p1, p2}
  Nobody = Nobody
  Deadlines = {0, 1}
  MaxClock = 1
  MaxMarks = 2
  MaxRequests = 0
  MaxCrashes = 1
  Operators = TRUE
  Streams = {s1}
SPECIFICATION FairSpec
CHECK_DEADLOCK FALSE
PROPERTIES DueRunWakes StreamsEnd
