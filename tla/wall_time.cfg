SPECIFICATION Spec
CONSTANTS
  Proc = {"p1"}
  Tool <- MCTool
  Effect <- MCEffect
  Outcomes <- MCOutcomes
  Gate = {"approve"}
  Agents <- MCSleeper
  Usage = 2
  Price = 1
  Bits = {0}
  Nap = 1
INVARIANTS
  WallExcludesSleep
CHECK_DEADLOCK FALSE
