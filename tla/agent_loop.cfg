SPECIFICATION Spec
CONSTANTS
  Proc = {"p1", "p2"}
  Tool <- MCTool
  Effect <- MCEffect
  Outcomes <- MCOutcomes
  Gate = {"approve"}
  Agents <- MCAgents
  Usage = 2
  Price = 1
  Bits = {0, 1}
  Nap = 1
INVARIANTS
  TypeOK
  NeverDiverges
  ReportAgrees
  ReaderAgrees
  StepsAreGranted
  GoesOnAsAwaited
  EndsAsDeclared
CHECK_DEADLOCK FALSE
