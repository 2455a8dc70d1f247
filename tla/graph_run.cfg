SPECIFICATION Spec
CONSTANTS
  Proc = {"p1", "p2"}
  Scenario <- MCScenario
INVARIANTS
  TypeOK
  NeverDiverges
  RoutedByTheLog
  GateAnswersFit
  FoldVerdict
  FiresOnlyAcknowledged
  ProjectionAgrees
  AcceptedRuns
  ScriptRebuilds
CHECK_DEADLOCK FALSE
