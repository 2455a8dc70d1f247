CONSTANTS
  r1 = r1
  r2 = r2
  e1 = e1
  e2 = e2
  Run = {r1, r2}
  Ident = {}
  Event = {e1, e2}
  NoEvent = NoEvent
  Nobody = Nobody
  Conn = {c1, c2}
  NoConn = NoConn
  Inherited <- OldFile
  MaxSeq = 2
  MaxEdits = 1
SPECIFICATION Spec
SYMMETRY OldSymmetry
INVARIANTS ServedIsAppended NoFalseAlarm
