CONSTANTS
  r1 = r1
  r2 = r2
  e1 = e1
  e2 = e2
  Run = {r1, r2}
  Ident = {k1}
  Event = {e1}
  NoEvent = NoEvent
  Nobody = Nobody
  Conn = {c1, c2}
  NoConn = NoConn
  Inherited <- NewFile
  MaxSeq = 1
  MaxEdits = 0
SPECIFICATION Spec
SYMMETRY Symmetry
INVARIANT ViewsAreCurrent
PROPERTIES ImplementsContract AnchorsHold
