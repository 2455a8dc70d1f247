CONSTANTS
  r1 = r1
  r2 = r2
  k1 = k1
  k2 = k2
  i1 = i1
  i2 = i2
  p1 = p1
  p2 = p2
  o1 = o1
  o2 = o2
  Run = {r1, r2}
  Ident = {k1, k2}
  NoIdent = NoIdent
  Input = {i1, i2}
  Output = {o1}
  NoOutput = NoOutput
  Proc = {p1}
  NoEvent = NoEvent
  Nobody = Nobody
  Program <- Shared
  Verbs = {"start", "redrive"}
  MaxSeq = 6
  MaxMarks = 1
  MaxCrashes = 1
  MaxAttempts = 2
SPECIFICATION Spec
PROPERTY NeverLosesToItself
