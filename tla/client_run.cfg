CONSTANTS
  d1 = d1
  d2 = d2
  t1 = t1
  t2 = t2
  o1 = o1
  Driver = {d1, d2}
  Nobody = Nobody
  Task = {t1, t2}
  Call <- Calls
  NoCall = NoCall
  Decl <- Decls
  Programs <- Mixed
  Output = {o1}
  Altered = Altered
  NoOutput = NoOutput
  TTL = 1
  Upsets <- MixedUpsets
  MaxUpsets = 1
SPECIFICATION Spec
SYMMETRY Symmetry
INVARIANT TypeOK
INVARIANT LogIsLegal
INVARIANT ServerWritesOnce
INVARIANT ClaimsAgree
INVARIANT ToldTheTruth
 
