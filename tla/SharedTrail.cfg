SPECIFICATION Spec
CONSTANTS
  Requests = {r1, r2, r3}
  Tenants = {t1, t2}
  Prefixes = {x1}
  Rests = {y1, y2}
  Nil = Nil
  Faults = {}
  AskedLimits = {2, 3}
  DefaultLimit = 1
  MaxLimit = 2
  MaxEntries = 3
  MaxStamp = 2
SYMMETRY Symmetry
CHECK_DEADLOCK FALSE
INVARIANTS TrailOfOneToken
