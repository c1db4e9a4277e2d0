SPECIFICATION Spec
CONSTANTS
  Forwards = {f1}
  Positions = {i1, i2}
  Tenants = {t1}
  PANs = {p1}
  CVVs = {c1}
  TokenIDs = {k1, k2}
  Nil = Nil
  Plain = Plain
  Zeros = Zeros
  Faults = {}
  ReadTimeout = 1
  DetokenizeTimeout = 1
  ForwardTimeout = 3
  WriteTimeout = 3
CHECK_DEADLOCK FALSE
INVARIANTS ProviderErrorHeard
