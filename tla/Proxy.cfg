SPECIFICATION SpecAllIssued
CONSTANTS
  Forwards = {f1, f2}
  Positions = {i1, i2}
  Tenants = {t1}
  PANs = {p1}
  CVVs = {c1}
  TokenIDs = {k1, k2}
  Nil = Nil
  Plain = Plain
  Zeros = Zeros
  Faults = {"network", "crash"}
  ReadTimeout = 1
  DetokenizeTimeout = 1
  ForwardTimeout = 1
  WriteTimeout = 5
SYMMETRY Symmetry
CHECK_DEADLOCK FALSE
INVARIANTS TypeOK PostsRevealedValues CVVPostedOnce NothingPostedOnFailure DeadTokensStayHome ServedInTime ProxyInv
