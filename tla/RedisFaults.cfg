SPECIFICATION Spec
CONSTANTS
  Requests = {r1, r2, r3}
  Tenants = {t1}
  PANs = {p1}
  CVVs = {c1}
  Invalid = Invalid
  Nil = Nil
  Ops = {"tokenize", "detokenize", "status", "deactivate"}
  Faults = {"redis", "crash"}
  MaxInFlight = 3
SYMMETRY Symmetry
CHECK_DEADLOCK FALSE
INVARIANTS TypeOK AuditComplete NoAnswerFromDeadToken CVVSingleUse SomeCVVSurvives OwnerInv AnswerInv
PROPERTIES ImplementsContract
