SPECIFICATION Spec
CONSTANTS
  Requests = {r1, r2, r3}
  Tenants = {t1}
  PANs = {p1}
  CVVs = {c1}
  Invalid = Invalid
  Nil = Nil
  Ops = {"tokenize", "detokenize", "deactivate"}
  Faults = {"db", "kms"}
  MaxInFlight = 2
SYMMETRY Symmetry
CHECK_DEADLOCK FALSE
INVARIANTS DeterministicTokens NoAnswerFromDeadToken Inv
