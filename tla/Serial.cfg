SPECIFICATION TypedSpec
CONSTANTS
  Requests = {r1, r2, r3}
  Tenants = {t1, t2}
  PANs = {p1, p2}
  CVVs = {c1}
  Invalid = Invalid
  Nil = Nil
  Ops = {"tokenize", "detokenize", "status", "deactivate"}
  Faults = {}
  MaxInFlight = 1
  Typed <- MCTyped
SYMMETRY Symmetry
CHECK_DEADLOCK FALSE
INVARIANTS SerialInv RevealsWhatWasTokenized TokenizeSucceeds OneLiveCVV NoEmptyReveal AcceptsCardNumbersOnly CatchesTypingErrors
