SPECIFICATION FairTimedSpec
CONSTANTS
  Requests = {r1, r2}
  Tenants = {t1}
  PANs = {p1}
  CVVs = {c1}
  Invalid = Invalid
  Nil = Nil
  Ops = {"tokenize", "detokenize", "status", "deactivate"}
  Faults = {"redis", "crash"}
  MaxInFlight = 2
  CVVTTL = 3
CHECK_DEADLOCK FALSE
INVARIANTS TimedTypeOK OwnerOutlivesToken StatusSeesWhatDetokenizeReveals
PROPERTIES ImplementsTokenizer EveryCVVGoes EveryRequestAnswered IssuedTokensBecomeRevealable
