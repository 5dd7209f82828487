\* NetSuite, SAP: the bill is looked up first, keys are not replayed.
CONSTANTS
  k1 = k1
  k2 = k2
  Keys = {k1, k2}
  KeyOf <- TwoDecisions
  ResumeKey = resume
  People = {"click1", "click2"}
  Drains = {"drain"}
  Others = {"other"}
  InitStates = {"needs_approval"}
  LooksUp = TRUE
  HonoursKey = FALSE
  MaxRetries = 2
  MaxSlips = 1
  MaxEvents = 1
SPECIFICATION Spec
INVARIANTS TypeOK ExtraBillsNeedASlip PostedHasBill SuccessClaimsAreTrue
PROPERTIES ImplementsExternalEffect BoxLockIsReleased
CHECK_DEADLOCK FALSE
