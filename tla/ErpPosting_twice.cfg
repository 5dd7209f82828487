\* Xero: keys are replayed, no bill is looked up.
CONSTANTS
  k1 = k1
  k2 = k2
  Keys = {k1, k2}
  KeyOf <- TwoDecisions
  ResumeKey = resume
  People = {"click1", "click2"}
  Drains = {"drain"}
  Others = {"other"}
  InitStates = {"needs_approval"}
  LooksUp = FALSE
  HonoursKey = TRUE
  MaxRetries = 1
  MaxSlips = 0
  MaxEvents = 0
SPECIFICATION Spec
INVARIANT AtMostOneBill
CHECK_DEADLOCK FALSE
