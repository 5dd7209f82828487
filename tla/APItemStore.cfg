CONSTANTS
  Callers = {c1, c2}
  InitStates <- MCInitStates
  Targets <- MCTargets
  FlagAttempts = 2
  MaxVersion = 4
SPECIFICATION Spec
SYMMETRY MCSymmetry
INVARIANTS TypeOK NoLostFlag
PROPERTY GatedWritesAreLegal
CHECK_DEADLOCK FALSE
