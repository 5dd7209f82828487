\* Two undos of one window against the reaper, one crash.
CONSTANTS
  Reversers = {"undo1", "undo2"}
  Reapers = {"reaper"}
  MaxWindows = 1
  MaxCrashes = 1
SPECIFICATION Spec
INVARIANTS TypeOK ReversalClaimsAreTrue
PROPERTIES WindowEndsOnce LosingReaperLeavesItem WindowsEnd
