\* Two payments from the ERP and one typed in, three deliveries, a crash.
CONSTANTS
  Payments = {"bp1", "bp2", "wire"}
  Manual = {"wire"}
  Deliveries = {d1, d2, d3}
  Closers = {"reaper"}
  MaxCrashes = 1
SPECIFICATION Spec
SYMMETRY MCSymmetry
INVARIANTS TypeOK StatesAreBacked OneCallWalks ConfirmedItemsMove
PROPERTIES ImplementsAtMostOnce
