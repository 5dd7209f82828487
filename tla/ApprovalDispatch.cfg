\* Two dispatchers, the reaper, one writer of the metadata.
CONSTANTS
  Dispatchers = {"intake", "intent"}
  Reapers = {"reaper"}
  Scribes = {"scribe"}
  MaxCalls = 2
  MaxEvents = 2
SPECIFICATION Spec
INVARIANTS TypeOK ExtraCardsNeedASlip DispatchedHasThread
PROPERTIES RoutedItemsGetNoCard OrphansAreRecovered
