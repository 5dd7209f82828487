\* Two workers, a limit of one task, one crash or Redis error.
CONSTANTS
    h1 = h1  s1 = s1  bad = bad  NoEvent = NoEvent
    Events <- MCEvents
    HighEvents <- MCHigh
    PoisonEvents <- MCPoison
    Producers = {p1}
    Slots = {w1, w2}
    Limit = 1  MaxRetries = 1  Batch = 2
    MaxDispatch = 2  MaxFaults = 1
SPECIFICATION Spec
INVARIANTS TypeOK StreamEntryOnce SlotConservation ConcurrencyBounded
PROPERTIES HeldUntilRunOrAbandoned HighEventsRead
\* Every worker may end up in the blocking read of the standard stream.
CHECK_DEADLOCK FALSE
