\* No fault, one event a tick.
CONSTANTS
    h1 = h1  s1 = s1  bad = bad  NoEvent = NoEvent
    Events <- MCEvents
    HighEvents <- MCHigh
    PoisonEvents <- MCPoison
    Producers = {p1}
    Slots = {w1, w2}
    Limit = 1  MaxRetries = 0  Batch = 1
    MaxDispatch = 1  MaxFaults = 0
SPECIFICATION Spec
PROPERTY StandardEventsRead
\* Every worker may end up in the blocking read of the standard stream.
CHECK_DEADLOCK FALSE
