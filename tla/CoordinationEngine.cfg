\* Events that differ in kind, three deliveries on two workers, one fault.
CONSTANTS
    mail = mail  receipt = receipt  poll = poll
    approval = approval  timer = timer  None = None
    Events <- MCEvents
    KindOf <- MCKindOf
    MaxDeliveries = 3  MaxRedeliveries = 1  Workers = 2  MaxTries = 1  MaxFaults = 1
SPECIFICATION Spec
INVARIANTS TypeOK RecordedBeforeRun ActionsRunOnce ExecutingRowsAreClosed EnginesTakeTurns
PROPERTY LockIsReleased
\* When all deliveries are done nothing is left to do.
CHECK_DEADLOCK FALSE
