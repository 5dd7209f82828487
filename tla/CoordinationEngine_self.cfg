\* No fault: one worker and two deliveries, the mail and the approval.
CONSTANTS
    mail = mail  receipt = receipt  poll = poll
    approval = approval  timer = timer  None = None
    Events <- MCEvents
    KindOf <- MCKindOf
    MaxDeliveries = 2  MaxRedeliveries = 1  Workers = 1  MaxTries = 0  MaxFaults = 0
SPECIFICATION Spec
INVARIANT HeldByAnother
\* When all deliveries are done nothing is left to do.
CHECK_DEADLOCK FALSE
