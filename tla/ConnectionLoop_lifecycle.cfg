SPECIFICATION Spec
CONSTANTS
    r1 = r1
    r2 = r2
    Requests = {}
    Awaited = {}
    Metrics = TRUE
    MaxIncoming = 2
    MaxTicks = 1
    MaxFailures = 1
INVARIANTS TypeOK NeverUnreachable
PROPERTIES ImplementsContract
CHECK_DEADLOCK FALSE
