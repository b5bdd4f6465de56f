SPECIFICATION Spec
CONSTANTS
    MaxWaiting = 2
    TimePerMessage = 2
    MaxTime = 8
    MaxMessages = 8
INVARIANTS TrimIsHarmless
CHECK_DEADLOCK FALSE
