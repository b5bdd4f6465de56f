SPECIFICATION Spec
CONSTANTS
    k1 = k1
    k2 = k2
    c1 = c1
    c2 = c2
    Callers = {k1, k2}
    Connections = {c1, c2}
    MaxCalls = 2
    MaxEvents = 1
INVARIANTS LoopOutlivesHandles
