SPECIFICATION FairSpec
CONSTANTS
    t1 = t1
    t2 = t2
    t3 = t3
    None = None
    Endless = Endless
    Tasks = {t1, t2, t3}
    Lifetimes = {10, Endless}
    Day = 20
    Configured = None
    Names = {"bot", "renamed"}
    Steps = {9, 10}
    MaxTime = 20
    MaxFaults = 1
INVARIANTS RefreshTokenUnused TokenKept HandsOutStored
PROPERTIES EveryCallEnds
