SPECIFICATION FairSpec
CONSTANTS
    t1 = t1
    t2 = t2
    t3 = t3
    t4 = t4
    Tasks = {t1, t2, t3, t4}
    Permits = 2
    NewConnectionEvery = 2
    ConnectTimeout = 2
INVARIANTS PermitsAccounted ConnectionsSpaced
PROPERTIES EveryAttemptEnds
