SPECIFICATION FairSpec
CONSTANTS
    r1 = r1
    r2 = r2
    Requests = {r1, r2}
    Awaited = {r1, r2}
    Metrics = FALSE
    MaxIncoming = 1
    MaxTicks = 0
    MaxFailures = 1
INVARIANTS AnswersAreTrue LoginComesFirst RequestsInOrder
PROPERTIES EveryRequestAnswered TasksEnd FailedWriteCloses SettlesLikeContract
CHECK_DEADLOCK FALSE
