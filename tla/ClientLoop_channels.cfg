SPECIFICATION FairSpec
CONSTANTS
    a = a
    b = b
    Channels = {a, b}
    MaxChannelsPerConnection = 1
    MaxConnections = 5
    MaxCommands = 2
    MaxWhispers = 0
    MaxCloses = 1
    MaxPanics = 1
    MaxRefusals = 1
INVARIANTS NoUnwrapFails WantedOnce LimitRespected WantedAsAsked TrafficMatchesWanted MirrorsServer
PROPERTIES EventuallyJoined
CHECK_DEADLOCK FALSE
