SPECIFICATION Spec
CONSTANTS
    a = a
    b = b
    Channels = {a}
    MaxChannelsPerConnection = 1
    MaxConnections = 4
    MaxCommands = 2
    MaxWhispers = 0
    MaxCloses = 0
    MaxPanics = 1
    MaxRefusals = 0
SYMMETRY ChannelSymmetry
INVARIANTS CountsConnectionsMade
CHECK_DEADLOCK FALSE
