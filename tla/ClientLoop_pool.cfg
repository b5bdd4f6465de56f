SPECIFICATION Spec
CONSTANTS
    a = a
    b = b
    Channels = {a}
    MaxChannelsPerConnection = 1
    MaxConnections = 5
    MaxCommands = 2
    MaxWhispers = 3
    MaxCloses = 2
    MaxPanics = 1
    MaxRefusals = 0
SYMMETRY ChannelSymmetry
INVARIANTS PoolAccounted StaysConnected GaugesCurrent WhisperConnectionLives WhisperExactlyOnce
CHECK_DEADLOCK FALSE
