SPECIFICATION FairSpec

CONSTANTS
    ReconnTicks = 3
    QuickReconnTicks = 2
    LoginTicks = 2
    IdleTicks = 2
    PingTicks = 4
    ConnTicks = 2
    ShutdownTicks = 2
    FullCredit = 9
    BlacklistHits = 2
    Tls = TRUE
    Channels = 1
    MaxQueue = 2
    MaxQuit = 2

CHECK_DEADLOCK FALSE

INVARIANT SessionConsistent
INVARIANT HandlersMatch
PROPERTY ImplementsSession
PROPERTY PhasesEnd
PROPERTY ShutdownEnds
PROPERTY StaysConnectedUnlessMute
