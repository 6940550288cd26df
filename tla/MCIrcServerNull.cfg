SPECIFICATION Spec

CONSTANTS
    ReconnTicks = 3
    QuickReconnTicks = 2
    LoginTicks = 2
    IdleTicks = 2
    PingTicks = 1
    ConnTicks = 2
    ShutdownTicks = 2
    FullCredit = 9
    BlacklistHits = 2
    Tls = FALSE
    Channels = 1
    MaxQueue = 1
    MaxQuit = 0

CHECK_DEADLOCK FALSE

INVARIANT NoNullUse
