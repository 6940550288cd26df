SPECIFICATION Spec

CONSTANTS
    Nicks = {"a"}
    JoinSyncTicks = 1
    RejoinTicks = 2
    MaxInFlight = 3
    MaxEvents = 3

CHECK_DEADLOCK FALSE

INVARIANT JoinedMeansMember
