SPECIFICATION FairSpec

CONSTANTS
    Nicks = {"a", "b"}
    JoinSyncTicks = 1
    RejoinTicks = 2
    MaxInFlight = 3
    MaxEvents = 3

CHECK_DEADLOCK FALSE

INVARIANT OnePursuit
INVARIANT MembershipKnown
INVARIANT NicksComplete
PROPERTY TriesAgain
