SPECIFICATION FairSpec

CONSTANTS
    Instances = {i1, i2, i3}
    None = None

CHECK_DEADLOCK FALSE

INVARIANT OneDaemon
INVARIANT PidfileNamesDaemon
INVARIANT LockHeld
PROPERTY RefusedByDaemon
PROPERTY StartEnds
