SPECIFICATION Spec

CONSTANTS
    Servers = {s1, s2, s3}
    MaxFd = 3
    WriteRecs = 1

SYMMETRY Symmetry

INVARIANT CountsExact
INVARIANT NoClosedFd
INVARIANT Watched
