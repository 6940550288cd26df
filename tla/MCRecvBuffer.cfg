SPECIFICATION RecvSpec
CONSTANTS
    Bytes <- MCBytes
    Messages <- MCMessages
    MaxRead = 5
    MaxPartial = 13
    BufSize = 18
    MaxSent = 3
    MaxConnections = 2
INVARIANTS RecvTypeOK Framing Faithful
CHECK_DEADLOCK FALSE
