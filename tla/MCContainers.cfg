SPECIFICATION MCSpec

CONSTANTS
    Objects = {a, b}
    Garbage = Garbage
    Null = Null
    InitialCapa = 2
    EntrySize = 16
    PtrSize = 8
    MaxCapa = 8
    Keys = {"k1", "k2", "k3"}
    Owned = {o1, o2, o3}
    Borrowed = {name}
    Size = 2
    Hash <- MCHash
    Mine = {m1, m2, m3}
    Others = {x}
    ListCapa = 2
    MaxLength = 5

INVARIANTS RingConsistent OldestFirstUnlessMoved TableOK ListCorrect
PROPERTIES ImplementsMap WalkComplete
