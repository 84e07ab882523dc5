\* Joining, leaving, writing, answering, locking and scrolling.
SPECIFICATION PhoneSpec
CONSTANTS
    Token = {t1, t2}
    Knock = {k1, k2}
    Room = {a, b}
    None = None
    Members = 2
    MaxTry = 1
    MaxPing = 2
    MaxLost = 2
    MaxEnter = 3
    Place = {a, b, c}
    Agent = {a, b}
    Control = ct
    Spawned = {s1}
    Chat = {p1}
    MaxActs = 6
    MaxSwitch = 2
    MaxUnanswered = 1
    MaxAge = 1
    MaxTime = 4
    PageSize = 1
    Cap = 3
    InitialTail = 2
    MaxItem = 5
    MaxLength = 5
    MaxBatch = 2
SYMMETRY Symmetry
CONSTRAINT SeatBound
INVARIANTS
    AllTypesOK
    DraftsAreSound
    LockHolds
PROPERTIES
    SeatIsSound
    RoomsAreKept
    WindowStays
CHECK_DEADLOCK FALSE
