\* A reader in two rooms, a message of each side, rows that age out.
SPECIFICATION Spec
CONSTANTS
    NoRoom = NoRoom
    NoMsg = NoMsg
    Own = {o1}
    Theirs = {n1}
    Room = {a, b}
    Task = {t1, t2}
    MaxTime = 2
    MaxOpen = 2
SYMMETRY Symmetry
CONSTRAINT OverlapBound
INVARIANTS
    SavedIsShown
PROPERTIES
    AnsweredIsKept
    ShownTextStays
CHECK_DEADLOCK FALSE
