\* A message is missed while the phone sends one of its own.
SPECIFICATION Spec
CONSTANTS
    NoRoom = NoRoom
    NoMsg = NoMsg
    Own = {o1}
    Theirs = {n1}
    Room = {a}
    Task = {t1}
    MaxTime = 3
    MaxOpen = 2
SYMMETRY Symmetry
PROPERTIES
    CatchUpLeavesNoGap
CHECK_DEADLOCK FALSE
