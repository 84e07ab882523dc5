\* Two schedules over two weeks of two days, and two lives of the daemon.
SPECIFICATION Spec
CONSTANTS
    NoTime = NoTime
    Sched = {s1, s2}
    Crons <- SomeCrons
    Week = 2
    Hours = 2
    MaxConcurrent = 1
    MaxTime = 3
    MaxBoot = 2
SYMMETRY Symmetry
INVARIANTS
    TypeOK
    EnabledIsArmed
    SavedFollows
PROPERTIES
    OncePerOccurrence
CHECK_DEADLOCK FALSE
