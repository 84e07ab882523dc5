\* Two agent rooms over three lives of the daemon.
SPECIFICATION FairSpec
CONSTANTS
    Room = {a1, a2}
    MaxBoot = 3
    MaxSave = 2
INVARIANTS
    FileIsSound
PROPERTIES
    SessionsEndForCause
    GhostsGo
CHECK_DEADLOCK FALSE
