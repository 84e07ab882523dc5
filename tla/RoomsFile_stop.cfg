\* A turn that ends while the daemon stops.
SPECIFICATION Spec
CONSTANTS
    Room = {a1, a2}
    MaxBoot = 1
    MaxSave = 3
SYMMETRY Symmetry
PROPERTIES
    StopKeepsRooms
CHECK_DEADLOCK FALSE
