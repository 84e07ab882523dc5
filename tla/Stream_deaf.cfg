\* A subscription that a failed answer leaves deaf for good.
SPECIFICATION FairSpec
CONSTANTS
    Floor = 2
    MaxTime = 3
    MaxFault = 5
PROPERTIES
    SelfHeals
CHECK_DEADLOCK FALSE
