\* Admissions, daemons, updates, the control room, its taps, and the skills.
SPECIFICATION HostSpec
CONSTANTS
    NoKey = NoKey
    Key = {d1, d2}
    Call = {c1, c2}
    KnockTtl = 0
    MaxTime = 1
    MaxKnock = 4
    MaxCrash = 1
    Process = {p1, p2, p3}
    Timer = {u1, u2}
    Command = {u3}
    Room = {r1, r2}
    KnockId = {k1, k2}
    Agent = {a1}
    Schedule = {s1}
    File = {"f", "g"}
    Bundle <- ThreeVersions
    MaxLife = 2
    MaxBatch = 2
    MaxTap = 2
    MaxJob = 1
    None = None
SYMMETRY Alike
CONSTRAINT HostBound
INVARIANTS
    AllTypesOK
    UpdatesAreSafe
PROPERTIES
    SocketIsOwned
    AdmissionsAreEarned
    TapsAreSound
    SkillsAreTracked
CHECK_DEADLOCK FALSE
