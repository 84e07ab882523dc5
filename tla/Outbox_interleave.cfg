\* Four concurrent requests of every kind at one instant, or two over time.
SPECIFICATION Spec
CONSTANTS
    NoReq = NoReq
    Req = {r1, r2, r3, r4}
    Msg = {m1, m2}
    Ops = {"message", "enable", "disable", "disband", "create", "fetch"}
    Cap = 1
    Ttl = 1
    TombTtl = 1
    MaxTime = 1
SYMMETRY Symmetry
CONSTRAINT ClockBound
INVARIANTS
    TypeOK
    WipedRowsStayGone
    OffMeansEmpty
    HeardMeansWiped
PROPERTIES
    ImplementsToggle
CHECK_DEADLOCK FALSE
