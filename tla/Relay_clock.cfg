\* Appends, retries and switch-offs with time passing; pushes; rate limits.
SPECIFICATION RelaySpec
CONSTANTS
    NoReq = NoReq
    Req = {r1, r2, r3}
    Msg = {m1, m2}
    Ops = {"message", "disable"}
    Cap = 1
    Ttl = 0
    TombTtl = 1
    MaxTime = 2
    Room = {a, b}
    Quiet = {b}
    Request = {q1, q2, q3}
    Client = {c1}
    None = None
    MaxMark = 5
    MaxEndpoint = 2
    MaxLost = 1
    MaxFlight = 2
    Limit = 1
    Window = 2
    Keep = 2
    MaxTick = 3
INVARIANTS
    PushesForCause
    LimitHolds
PROPERTIES
    RowsOnlyAge
    WipeFollows
CHECK_DEADLOCK FALSE
