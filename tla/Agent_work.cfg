\* Turns, their statuses and answers, wrap, and the subscriptions under them.
SPECIFICATION AgentSpec
CONSTANTS
    NoRecord = NoRecord
    Msg = {m1, m2}
    Cap = 1
    Ttl = 1
    MaxTime = 2
    MaxCrash = 1
    MaxUnsent = 1
    Phone = {p1, p2}
    Text = {t1, t2, t3}
    Raw = Raw
    None = None
    MaxTurn = 2
    MaxLife = 2
    MaxLine = 1
    MaxSeq = 2
    MaxTs = 2
    MaxChunk = 2
    Floor = 2
    MaxSince = 3
    MaxFault = 5
    MaxPieces = 4
INVARIANTS
    AllTypesOK
    ReplyIsWhole
PROPERTIES
    RunOnce
    NoneIsStranded
    BubblesEnd
    StreamsHeal
CHECK_DEADLOCK FALSE
