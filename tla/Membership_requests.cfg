\* Requests of every kind on one room, with time passing.
SPECIFICATION Spec
CONSTANTS
    NoToken = NoToken
    Req = {r1, r2, r3, r4}
    Token = {t1, t2}
    Ops = {"create", "look", "approve", "member", "presence", "leave", "disband"}
    Fresh = 2
    PresenceTtl = 1
    Wait = 1
    PresenceEvery = 1
    PendingTtl = 1
    PendingEvery = 1
    MaxTime = 3
SYMMETRY Symmetry
INVARIANTS
    TypeOK
    TablesAreSound
PROPERTIES
    TokensAreSound
CHECK_DEADLOCK FALSE
