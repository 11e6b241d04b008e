\* Two POSTs among two pages of the owner and the operator.
SPECIFICATION Spec
CONSTANTS
    Agents = {a1}
    Contacts = {c1, c2}
    Operators = {o1}
    Idle = Idle
    MaxOps = 2
    NonceIds = {n1}
    Requests = {q1, q2}
    Nobody = Nobody
    StartCredits = 1
    MaxGrants = 0
    NoTok = NoTok
    Forged = Forged
    StopKey = StopKey
    BadKey = BadKey
    KnockLimit = 1
INVARIANTS RefusalJustified
PROPERTIES DoorPromise
SYMMETRY Symmetry
CHECK_DEADLOCK FALSE
