\* Two POSTs race for two nonces; no page is open.
SPECIFICATION Spec
CONSTANTS
    Agents = {a1, a2}
    Contacts = {c1}
    Operators = {}
    Idle = Idle
    MaxOps = 0
    NonceIds = {n1, n2}
    Requests = {q1, q2}
    Nobody = Nobody
    StartCredits = 1
    MaxGrants = 1
    NoTok = NoTok
    Forged = Forged
    StopKey = StopKey
    BadKey = BadKey
    KnockLimit = 1
INVARIANTS TypeOK NonceSpentOnce DoorKnock ChargedOnce
SYMMETRY Symmetry
CHECK_DEADLOCK FALSE
