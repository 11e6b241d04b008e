SPECIFICATION FairSpec
CONSTANTS
    Agents = {a1}
    Contacts = {c1}
    Operators = {}
    Idle = Idle
    MaxOps = 0
    NonceIds = {}
    Requests = {}
    Nobody = Nobody
    StartCredits = 0
    MaxGrants = 6
    Sessions = {t1, t2}
    Deliveries = {d1, d2}
    NoSession = NoSession
    MaxExtra = 1
    MaxFailures = 2
INVARIANTS TypeOK TwiceOnlyInARace AnsweredIsCredited
PROPERTIES PaidIsCredited
CHECK_DEADLOCK FALSE
