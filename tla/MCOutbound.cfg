\* Two letters, between two agents or to a person, beside one page.
SPECIFICATION Spec
CONSTANTS
    Agents = {a1, a2}
    Contacts = {a1, a2, human, ghost}
    Ghost = ghost
    Operators = {o1}
    Idle = Idle
    MaxOps = 1
    NonceIds = {n1}
    Requests = {}
    Nobody = Nobody
    StartCredits = 1
    MaxGrants = 0
    MaxElsewhere = 1
    Sends = {s1, s2}
INVARIANTS TypeOK FreeOnlyInARace MoneyAccounted WholeOrNothing
SYMMETRY Symmetry
CHECK_DEADLOCK FALSE
CONSTRAINT Followed
