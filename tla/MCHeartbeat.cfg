SPECIFICATION Spec
CONSTANTS
    Agents = {a1}
    Machines = {m1, m2}
    Polls = {p1, p2}
    NoOne = NoOne
    Interval = 2
    Timeout = 3
    Period = 1
    Spans = {}
    Undeliverable = {}
    Faults = {"crash", "raise", "cap", "db"}
    MaxFaults = 1
    MaxGap = 100
    Horizon = 4
    OwnerHorizon = 0
    MaxTime = 4
INVARIANTS TypeOK OneMailPerOutage
PROPERTIES AlertJustified
SYMMETRY Symmetry
CHECK_DEADLOCK FALSE
