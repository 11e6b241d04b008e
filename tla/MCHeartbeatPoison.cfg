SPECIFICATION FairSpec
CONSTANTS
    Agents = {a1, a2}
    Machines = {m1}
    Polls = {p1}
    NoOne = NoOne
    Interval = 1
    Timeout = 2
    Period = 1
    Spans = {}
    Undeliverable = {a2}
    Faults = {"crash", "raise"}
    MaxFaults = 0
    MaxGap = 100
    Horizon = 1
    OwnerHorizon = 0
    MaxTime = 4
PROPERTIES SilenceReported
CHECK_DEADLOCK FALSE
