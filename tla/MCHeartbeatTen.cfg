SPECIFICATION Spec
\* Real values, in minutes: HEARTBEAT_INTERVAL 10, heartbeat_timeout 15,
\* the checker every minute, an agent that polls at least every 10.
CONSTANTS
    Agents = {a1}
    Machines = {m1}
    Polls = {p1}
    NoOne = NoOne
    Interval = 10
    Timeout = 15
    Period = 1
    Spans = {}
    Undeliverable = {}
    Faults = {}
    MaxFaults = 0
    MaxGap = 10
    Horizon = 20
    OwnerHorizon = 0
    MaxTime = 20
INVARIANTS PollingKeepsAlive
CHECK_DEADLOCK FALSE
