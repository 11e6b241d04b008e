\* Two overlapping polls of an inbox around midnight, and a contact change.
SPECIFICATION FairSpec
CONSTANTS
    Messages = {m1, m2}
    Polls = {p1, p2}
    Plain = Plain
    Sealable = {m2}
    Heavy = {m1}
    TotpWindow = 1
    StartTime = 2879
    MaxTime = 2881
    MaxClearing = 1
    MaxFailures = 1
INVARIANTS TypeOK NothingVanishes NotTwice CompleteWhenSettled
PROPERTIES RefusedForAReason InboxDrains
CHECK_DEADLOCK FALSE
