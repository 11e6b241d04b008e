\* Two machines migrate, serve, and are stopped once.
SPECIFICATION FairSpec
CONSTANTS
    Machines = {m1, m2}
    LastFile = 2
    Limit = 2
    Window = 2
    DailyLimit = 1
    DayLength = 2
    MaxTime = 2
    MaxCalls = 4
    MaxStops = 1
INVARIANTS TypeOK TwiceOnlyInARace ServedOnMigrated WithinLimits
PROPERTIES RefusedOnlyWhenFull EveryoneServes
CHECK_DEADLOCK FALSE
