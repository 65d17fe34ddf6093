SPECIFICATION FairSpec
CONSTANTS
    w1 = w1
    t1 = t1
    t2 = t2
    r1 = r1
    r2 = r2
    r3 = r3
    None = None
    Scheduler = Scheduler
    Workers = {}
    Tenants = {t1, t2}
    Records = {r1, r2}
    Watched = {r1}
    SearchLimit = 2
    RecordCap <- MCCap
    Keeps = {1}
    DispatchKeeps = {}
    SchedulerKeeps = {1}
    KeepFloor = 1
    MaxAges = {0}
    DispatchAges = {}
    SchedulerAge = 0
    Stale = 1
    MaxFaults = 0
PROPERTY StaleGoesForAll
