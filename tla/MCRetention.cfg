SPECIFICATION FairSpec
CONSTANTS
    w1 = w1
    t1 = t1
    t2 = t2
    r1 = r1
    r2 = r2
    r3 = r3
    None = None
    Scheduler = Scheduler
    Workers = {w1}
    Tenants = {t1, t2}
    Records = {r1, r2, r3}
    Watched = {r1}
    SearchLimit = 2
    RecordCap <- MCCap
    Keeps = {1}
    DispatchKeeps <- MCDispatchKeeps
    SchedulerKeeps <- MCKeeps
    KeepFloor = 1
    MaxAges = {0}
    DispatchAges <- MCDispatchAges
    SchedulerAge = 0
    Stale = 1
    MaxFaults = 1
INVARIANT TypeOK
PROPERTIES PruneSparing KeepsRecent StaleGoes
