SPECIFICATION Spec
CONSTANTS
    w1 = w1
    t1 = t1
    t2 = t2
    s1 = s1
    s2 = s2
    None = None
    Workers = {w1}
    Tenants = {t1}
    Sessions = {s1, s2}
    Watched = {s1}
    Cancelled = {s1}
    PaidPlans = {"pro"}
    Modes = {"signed"}
    MaxHeld = 0
PROPERTY UpgradesPaidFor
