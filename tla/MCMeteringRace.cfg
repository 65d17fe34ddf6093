SPECIFICATION Spec
CONSTANTS
    w1 = w1
    w2 = w2
    w3 = w3
    t1 = t1
    t2 = t2
    None = None
    Workers = {w1, w2}
    Tenants = {t1}
    Plans = {"pro", "legacy"}
    PLAN_LIMITS <- MCLimits
    MaxDay = 1
    MaxRequests = 4
SYMMETRY MCSymmetry
INVARIANT DailyAllowanceKept
