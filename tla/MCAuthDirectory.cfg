SPECIFICATION Spec
CONSTANTS
    w1 = w1
    w2 = w2
    e1 = e1
    e2 = e2
    t1 = t1
    t2 = t2
    t3 = t3
    None = None
    Boot = Boot
    Workers = {w1, w2}
    Emails = {e1, e2}
    TenantIds = {t1, t2}
    Plans = {"free", "pro"}
    PlanNames = {"free", "pro"}
    Backends = {"memory", "redis"}
SYMMETRY MCSymmetry
INVARIANTS TypeOK UsersHaveTenants NoOrphanInRedis WarmStoreKeepsAcked WarmLoginsGetTokens
PROPERTY WarmPlanChangedBySetPlan
