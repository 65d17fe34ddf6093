SPECIFICATION Spec
CONSTANTS
    w1 = w1
    w2 = w2
    w3 = w3
    t1 = t1
    t2 = t2
    m1 = m1
    m2 = m2
    m3 = m3
    m4 = m4
    None = None
    Workers = {w1, w2}
    Tenants = {t1, t2}
    MemoryIds = {m1, m2, m3}
    Plans = {"pro", "legacy"}
    PLAN_RECORD_CAPS <- MCCaps
    MaxFaults = 1
SYMMETRY MCSymmetry
INVARIANTS TypeOK AckedCreateDurable AckedDeleteFinal OvershootBounded
PROPERTIES OnlyOwnerDeletes RecordsLiveOnce
