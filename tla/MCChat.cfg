SPECIFICATION ChatSpec
CONSTANTS
    w1 = w1
    w2 = w2
    t1 = t1
    t2 = t2
    None = None
    Unparsable = Unparsable
    Workers = {w1, w2}
    Tenants = {t1, t2}
    Plans = {"pro", "legacy"}
    PLAN_LIMITS <- MCLimits
    MaxDay = 2
    MaxRequests = 3
    Intents = {"code"}
    Agents = {"ops", "res", "nobody"}
    Messages <- MCMessages
    Deployments <- MCDeployments
SYMMETRY MCSymmetry
INVARIANTS ChatTypeOK CounterSaturates ChargedForRequestsMade AgentsOfOneDeployment LastNotSuperseded
PROPERTIES DenialEarned FailoverComplete
