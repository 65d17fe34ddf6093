SPECIFICATION ChatSpec
CONSTANTS
    w1 = w1
    w2 = w2
    t1 = t1
    t2 = t2
    None = None
    Unparsable = Unparsable
    Workers = {w1}
    Tenants = {t1}
    Plans = {"pro", "legacy"}
    PLAN_LIMITS <- MCLimits
    MaxDay = 1
    MaxRequests = 1
    Intents = {"code"}
    Agents = {"ops", "res", "nobody"}
    Messages <- MCMessages
    Deployments <- MCDeployments
PROPERTY AgentsAreRun
