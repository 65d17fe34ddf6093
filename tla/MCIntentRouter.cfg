SPECIFICATION Spec
CONSTANTS
    w1 = w1
    w2 = w2
    i1 = i1
    i2 = i2
    None = None
    Workers = {w1, w2}
    Defaults <- MCDefaults
    Unbound = {"custom.intent"}
    Ids = {i1, i2}
SYMMETRY MCSymmetry
INVARIANTS TypeOK RouterSettles AnsweredEventsStay CountNotInvented
PROPERTY EventsFlowOnce
