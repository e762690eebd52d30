SPECIFICATION Spec
CONSTANTS
    Tab = {t1}
    Event = {e1, e2}
    MaxRetry = 1
    MaxOpens = 1
    Disturbance = {}
INVARIANTS
    ZeroDataLoss
