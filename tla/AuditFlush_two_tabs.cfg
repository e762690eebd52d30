SPECIFICATION Spec
CONSTANTS
    Tab = {t1, t2}
    Event = {e1, e2}
    MaxRetry = 1
    MaxOpens = 2
    Disturbance = {"slow"}
SYMMETRY Symmetry
INVARIANTS
    RetentionInv
PROPERTIES
    ImplementsRetention
