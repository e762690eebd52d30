SPECIFICATION Spec
CONSTANTS
    Tab = {t1, t2}
    Event = {}
    Flag = {f1}
    MaxToggles = 3
    MaxOpens = 2
INVARIANTS
    NoFragmentation
CHECK_DEADLOCK FALSE
