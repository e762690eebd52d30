SPECIFICATION TuningSpec
CONSTANTS
    Pages = {page1}
    TuningPages = {}
    Canonical11 = canonical
    Offered = {prop1}
    Probed = probe
    NoView = NoView
    MaxTrail = 5
    MaxLate = 1
CHECK_DEADLOCK FALSE
INVARIANT NoDuplicateExecution
