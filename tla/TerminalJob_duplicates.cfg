SPECIFICATION Spec
CONSTANTS
    Caller = {c1, c2}
    RunKey = {r1}
    EvidenceKey = {}
    HandKey = {h1}
    MaxRetries = 1
INVARIANTS
    NoDuplicateEffects
CHECK_DEADLOCK FALSE
