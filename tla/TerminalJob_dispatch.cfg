SPECIFICATION FairSpec
CONSTANTS
    Caller = {c1, c2, c3}
    RunKey = {r1, r2}
    EvidenceKey = {r1}
    HandKey = {h1}
    MaxRetries = 2
INVARIANTS
    JobInv
    EffectOnce
PROPERTIES
    TerminalImmutable
    LocksReleased
CHECK_DEADLOCK FALSE
