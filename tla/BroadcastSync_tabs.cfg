SPECIFICATION FairSpec
CONSTANTS
    Tab = {t1, t2}
    Event = {e1, e2}
    Flag = {f1}
    MaxToggles = 2
    MaxOpens = 3
INVARIANTS
    BroadcastInv
    NoDuplicateEvents
    LocksAgree
PROPERTIES
    EventuallyShown
CHECK_DEADLOCK FALSE
