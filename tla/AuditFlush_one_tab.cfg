SPECIFICATION FairSpec
CONSTANTS
    Tab = {t1}
    Event = {e1, e2}
    MaxRetry = 2
    MaxOpens = 2
    Disturbance = {"offline", "slow", "prefs", "close"}
INVARIANTS
    RetentionInv
    ConfirmedNotRequeued
PROPERTIES
    EventuallyReceived
