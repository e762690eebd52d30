SPECIFICATION BackupSpec
CONSTANTS
    Tabs = {tab1, tab2}
    LongCycle = 3
    ShortCycle = 2
    MaxBackups = 2
    MaxLocks = 1
INVARIANT ResumedBacksUp
CHECK_DEADLOCK FALSE
