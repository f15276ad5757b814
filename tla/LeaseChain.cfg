CONSTANTS
    Silence = 2
    Renewal = 1
    HostTotal = 6
    GuestTotal = 6
    BootTotal = 2
    MaxSeq = 2
    MaxTime = 12
SPECIFICATION FairSpec
INVARIANTS InStep OrphanBound NeverBroken
PROPERTY OrphansEnd
CHECK_DEADLOCK FALSE
