\* A caller of a key, three events around a replay of at most two.
SPECIFICATION FairSpec
CONSTANTS
    Caller = {c1}
    MaxEvents = 3
    ReplayLimit = 2
    MaxNotices = 1
    MaxFaults = 1
INVARIANTS
    AllDueIsSent
PROPERTIES
    NoGrantAfterRevocation
    RevokedEventually
CHECK_DEADLOCK FALSE
