\* Two dispatchers, two gateways.
SPECIFICATION FairSpec
CONSTANTS
    Dispatcher = {w1, w2}
    Gateway = {g1, g2}
    MaxAttempts = 2
    MaxFaults = 1
    MaxLosses = 1
INVARIANTS
    FailedNeverSent
    AckNeverErased
    OneSendPerLoss
PROPERTIES
    Settled
    EventuallySettled
CHECK_DEADLOCK FALSE
