\* One event, one webhook: completion, delivery and retention.
SPECIFICATION FairSpec
CONSTANTS
    Session = {s1}
    Replica = {r1, r2}
    NoOwner = none
    AppSession = {}
    Hook = {h1}
    Kind = {"chat", "stop"}
    Batch = 2
    MaxAttempts = 2
    MaxEvents = 1
    MaxAppChanges = 0
    MaxFaults = 2
INVARIANTS
    RetentionKeepsOwedEvents
PROPERTIES
    EventuallySettled
CHECK_DEADLOCK FALSE
