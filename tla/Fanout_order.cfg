\* Two replicas, two messages of any kind, an app that changes, a lease that runs out.
SPECIFICATION Spec
CONSTANTS
    Session = {s1}
    Replica = {r1, r2}
    NoOwner = none
    AppSession = {s1}
    Hook = {}
    Kind = {"chat", "login", "stop"}
    Batch = 2
    MaxAttempts = 2
    MaxEvents = 2
    MaxAppChanges = 1
    MaxFaults = 1
INVARIANTS
    OrderedUnlessOvertaken
    CompletedIsDelivered
    KeptStaysPrivate
SYMMETRY Symmetry
CHECK_DEADLOCK FALSE
