\* Two claims that overlap.
SPECIFICATION Spec
CONSTANTS
    Session = {s1}
    Replica = {r1, r2}
    NoOwner = none
    AppSession = {}
    Hook = {}
    Kind = {"chat"}
    Batch = 1
    MaxAttempts = 2
    MaxEvents = 2
    MaxAppChanges = 0
    MaxFaults = 0
INVARIANTS
    InOrder
SYMMETRY Symmetry
CHECK_DEADLOCK FALSE
