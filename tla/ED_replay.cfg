\* Two events: replay, deletion and acknowledgement under one fault.
SPECIFICATION Spec
CONSTANTS
    s1 = s1
    s2 = s2
    m1 = m1
    Gateway = {g1}
    Online = {g1}
    NoGateway = none
    Session = {s1}
    EventId = {1, 2}
    NoEvent = 0
    SessionOf <- PlainSessionOf
    Message = {}
    NoMessage = nomsg
    EchoOf <- PlainEchoOf
    SentIn <- FirstSentIn
    BatchEntries = 2
    JournalCapacity = 2
    MaxAppends = 2
    MaxConnections = 2
    MaxRevision = 2
    MaxFaults = 1
INVARIANTS
    OrderedLog
    AckMatchesBatch
    IngestNeverConflicts
CHECK_DEADLOCK FALSE
