\* Rows of two sessions share batches, one of them an echo, and a session is deleted.
SPECIFICATION FairSpec
CONSTANTS
    s1 = s1
    s2 = s2
    m1 = m1
    Gateway = {g1}
    Online = {g1}
    NoGateway = none
    Session = {s1, s2}
    EventId = {1, 2, 3}
    NoEvent = 0
    SessionOf <- MixedSessionOf
    Message = {m1}
    NoMessage = nomsg
    EchoOf <- LastEchoOf
    SentIn <- LastSentIn
    BatchEntries = 2
    JournalCapacity = 3
    MaxAppends = 3
    MaxConnections = 2
    MaxRevision = 2
    MaxFaults = 0
INVARIANTS
    OnePublicEvent
PROPERTIES
    ImplementsContract
    EventuallyIngested
CHECK_DEADLOCK FALSE
