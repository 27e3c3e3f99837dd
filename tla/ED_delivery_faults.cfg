\* A session that may leave the gateway, under one fault.
SPECIFICATION FairSpec
CONSTANTS
    s1 = s1
    s2 = s2
    m1 = m1
    Gateway = {g1, g2}
    Online = {g1}
    NoGateway = none
    Session = {s1}
    EventId = {1}
    NoEvent = 0
    SessionOf <- OneSessionOf
    Message = {}
    NoMessage = nomsg
    EchoOf <- PlainEchoOf
    SentIn <- FirstSentIn
    BatchEntries = 2
    JournalCapacity = 2
    MaxAppends = 1
    MaxConnections = 4
    MaxRevision = 2
    MaxFaults = 1
INVARIANTS
    TypeOK
    NoLoss
    HoldersAreFenced
PROPERTIES
    ImplementsContract
    EventuallyIngested
CHECK_DEADLOCK FALSE
