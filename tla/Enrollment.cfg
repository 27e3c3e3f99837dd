\* Two handlers, two tokens, two keys, four operator transitions, one fault.
CONSTANTS
    Request = {r1, r2}
    NoRequest = NoRequest
    Reported = {"active", "drained"}
    MaxAttempts = 2
    MaxTokens = 2
    MaxCsr = 2
    MaxAdmin = 4
    MaxFaults = 1
SPECIFICATION FairSpec
INVARIANTS ConsumedIsIssued DiskMatchesRecords RevocationIsComplete
PROPERTIES EventuallyCredentialed
CHECK_DEADLOCK FALSE
