\* Two chunks of account a, one fault at any point, one logout or removal.
CONSTANTS
    Account = {"a", "b"}
    NoAccount = "none"
    Notification = {1, 2, 3}
    NoNotification = 0
    AccountOf <- ChunkAccount
    PartsOf <- ChunkParts
    Imported = {1, 2}
    Closing = {2, 3}
    Unreadable <- ChunkUnreadable
    MaxLinks = 1
    MaxAhead = 0
    MaxFaults = 1
SPECIFICATION FairSpec
INVARIANTS DoneIsJournaled VerdictIsLast ReportedIsAccounted
PROPERTIES HistorySettles
