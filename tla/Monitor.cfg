SPECIFICATION FairSpec
CONSTANTS
    a1 = a1
    a2 = a2
    Accounts <- MCAccounts
    NoAccount = NoAccount
    MaxRevision = 1
    MaxEpoch = 3
INVARIANTS
    SignalKept
PROPERTIES
    AcknowledgedInSession
    CompletionsFetched
CHECK_DEADLOCK FALSE
