CONSTANTS
    MaxIds = 2
    MaxJobs = 2
    MaxCrashes = 1
    Items <- MCTwoItems
    Accounts = {"a"}
    NativeAccounts = {}
    OptionSet <- MCPairOptions
    Defaults <- MCPair
    ConditionSet <- MCOneCondition
    LegacyItems <- MCOneItem
SPECIFICATION Spec
INVARIANTS
    DurableWhileServing
    CommitOnce
    StagedFilesKept
    NoStrandedJob
    CancelIsFinal
    ImportsHaveHashes
    OneJobPerItem
PROPERTIES
    OutcomeIsFinal
    RevisionTellsCompletions
    RefinesLedger
