CONSTANTS
    MaxIds = 1
    MaxJobs = 1
    MaxCrashes = 1
    Items <- MCOneItem
    Accounts = {"a"}
    NativeAccounts = {}
    OptionSet <- MCPairOptions
    Defaults <- MCPair
    ConditionSet <- MCOneCondition
    LegacyItems = {}
SPECIFICATION Spec
PROPERTY InterruptedStagingRemoved
