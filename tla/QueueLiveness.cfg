CONSTANTS
    MaxIds = 2
    MaxJobs = 2
    MaxCrashes = 0
    Items <- MCTwoAccounts
    Accounts = {"a", "b"}
    NativeAccounts = {"a"}
    OptionSet <- MCSlotOptions
    Defaults <- MCDefaults
    ConditionSet <- MCOneCondition
    LegacyItems = {}
SPECIFICATION FairSpec
PROPERTIES
    SlotsRespected
    QueueDrains
CONSTRAINT StillScheduling
