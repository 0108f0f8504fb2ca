CONSTANTS
    MaxIds = 2
    MaxJobs = 1
    MaxCrashes = 1
    Items <- MCOneItem
    Accounts = {"a"}
    NativeAccounts = {"a"}
    OptionSet <- MCAllOptions
    Defaults <- MCDefaults
    ConditionSet <- MCAllConditions
    LegacyItems = {}
SPECIFICATION Spec
INVARIANTS
    ForbiddenUploadsCut
    BudgetKept
    StoreReopens
