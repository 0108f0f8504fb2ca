CONSTANTS
    a1 = a1
    a2 = a2
    NoAccount = NoAccount
    Accounts <- MCBoth
    Tokens <- MCBoth
    Uploaders <- MCBoth
    SavesFail = TRUE
SPECIFICATION AccountSpec
SYMMETRY AccountSymmetry
INVARIANTS
    KnownBearers
    BindingsChecked
    JobsKeepAccount
CHECK_DEADLOCK FALSE
