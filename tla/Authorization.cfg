CONSTANTS
    a1 = a1
    a2 = a2
    NoAccount = NoAccount
    Accounts <- MCBoth
    Tokens = {}
    Uploaders <- MCOne
    SavesFail = FALSE
SPECIFICATION FairSpec
INVARIANTS
    HostTypeOK
    TokensOfTheirOwner
    BearerOfItsOwner
PROPERTIES
    KeepsAccountSpec
    Replenished
    AccountConnects
    OldBearerCleared
CHECK_DEADLOCK FALSE
