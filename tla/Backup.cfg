CONSTANTS
    r1 = r1
    r2 = r2
    a1 = a1
    Requests = {r1, r2}
    Assets = {a1}
    AssetOf <- MCBoth
    InitialPreferences = {"unset"}
    MaxCancels <- MCCancels
SPECIFICATION FairSpec
INVARIANTS
    RegistrationsBalanced
    CancelReachesGo
    BackgroundCancelKeepsJob
PROPERTIES
    NoSecondCopy
    KeepsGuard
    RequestAnswered
