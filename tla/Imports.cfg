CONSTANTS
    BatchSize = 2
    BackedUp = {1}
    MaxIds = 2
    MaxLate = 1
SPECIFICATION FairSpec
INVARIANTS
    ImportTypeOK
    AnswersKept
    FailedImportsEnd
    StopsAfterCurrent
PROPERTIES
    BatchMovesOn
    KeepsLedger
