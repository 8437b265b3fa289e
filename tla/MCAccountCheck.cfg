SPECIFICATION Spec
CONSTANTS
    Timeout = 2
    Identities <- MCIdentities
    Directories <- MCDirectories
    Resets <- MCResets
    Payloads <- MCPayloads
CHECK_DEADLOCK FALSE
INVARIANTS TypeOK BudgetCoversQueries MaskCoversIdentity FailureIsNotData SelectionRight
PROPERTIES NothingIsForgotten
