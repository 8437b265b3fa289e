SPECIFICATION FairSpec
CONSTANTS
    Accounts = {a1, a2, a3}
    MaxConcurrency = 2
CHECK_DEADLOCK FALSE
INVARIANTS TypeOK BoundedConcurrency PublishedIsFinal
PROPERTIES ImplementsOutcome Publishes CancelFreesWaiters
