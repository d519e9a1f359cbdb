SPECIFICATION Spec
CONSTANTS
    MaxOps = 3
    MaxSub = 4
INVARIANTS TypeOK RollbackNeverApplied QueueExact LossCounted
PROPERTIES AppliedInCommitOrder
