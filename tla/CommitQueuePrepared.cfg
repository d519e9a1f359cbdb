SPECIFICATION SpecPrepared
CONSTANTS
    MaxOps = 2
    MaxSub = 2
INVARIANTS RollbackNeverApplied
