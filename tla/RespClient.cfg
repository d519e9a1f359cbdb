SPECIFICATION Spec
CONSTANTS
    MaxCmds = 3
    Password = TRUE
INVARIANTS TypeOK AtMostTwice RetryOnlyUnanswered Synchronized
PROPERTIES CommandReturns
