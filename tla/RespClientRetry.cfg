SPECIFICATION Spec
CONSTANTS
    MaxCmds = 3
    Password = FALSE
INVARIANTS ReplyMatchesCommand
