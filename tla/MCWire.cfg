\* Sessions over the wire in bytes, and samples of the pure algorithms.
CONSTANTS
    Byte <- MCByte
    MAX_BULK_LEN = 8
    MAX_ARRAY_LEN = 6
    MAX_INLINE_LEN = 4
    MAX_REPLY_DEPTH = 2
    I64Max = 99
    Milli = 2
    Wall = 7
    Now = 10
    MaxTyped = 4
    MaxPattern = 4
    MaxOptions = 4
    Clocks = {0, 1, 10, 49, 50, 98}
    Password <- MCPassword
    Values <- MCValues
    Bytes <- MCBytes
    Conversations <- MCConversations
    Openings <- MCOpenings
    Keyboard <- MCKeyboard
SPECIFICATION WireSpec
INVARIANTS
    CommandsExact
    RepliesFramed
    NothingBeforeAuth
    GlobAgrees
    SetOptionsAgree
    DeadlineExact
PROPERTY OutcomeStable
CHECK_DEADLOCK FALSE
