SPECIFICATION Spec
CONSTANTS
    Conns = {a}
    MaxConnects = 1
    SocketRoom = 1
    MaxPending = 3
    Reclaim = 2
    MaxCmds = 2
    None = None
INVARIANTS NothingAfterQuit
