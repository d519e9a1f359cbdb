SPECIFICATION SpecUnreliable
CONSTANTS
    Keys = {k1, k2, k3}
    Clients = {a, b}
    MaxCursors = 2
    IdleExpiry = 1
    MaxCount = 2
    MaxId = 3
INVARIANTS NoStableKeyMissed
