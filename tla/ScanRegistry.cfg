SPECIFICATION Spec
CONSTANTS
    \* Three keys, so that a snapshot lasts for several pages, and room for one
    \* cursor, so that every scan pushes the other one out.
    Keys = {k1, k2, k3}
    Clients = {a, b}
    MaxCursors = 1
    IdleExpiry = 1
    MaxCount = 2
    MaxId = 3
INVARIANTS TypeOK NoStableKeyMissed RegistryBounded
PROPERTIES CachedScanEnds SnapshotsShrink
