SPECIFICATION Spec
CONSTANTS
    \* A store without a budget, one value, three keys and sweeps that look at two.
    Keys = {k1, k2, k3}
    v0 = v0
    v1 = v1
    word = word
    Value = {v0}
    IntMin = 0
    IntMax = 0
    Parse <- MCParse
    Render <- MCRender
    KeyLen <- MCKeyLen
    ValueLen <- MCValueLen
    Overhead = 1
    Budget = Unlimited
    SampleSize = 2
    SweepSize = 2
    TicksPerSecond = 2
    MaxTtl = 1
    Slots = 3
    NoEntry = NoEntry
    NoTtl = NoTtl
    NotInt = NotInt
    Unlimited = Unlimited
    Nil = Nil
PROPERTIES ExpiredReclaimed
VIEW View
