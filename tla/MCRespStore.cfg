SPECIFICATION Spec
CONSTANTS
    Keys = {k1, k2, k3}
    v0 = v0
    v1 = v1
    word = word
    Value = {v0, v1, word}
    IntMin = 0
    IntMax = 1
    Parse <- MCParse
    Render <- MCRender
    KeyLen <- MCKeyLen
    ValueLen <- MCValueLen
    Overhead = 1
    Budget = 7
    SampleSize = 2
    SweepSize = 2
    TicksPerSecond = 2
    MaxTtl = 1
    Slots = 3
    NoEntry = NoEntry
    NoTtl = NoTtl
    NotInt = NotInt
    Unlimited = Unlimited
    Nil = Nil
INVARIANTS TypeOK UsedBytesExact BudgetHeld
PROPERTIES WriteSurvivesEviction SecondChance CacheContract EvictionEnds
VIEW View
