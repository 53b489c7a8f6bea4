SPECIFICATION DemosSpec
CONSTANTS
    N = 4
    Rounds = 3
    Level = 3
    Turns = 2
    MultiLevel = 4
    Small = 2
    Large = 4
    MultiTurns = 4
    MaxNested = 3
    LowBits = 4
    MidBits = 4
    MicroPerSec = 3
    NanoPerMicro = 10
    MaxIterations = 15
    MaxClock = 7
INVARIANTS
    BarrierSafety
    BarrierInv
    CountersExact
    ThreadsAlternate
    WarnedFirst
    TimesTheLoop
PROPERTIES
    ImplementsAbstractBarrier
    ExpiryReported
