SPECIFICATION TestSpec
CONSTANTS
    N = 2
    Emits <- Emits2
    Callers = {c1, c2}
    Pollers = {c1}
    Closer = c1
    NoCaller = NoCaller
    Tests = {"main", "waitAndCloseTest", "outputTest", "progressTest", "deadlockTest", "randbody"}
INVARIANTS
    NoCheckFails
    ResourcesKept
PROPERTIES
    TestsEnd
