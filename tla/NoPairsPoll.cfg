SPECIFICATION TestSpec
CONSTANTS
    N = 2
    Emits <- NoPairs
    Callers = {c1}
    Pollers = {c1}
    Closer = c1
    NoCaller = NoCaller
    Tests = {"main", "progressTest"}
PROPERTY TestsEnd
