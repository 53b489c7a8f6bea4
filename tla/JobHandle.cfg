SPECIFICATION JobSpec
CONSTANTS
    N = 2
    Emits <- Emits2
    Callers = {c1, c2, c3}
    Pollers = {c2}
    Closer = c1
    NoCaller = NoCaller
INVARIANTS
    NobodyStuck
    HundredMeansOutput
    JoinedOnce
    WaitedMeansDone
    FreedUnused
PROPERTIES
    ProgressMonotone
    JobCompletes
