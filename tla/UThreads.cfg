SPECIFICATION Spec
CONSTANTS
    MaxThreads = 3
    MaxSleep = 2
    MaxReady = 3
    Allowed = {"errors", "outOfRange"}
INVARIANTS
    UThreadsTypeOK
    ReadyListExact
    SleeperHasAlarm
    NoDangling
    QuantumsAddUp
PROPERTIES
    ReadyRuns
    SleeperWakes
    ImplementsRoundRobin
