SPECIFICATION Spec
CONSTANTS
    MaxThreads = 2
    MaxSleep = 1
    MaxReady = 2
    Allowed = {"killSleeper"}
INVARIANT NoDangling
