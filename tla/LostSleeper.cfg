SPECIFICATION Spec
CONSTANTS
    MaxThreads = 3
    MaxSleep = 1
    MaxReady = 3
    Allowed = {"exitAmongSleepers"}
INVARIANT SleeperHasAlarm
