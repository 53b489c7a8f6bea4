SPECIFICATION TestSpec
CONSTANTS
    PageSize = 2
    NumFrames = 8
    NumPages = 16
    Depth = 4
    Called = {0, 2, 4, 6, 8, 10, 12, 13, 14, 16, 18, 20, 21, 22, 24, 26, 28, 29, 30, 31, 32}
    Data = {0, 3, 5, 9, 100, 200, 300, 400, 500, 600, 700, 800, 900, 1000, 1100, 1200, 1300, 1400, 1500}
    Stale = {}
    AnyCalled = {4, 6, 8, 32}
    AnyData = {5, 9}
    Stride = 1
INVARIANTS
    VMTypeOK
    AssertionsHold
    TreeWellFormed
    OneCopy
    TestsPass
PROPERTIES
    LostToWords
    EvictsLargest
    ImplementsFlatMemory
