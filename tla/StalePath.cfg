SPECIFICATION Spec
CONSTANTS
    PageSize = 2
    NumFrames = 8
    NumPages = 16
    Depth = 4
    Called = {13, 6, 31}
    Data = {9}
    Stale = {3}
INVARIANT AssertionsHold
