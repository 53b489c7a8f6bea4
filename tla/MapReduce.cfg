SPECIFICATION MapReduceSpec
CONSTANTS
    N = 3
    Emits <- Emits3
INVARIANTS
    ShuffleExclusive
    DistinctWork
    PairsConserved
    OutputExact
