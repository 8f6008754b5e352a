\* A comparison ends.
CHECK_DEADLOCK FALSE
SPECIFICATION FairVerifSpec
CONSTANTS
    Special = Special
    NoResult = NoResult
    Comparisons <- MCComparisons
    Lowest <- MCLowest
    GrainSize = 2
    VecSize = 2
    MaxThreads = 3
INVARIANTS TypeOK AnswersAreExact
PROPERTIES ComparisonEnds
