\* A comparison ends.
CHECK_DEADLOCK FALSE
SPECIFICATION VerifSpec
CONSTANTS
    Special = Special
    NoResult = NoResult
    Comparisons <- MCMixed
    Lowest <- MCLowest
    GrainSize = 2
    VecSize = 2
    MaxThreads = 3
INVARIANTS AnswersAreExact
