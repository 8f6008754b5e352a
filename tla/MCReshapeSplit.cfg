SPECIFICATION Spec
CONSTANTS
    Prime = 191
    Calls <- SplitAtFrontCalls
INVARIANTS
    OutputsKept
CHECK_DEADLOCK FALSE
