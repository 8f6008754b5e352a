SPECIFICATION Spec
CONSTANTS
    Prime = 191
    Calls <- AllCalls
INVARIANTS
    TypeOK
    TracesAreTorch
    OutputsKept
    LoweredOutputsKept
    GradientsAreDerivatives
    ShapesAreComputed
    HostComputesFrozen
    LoweredOpsHaveHandlers
    UpdatesAreTorch
PROPERTIES
    Compiles
CHECK_DEADLOCK FALSE
