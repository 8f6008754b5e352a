SPECIFICATION Spec
CONSTANTS
    Modulus = 101
    ExpAt <- Exp101
    Activations <- ActivationList
    Weights <- WeightSet
    UnaryOps = {"Exp", "Nop"}
    BinaryOps = {"Add", "Multiply"}
    Families <- AllFamilies
    Awkward = {}
    MaxOps = 3
    MaxModuleOutputs = 2
    Point <- At
    Seed <- Seeds
    Rate = 3
INVARIANTS
    TypeOK
    GradientsAreComplete
    ForwardReturnsTheOutputs
    BackwardReturnsTheGradients
    StepDescends
    CallsAreAccepted
    GradientsHaveSlots
    OperandsKept
