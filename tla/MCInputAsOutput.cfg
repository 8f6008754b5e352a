SPECIFICATION Spec
CONSTANTS
    Modulus = 101
    ExpAt <- Exp101
    Activations <- ActivationList
    Weights <- WeightSet
    UnaryOps = {"Exp", "Nop"}
    BinaryOps = {"Add", "Multiply"}
    Families <- SmallFamilies
    Awkward = {"input as output"}
    MaxOps = 2
    MaxModuleOutputs = 2
    Point <- At
    Seed <- Seeds
    Rate = 3
INVARIANTS
    CallsAreAccepted
