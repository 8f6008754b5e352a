SPECIFICATION Spec
CONSTANTS
    Layouts = {"host", "row", "tile"}
    HostLayout = "host"
    Lost = Lost
    Names = {"v", "w", "c", "lr", "m"}
    Programs = {"Forward", "Backward", "Optimizer"}
    PersistentInputs <- MCPersistentInputs
    LayoutOf <- MCLayoutOf
    Updating = "Optimizer"
    Updated <- MCUpdated
    NoOutputs = NoOutputs
    NotRead = NotRead
    ReconfigureAnytime = FALSE
    MaxVersion = 2
    MaxGen = 2
    Parameters <- MCParameters
    NumOutputs = 1
    AliasedOutputs <- MCAliasedOutputs
    Optimizers = {"forge", "torch"}
    NameIn <- MCNameIn
    InLoop = {"torch"}
    LearningRates = {"lr"}
    Replaceable = {"v"}
    MaxCalls = 2
    MaxBackwards = 3
    MaxRates = 1
INVARIANTS TypeOK BackwardCoherent NoUpdateLost StepsHaveGradients
PROPERTIES GradientsAreApplied ForwardReadsLatestWeights
