SPECIFICATION Spec
CONSTANTS
    Layouts = {"host", "row", "tile"}
    HostLayout = "host"
    Lost = Lost
    Names = {"v", "w", "c", "lr", "m"}
    Programs = {"Forward", "Backward", "Optimizer"}
    PersistentInputs <- MCPersistentInputs
    LayoutOf <- MCLayoutOf
    Updating = "Optimizer"
    Updated <- MCUpdated
    NoOutputs = NoOutputs
    NotRead = NotRead
    ReconfigureAnytime = FALSE
    MaxVersion = 1
    MaxGen = 2
    Parameters <- MCParameters
    NumOutputs = 1
    AliasedOutputs <- MCAliasedOutputs
    Optimizers = {"forge"}
    NameIn <- MCNameIn
    InLoop = {"forge"}
    LearningRates = {"lr"}
    Replaceable = {"v"}
    MaxCalls = 2
    MaxBackwards = 2
    MaxRates = 1
INVARIANTS LearningRateReachesDevice
