SPECIFICATION RuntimeSpec
CONSTANTS
    Layouts = {"host", "row", "tile"}
    HostLayout = "host"
    Lost = Lost
    Names = {"w", "c"}
    Programs = {"Forward", "Optimizer"}
    PersistentInputs <- MCPersistentInputs
    LayoutOf <- MCLayoutOf
    Updating = "Optimizer"
    Updated <- MCUpdated
    NoOutputs = NoOutputs
    NotRead = NotRead
    ReconfigureAnytime = TRUE
    MaxVersion = 2
    MaxGen = 2
INVARIANTS NoLostRead
