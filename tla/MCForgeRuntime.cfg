SPECIFICATION RuntimeSpec
CONSTANTS
    Layouts = {"host", "row", "tile"}
    HostLayout = "host"
    Lost = Lost
    Names = {"w", "c"}
    Programs = {"Forward", "Optimizer"}
    PersistentInputs <- MCPersistentInputs
    LayoutOf <- MCLayoutOf
    Updating = "Optimizer"
    Updated <- MCUpdated
    NoOutputs = NoOutputs
    NotRead = NotRead
    ReconfigureAnytime = FALSE
    MaxVersion = 2
    MaxGen = 2
INVARIANTS RuntimeTypeOK NoLostRead
PROPERTIES PoolIsAStore RunsKeepValues
