\* The ids run out at MaxNodes, a bound of the model.
CHECK_DEADLOCK FALSE
SPECIFICATION Spec
CONSTANTS
    NodeNames = {"a", "b"}
    PortIds <- MCPortIds
    EdgeTypes = {"data"}
    Attrs = {"default", "tms"}
    DefaultAttr = "default"
    MaxNodes = 3
    MaxOutputs = 1
    MaxEdges = 2
INVARIANTS TypeOK MapsAgree
PROPERTIES GraphIsAnEdgeSet
