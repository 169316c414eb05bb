CONSTANTS
    Flows <- MCFlows
    Kinds <- MCKinds
    MaxItems <- MCItems
    FlowFaults = {"nosocket", "nolookup", "nobind", "refused", "noecho"}
SPECIFICATION FlowsSpec
INVARIANT FlowsTypeOK
PROPERTIES
    RidesCellular
    FlowsAreTunnels
    NothingCutShort
    Reaped
\* Every flow may have been handled and the desktop gone.
CHECK_DEADLOCK FALSE
