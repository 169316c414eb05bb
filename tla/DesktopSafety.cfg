CONSTANTS
    w1 = w1
    w2 = w2
    a1 = a1
    a2 = a2
    NoAdapter = NoAdapter
    Workers = {w1, w2}
    Adapters = {a1, a2}
    Addr <- AddrSet
    Phone = "phone"
    Lan <- LanOffLink
    LowHalf <- LowSet
    Modes = {"gui", "headless"}
    Kinds = {"wifi", "host"}
    Faults <- EveryFault
    PromptStart = FALSE
    MaxLaunches = 2
SPECIFICATION Spec
SYMMETRY Symmetry
INVARIANTS
    TypeOK
    Ownership
    NoStaleConnected
    RowsAccounted
    FullCapture
    
    
PROPERTIES
    StopOnlyWhenAsked
    ErrorShown
