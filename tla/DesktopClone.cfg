CONSTANTS
    w1 = w1
    a1 = a1
    NoAdapter = NoAdapter
    Workers = {w1}
    Adapters = {a1}
    Addr <- AddrSet
    Phone = "phone"
    Lan <- LanOffLink
    LowHalf <- LowSet
    Modes = {"gui"}
    Kinds = {"wifi"}
    Faults = {"clone"}
    PromptStart = TRUE
    MaxLaunches = 1
SPECIFICATION Spec
INVARIANT TornDownAfterRun
