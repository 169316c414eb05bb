CONSTANTS
    w1 = w1
    a1 = a1
    NoAdapter = NoAdapter
    Workers = {w1}
    Adapters = {a1}
    Addr <- AddrSet
    Phone = "phone"
    Lan <- LanOffLink
    LowHalf <- LowSet
    Modes = {"headless"}
    Kinds = {"usb"}
    Faults = {"link"}
    PromptStart = FALSE
    MaxLaunches = 1
SPECIFICATION LiveSpec
PROPERTY CtrlCStops
