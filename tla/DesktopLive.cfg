CONSTANTS
    w1 = w1
    w2 = w2
    a1 = a1
    NoAdapter = NoAdapter
    Workers = {w1, w2}
    Adapters = {a1}
    Addr <- AddrSet
    Phone = "phone"
    Lan <- LanOnLink
    LowHalf <- LowSet
    Modes = {"gui", "headless"}
    Kinds = {"usb", "wifi", "host"}
    Faults = {"dial", "route", "link", "kill", "survive", "badip"}
    PromptStart = TRUE
    MaxLaunches = 2
SPECIFICATION LiveSpec
PROPERTIES
    DisconnectHonoured
    AttemptEnds
