CONSTANTS
    c1 = c1
    c2 = c2
    Callers = {c1, c2}
    NoCaller = NoCaller
    Transports = {"usb", "wifi", "other"}
    MaxStarts = 2
    d1 = d1
    d2 = d2
    Desktops = {d1, d2}
    CoreFaults <- AllCoreFaults
SPECIFICATION LiveSpec
INVARIANTS
    TypeOK
    InstanceListens
    NoOrphan
    CountersFresh
PROPERTIES
    CallsReturn
    NextIsServed
