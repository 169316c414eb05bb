CONSTANTS
    p1 = p1
    p2 = p2
    NoPhone = NoPhone
    Phones = {p1, p2}
    Base = 3
    Port = 5
    MaxAttach = 3
    MaxBytes = 2
    DialFaults = {"hangup", "garbled", "unplug"}
SPECIFICATION UsbmuxSpec
INVARIANTS
    UsbmuxTypeOK
    RightPhone
    PipeIntact
PROPERTY DialEnds
\* A dial that is over leaves nothing to do.
CHECK_DEADLOCK FALSE
