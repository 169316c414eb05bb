CONSTANTS
    MaxFrame = 1
    TcpCap = 1
    IncomingCap = 1
    DownSizes <- Sizes
    MaxPackets = 2
    LinkFaults <- AllLinkFaults
SPECIFICATION LinkSpec
INVARIANT LinkTypeOK
PROPERTIES
    KeepsPromise
    TeardownCompletes
    LossNoticed
    PhoneFreed
    NoWedge
