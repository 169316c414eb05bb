CONSTANTS
    MaxFrame = 3
    CompactAt = 6
    MaxChunk = 10
    MaxBytes = 30
SPECIFICATION Spec
INVARIANTS
    TypeOK
    InStep
    NothingHeldBack
    BoundedWhenDrained
