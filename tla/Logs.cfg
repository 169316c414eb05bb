CONSTANTS
    t1 = t1
    t2 = t2
    main = main
    CoreThreads = {t1, t2}
    MainThread = main
    RingCap = 2
    ScreenCap = 2
    MaxLines = 5
    MaxClears = 1
SPECIFICATION LogsSpec
INVARIANTS
    LogsTypeOK
    EachLineOnce
PROPERTY EveryLineShown
\* The bound on the lines ends every behaviour.
CHECK_DEADLOCK FALSE
