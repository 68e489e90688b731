SPECIFICATION Spec
CONSTANTS
    BUFSIZ = 2
    SECSIZE = 1
    Chars = {"x", "LF"}
    Modes <- Output
    InitFiles <- Empty
    Setbufs = {}
    DiskFails = FALSE
    Handlers = {"SIG_DFL"}
    LateBreak = TRUE
    Exact = TRUE
    MaxLen = 4
VIEW MCView
INVARIANT WroteWhatWasPut
CHECK_DEADLOCK FALSE
