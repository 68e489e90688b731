SPECIFICATION Spec
CONSTANTS
    BUFSIZ = 2
    SECSIZE = 1
    Chars = {"LF"}
    Modes <- Update
    InitFiles <- Existing
    Setbufs = {}
    DiskFails = FALSE
    Handlers = {}
    LateBreak = FALSE
    Exact = TRUE
    MaxLen = 4
VIEW MCView
INVARIANT WroteWhatWasPut
CHECK_DEADLOCK FALSE
