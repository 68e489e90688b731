SPECIFICATION Spec
CONSTANTS
    BUFSIZ = 2
    SECSIZE = 2
    Chars = {"x", "LF"}
    Modes <- OneWay
    InitFiles <- Texts
    Setbufs = {"NULL", "own"}
    DiskFails = TRUE
    Handlers = {"SIG_DFL", "jumps"}
    LateBreak = FALSE
    Exact = FALSE
    MaxLen = 4
VIEW MCView
INVARIANT TypeOK BufferAgrees WroteWhatWasPut ReturnsToCaller
PROPERTY Implements
CHECK_DEADLOCK FALSE
