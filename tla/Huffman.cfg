SPECIFICATION Spec
CONSTANTS
    Blank <- MCBlank
    GT <- MCGT
    LT <- MCLT
    SQ <- MCSQ
    DQ <- MCDQ
    Star <- MCStar
    Query <- MCQuery
    Backslash <- MCBackslash
    Cont <- MCCont
    Dash <- MCDash
    LetterA <- MCA
    LetterB <- MCB
    LetterF <- MCF
    MAXARGS = 6
    MAXLEN = 4
    CHAR_BIT = 3
    LF = 5
    CR = 6
    ETX = 7
    MAGIC = 13
    HSIZE = 10
    FSIZE = 13
    Lines <- MCLines
    Disks <- MCDisks
    Asked <- MCAsked
INVARIANT TypeOK WordsSurvive FrequentFirst WrittenOnce AbortedIsRefused RoundTrip
CHECK_DEADLOCK FALSE
