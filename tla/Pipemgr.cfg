SPECIFICATION Spec
CONSTANTS
    RECSIZE = 3
    MARK = 26
    CR = 13
    LF = 10
    Bytes = {10, 13, 26}
    Lines <- Pipelines
    Disks <- Before
    MAXOUT = 4
    BUFLEN = 2
INVARIANT TypeOK OutputArrives NothingElse
PROPERTY Implements
CHECK_DEADLOCK FALSE
