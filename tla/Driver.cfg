SPECIFICATION Spec
CONSTANTS
    LONG = 8
    Lines <- MCLines
    Disks <- MCDisks
INVARIANT TypeOK OwnSource Built TempsGone
PROPERTY EverySourceTried
CHECK_DEADLOCK FALSE
