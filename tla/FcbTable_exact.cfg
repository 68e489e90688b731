SPECIFICATION Spec
CONSTANTS
    n1 = n1
    n2 = n2
    Absent = Absent
    NoFile = NoFile
    MAXFILE = 3
    SECSIZE = 3
    EXACT = "I"
    Users <- OneUser
    Names <- TwoNames
    Devices <- Console
    Sharing = "none"
    IOErrors = FALSE
    MaxPos = 4
    MaxIO = 2
VIEW WithoutLast
SYMMETRY NameSymmetry
INVARIANTS
    TypeOK
    SlotsOwned
    SizeInv
    SizeKept
PROPERTIES
    FailureKeepsTable
