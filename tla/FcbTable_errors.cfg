SPECIFICATION Spec
CONSTANTS
    n1 = n1
    n2 = n2
    Absent = Absent
    NoFile = NoFile
    MAXFILE = 3
    SECSIZE = 2
    EXACT = "C"
    Users <- OneUser
    Names <- OneName
    Devices <- Console
    Sharing = "any"
    IOErrors = TRUE
    MaxPos = 2
    MaxIO = 1
VIEW WithoutLast
INVARIANTS
    SlotsOwned
PROPERTIES
    FailureKeepsTable
