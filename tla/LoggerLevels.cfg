SPECIFICATION LoggerSpec
CONSTANTS
    Files <- MCLoggerFiles
    MaxReads = 2
    Objects = {o1, o2}
    MaxMessages = 2
INVARIANTS
    OnMeansLogged
CHECK_DEADLOCK FALSE
