CONSTANTS
    N = 2
    Methods <- MCMethods
    MaxBody = 2
    Interim = FALSE
SPECIFICATION Spec
CHECK_DEADLOCK FALSE
INVARIANTS KeptAliveIsClean NeverTruncated
PROPERTY ImplementsAtMostOnce
