CONSTANTS
    s1 = s1  s2 = s2  r1 = r1  r2 = r2  lake = lake
    Sessions <- MCSessions
    Remotes <- MCRemotes
    NoRemote = NoRemote
    Aliases <- MCAliases
    Tables <- MCTables
    OddNames <- MCOddNames
    MaxListed = 3
    VectorSize = 2
    MaxRuns = 2
SPECIFICATION Spec
CHECK_DEADLOCK FALSE
SYMMETRY MCSymmetry
INVARIANTS AttachedIsComplete RowsAreTheViews
