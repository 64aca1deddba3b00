CONSTANTS
    s1 = s1  s2 = s2  p1 = p1  p2 = p2
    Callers <- MCCallers
    Peers <- MCPeers
    Asks <- MCAsks
    NoPeer = NoPeer
    MaxStarts = 2
    CloseWakesAccept = FALSE
    Overlap = TRUE
SPECIFICATION ForwarderSpec
CHECK_DEADLOCK FALSE
INVARIANTS NoOrphanedThread TerminatesOnlyOnOverlap StatusTellsTheTruth RelaysReachTheirPeer
PROPERTY CallsReturn
