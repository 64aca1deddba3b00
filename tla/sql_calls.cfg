CONSTANTS
    s1 = s1  s2 = s2
    Sessions <- MCSessions
    Ports <- MCPorts
    GivenJoins <- MCGivenJoins
    MaxHubs = 2
SPECIFICATION Spec
SYMMETRY MCSymmetry
INVARIANTS JoinsItsHub OneRouter RoutedWhenRunning HttpfsStaysReachable
