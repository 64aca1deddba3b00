CONSTANTS
    s1 = s1  s2 = s2
    Sessions <- MCSessions
    NoSession = NoSession
    MaxHandles = 2
    MaxLogins = 2
    CloseWakesAccept = FALSE
    AsksForLogin = FALSE
    LoginProxy <- MCAlways
    UserProxies <- MCUserProxies
SPECIFICATION Spec
CHECK_DEADLOCK FALSE
SYMMETRY MCSymmetry
INVARIANTS NoLeakedNode ProxyEnvironment RunningUnlessDetached DownUnlessDetached HandlesInUseAreLive
