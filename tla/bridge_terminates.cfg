CONSTANTS
    s1 = s1  s2 = s2
    Sessions <- MCOneSession
    NoSession = NoSession
    MaxHandles = 2
    MaxLogins = 1
    CloseWakesAccept = FALSE
    AsksForLogin = TRUE
    LoginProxy <- MCBoth
    UserProxies <- MCUserProxies
SPECIFICATION Spec
CHECK_DEADLOCK FALSE
INVARIANT ProcessSurvives
