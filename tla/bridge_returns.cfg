CONSTANTS
    s1 = s1  s2 = s2
    Sessions <- MCOneSession
    NoSession = NoSession
    MaxHandles = 1
    MaxLogins = 2
    CloseWakesAccept = FALSE
    AsksForLogin = TRUE
    LoginProxy <- MCBoth
    UserProxies <- MCUserProxies
SPECIFICATION Spec
CHECK_DEADLOCK FALSE
PROPERTY CallsReturn
