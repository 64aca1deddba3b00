CONSTANTS
    MaxSent = 2
    Room = 2
    BufSize = 2
    HangUpSides <- MCHangUpSides
SPECIFICATION Spec
CHECK_DEADLOCK FALSE
INVARIANT FinishedIsForwarded
PROPERTIES ImplementsPipes EndsAfterHangUp
