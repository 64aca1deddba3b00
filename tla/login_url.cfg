CONSTANTS
    MaxHandles = 2
    MaxStarts = 2
    MaxLines = 1
    MaxFd = 3
SPECIFICATION Spec
CHECK_DEADLOCK FALSE
INVARIANTS OwnDescriptors LogIsCaptured
PROPERTIES StopReturns PrintedIsShown
