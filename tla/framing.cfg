CONSTANTS
    Messages <- MCMessages
    Follows <- MCFollows
    Modulus = 8
SPECIFICATION FramingSpec
INVARIANTS FramesExactly WholeIsAccepted
