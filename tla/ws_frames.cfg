CONSTANTS
    Frames <- SomeFrames
    MaxFrames = 3
    MaxMessageSize = 2
    Overhead = 6
SPECIFICATION Spec
INVARIANTS NothingWithheld FailsFast
PROPERTY ImplementsMessages
CHECK_DEADLOCK FALSE
