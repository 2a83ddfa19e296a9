CONSTANTS
    Documents <- TwoLevels
    Sources <- Some
    Scripts <- SomeScripts
    Digits <- FiveDigits
SPECIFICATION Spec
INVARIANTS DiffRoundTrips MergeRoundTrips
PROPERTY InsertionIsExact
CHECK_DEADLOCK FALSE
