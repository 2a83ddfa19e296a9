CONSTANTS
    Framings <- AllFramings
    Spans = 2
    Surplus = TRUE
    Interim = FALSE
SPECIFICATION Spec
INVARIANTS PooledInStep EndIsLast TruncationIsReported
PROPERTIES HeadOrEnd StreamEnds
CHECK_DEADLOCK FALSE
