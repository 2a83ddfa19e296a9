CONSTANTS
    GET = GET
    POST = POST
    Method = {GET, POST}
    Route <- SomeRoutes
    Target <- Targets
    Accepted <- OnlyA
    Refused = ".."
    MaxAdds = 3
SYMMETRY MethodSymmetry
SPECIFICATION Spec
INVARIANT MatchIsBest
PROPERTY RejectedForAReason
