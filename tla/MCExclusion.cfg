\* The service, casework and an operator, in any order.
CONSTANTS
    f = f
    g = g
    p = p
    q = q
    folder = folder
    single = single
    Files <- MCFiles
    Paths <- MCPaths
    PathOf <- MCPathOf
    Prefixes <- MCPrefixes
    Covers <- MCCovers
SPECIFICATION Spec
INVARIANTS
    TypeOK
    SealedStaysOut
    NoCryWolf
    RestrictedStaysOut
    ReturnsAreExposed
