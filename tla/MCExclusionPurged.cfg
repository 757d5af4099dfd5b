\* A service that started before the purge does not know of it.
CONSTANTS
    f = f
    g = g
    p = p
    q = q
    folder = folder
    single = single
    Files <- MCFiles
    Paths <- MCPaths
    PathOf <- MCPathOf
    Prefixes <- MCPrefixes
    Covers <- MCCovers
SPECIFICATION Spec
INVARIANT PurgedStaysOut
