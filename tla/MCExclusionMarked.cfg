\* A file registered before it was marked.
CONSTANTS
    f = f
    g = g
    p = p
    q = q
    folder = folder
    single = single
    Files <- MCFiles
    Paths <- MCPaths
    PathOf <- MCPathOf
    Prefixes <- MCPrefixes
    Covers <- MCCovers
SPECIFICATION Spec
PROPERTY MarkStopsIngestion
