\* A new version fails in Docling, the old one is skipped.
CONSTANTS
    a = a
    b = b
    None = None
    Torn = Torn
    Paths <- MCPaths
    Contents <- MCContents
    Empty = {}
    Sidecars = {}
    MayHold <- MCMayHold
    Edits = {"add", "modify", "delete"}
    Runners = {"commit"}
    MaxCommits = 2
    MaxDeliver = 2
    MaxFailures = 1
SPECIFICATION Spec
INVARIANT AckedFilesAreIndexed
CHECK_DEADLOCK FALSE
