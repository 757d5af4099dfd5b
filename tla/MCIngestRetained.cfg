\* The two threads write the manifest at the same time; nothing fails.
CONSTANTS
    a = a
    b = b
    None = None
    Torn = Torn
    Paths <- MCPaths
    Contents <- MCContents
    Empty = {}
    Sidecars = {}
    MayHold <- MCMayHold
    Edits = {"add", "modify", "delete"}
    Runners = {"commit", "catchup"}
    MaxCommits = 2
    MaxDeliver = 2
    MaxFailures = 0
SPECIFICATION Spec
INVARIANT ProvenanceRetained
CHECK_DEADLOCK FALSE
