\* Both threads, one failure.
CONSTANTS
    a = a
    b = b
    None = None
    Torn = Torn
    Paths <- MCPaths
    Contents <- MCContents
    Empty = {}
    Sidecars = {}
    MayHold <- MCMayHold
    Edits = {"add", "modify", "delete"}
    Runners = {"commit", "catchup"}
    MaxCommits = 2
    MaxDeliver = 2
    MaxFailures = 1
SPECIFICATION Spec
INVARIANTS
    TypeOK
PROPERTIES
    ImplementsArchive
    NothingVanishes
    GapsHeal
    ProvenanceHeals
\* The periodic catch-up may have died and every commit be answered.
CHECK_DEADLOCK FALSE
