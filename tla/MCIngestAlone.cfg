\* The commit processor without a catch-up beside it, commits of several files.
CONSTANTS
    a = a
    b = b
    c = c
    e = e
    s = s
    None = None
    Torn = Torn
    Paths <- MCPaths
    Contents <- MCContents
    Empty <- MCEmpty
    Sidecars <- MCSidecars
    MayHold <- MCMayHold
    Edits = {"add", "modify", "delete"}
    Runners = {"commit"}
    MaxCommits = 2
    MaxDeliver = 2
    MaxFailures = 1
SPECIFICATION Spec
INVARIANTS
    AckMeansSearchable
    ProvenanceRetained
    DocumentsHaveProvenance
    NoSpuriousDeadLetter
\* Every commit is answered.
CHECK_DEADLOCK FALSE
