CONSTANTS
    Words <- MCWords
    Surfaces <- MCSurfaces
    Sections <- MCSections
    Cites <- MCCites
    CiteKey <- MCCiteKey
    Openers <- MCOpeners
    Passages <- MCPassages
    StatuteWindow = 1
    Proximity = 1
    Libraries <- MCLibraries
    Dirs <- MCDirs
    PathOrder <- MCPathOrder
    FileTexts <- MCFileTexts
    Documents <- MCDocuments
    FormatDirs = {"ocr_output"}
    FormatExts = {"pdf", "txt", "md", "ocr"}
    CopyMarks = {"ocr", "(2)"}
    Aliases <- MCAliases
    Negations = {"didnot"}
    Audience <- MCAudience
    NoOne = "none"
    Tokens <- MCTokens
    QuerySize = 3
    MaxPairs = 2
    Paths = {1, 2, 3}
    Shut = {3}
    Contents = {1, 2, 3}
    Blank = {2}
    Nothing = 0
    Batch = 1
    Page = 1
    MaxEdits = 3
    MaxFailed = 1
    Files = {"f", "g"}
    Texts = {"t", "u"}
    Ragged = {"u"}
    Notes = {"n", "m"}
    NoNote = "none"
    Gone = "gone"
    MaxChanges = 3
    MaxCommands = 3
    HasKey = TRUE
    MaxFlips = 2
    Facts <- MCFacts
    Manifested = TRUE
    OnSkipped = TRUE
    MaxFailures = 1
    MaxWait = 7
    PollInterval = 3
    RequestTimeout = 2
SPECIFICATION MCSpec
INVARIANTS
    CleanExitIsGrounded
    ServedErrorsComeFirst
    ActsAreRead
    ShiftsAreFound
    FindingsLeadTheWorklist
    NoSilentDrop
    CleanPassLeavesNoGap
    OrphansAreFound
    EditsTakeEffect
    RebuildRestores
    GreenBoardIsTrue
    AllClearIsTrue
    WaitIsBounded
PROPERTY BacklogDrains
CHECK_DEADLOCK FALSE
