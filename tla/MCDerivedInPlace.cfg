CONSTANTS
    Files <- MCFiles
    Texts <- MCTexts
    Ragged = {}
    Notes <- MCNotes
    NoNote = "none"
    Gone = "gone"
    MaxChanges = 3
    MaxCommands = 2
SPECIFICATION DerivedSpec
INVARIANT OneDocumentPerText
CHECK_DEADLOCK FALSE
