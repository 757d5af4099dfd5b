\* Every chain of three layers.
CONSTANTS
    r = r
    s = s
    Texts <- MCTexts
    Layers <- MCLayers
    Depth = 3
    Unset = Unset
    Generic = Generic
    Absent = Absent
    Broken = Broken
    Unreadable = Unreadable
SPECIFICATION Spec
INVARIANTS
    TypeOK
    ExclusionWins
    SeverityIsSafe
    ReasonIsOfTheExclusion
    FieldsFailOpen
CHECK_DEADLOCK FALSE
