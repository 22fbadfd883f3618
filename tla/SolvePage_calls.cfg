\* One text in the editor, or none, and two levels of hints.
SPECIFICATION FairSpec
CONSTANTS
    Codes = {c1}
    Blank = Blank
    HintLevels = 2
INVARIANTS
    TypeOK
    ShowsLatest
    DraftIsKept
PROPERTIES
    VerdictIsShown
    CallEnds
