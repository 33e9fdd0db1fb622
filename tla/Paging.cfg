SPECIFICATION FairPagingSpec
CONSTANTS
    Ids = {1, 2, 3, 4}
    Times <- Evening
    TextRank <- EveningText
    BaseRisks = {1, 3}
    Limit = 2
    Now = {0, 60}
    MaxChanges = 1
    NULL = NULL
INVARIANTS
    EachOnce
    OverdueTrue
PROPERTIES
    CursorAdvances
    WalkEnds
