SPECIFICATION ReaderSpec
CONSTANTS
    PointIds = {"a", "b", "B", "c", "d"}
    Code <- RegisterCode
    Hoist <- RegisterHoist
    Fold <- RegisterFold
    Rated <- RegisterRated
    Planned <- RegisterPlanned
    Readings <- PlainReadings
    Details = {"first night"}
    PrecheckKey <- RegisterKey
    MaxPerCall = 2
    NULL = NULL
    Approvers = {"lead", "lead "}
    Trim <- NoBlanks
    MaxTests = 2
    MaxBehind = 3
INVARIANTS
    CodesDistinct
    ReaderTypeOK
    ReadCurrent
    PreviewTrue
    VerificationTrue
    HistoryTrue
    PrecheckReliable
CHECK_DEADLOCK FALSE
