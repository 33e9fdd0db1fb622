SPECIFICATION ReaderSpec
CONSTANTS
    PointIds = {"a"}
    Code <- RegisterCode
    Hoist <- RegisterHoist
    Fold <- RegisterFold
    Rated <- RegisterRated
    Planned <- RegisterPlanned
    Readings <- PlainReadings
    Details = {"first night"}
    PrecheckKey <- RegisterKey
    MaxPerCall = 2
    NULL = NULL
    Approvers = {"lead", "lead "}
    Trim <- NoBlanks
    MaxTests = 2
    MaxBehind = 1
INVARIANTS
    NoFalseAlarm
CHECK_DEADLOCK FALSE
