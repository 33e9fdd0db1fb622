SPECIFICATION Spec
CONSTANTS
    PointIds = {"a"}
    Code <- OwnText
    Hoist <- OwnText
    Fold <- OwnFold
    Rated <- LoadRated
    Planned <- LoadPlanned
    Readings <- PlainReadings
    Details = {"details"}
    MaxPerCall = 2
    NULL = NULL
    Approvers = {"lead", "lead "}
    Trim <- NoBlanks
    MaxTests = 3
INVARIANTS
    PassingRetestCloses
CHECK_DEADLOCK FALSE
