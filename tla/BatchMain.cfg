SPECIFICATION Spec
CONSTANTS
    PointIds = {"a", "b"}
    Code <- OwnText
    Hoist <- OwnText
    Fold <- OwnFold
    Rated <- LoadRated
    Planned <- LoadPlanned
    Readings <- BoundaryReadings
    Details = {"details"}
    MaxPerCall = 2
    NULL = NULL
    Approvers = {"lead", "lead ", "deputy"}
    Trim <- NoBlanks
    MaxTests = 3
INVARIANTS
    TypeOK
    OpenDeviationBlocks
    FailedPointHeld
    ClosedAtSafeLoad
    CriticalBlocks
    SnapshotCurrent
    ReleasedSound
    ClosedDeviationProven
    NoStrandedWork
    IInv
PROPERTIES
    ReleaseFinal
    DeviationHistory
    ImplementsGate
CHECK_DEADLOCK FALSE
