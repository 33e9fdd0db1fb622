SPECIFICATION ServerSpec
CONSTANTS
    Batches = {b1, b2}
    Keys = {k1, k2, k3, k4, k5, k6}
    Handlers = {h1, h2}
    b1 = b1
    b2 = b2
    k1 = k1
    k2 = k2
    k3 = k3
    k4 = k4
    k5 = k5
    k6 = k6
    h1 = h1
    h2 = h2
    NULL = NULL
    AuditCap = 2
    Changes = {}
    Reuse = FALSE
    MaxStale = 0
    MaxVersion = 3
    MaxSerial = 3
SYMMETRY Symmetry
INVARIANTS
    CredentialsSound
    AuditFinds
    MigrationWhole
PROPERTIES
    NewerUntouched
CHECK_DEADLOCK FALSE
