SPECIFICATION Spec
CONSTANTS
    Batches = {b1}
    Keys = {k1, k2, k3, k4}
    Handlers = {h1, h2}
    b1 = b1
    k1 = k1
    k2 = k2
    k3 = k3
    k4 = k4
    h1 = h1
    h2 = h2
    NULL = NULL
    AuditCap = 2
    Changes = {lock_batch, record_test}
    lock_batch = lock_batch
    record_test = record_test
    Reuse = TRUE
    MaxStale = 1
    MaxVersion = 3
    MaxSerial = 2
SYMMETRY Symmetry
INVARIANTS
    AuditTrail
    KeysMatchAudit
    AnswerTrue
    IInv
PROPERTIES
    FirstResultStays
    ImplementsLedger
