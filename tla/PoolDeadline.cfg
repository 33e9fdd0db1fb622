SPECIFICATION TimedSpec
CONSTANTS
    Handlers = {h1, h2}
    h1 = h1
    h2 = h2
    NULL = NULL
    Sent = {"write", "issue", "read", "audit", "list"}
    GetQueries = 2
    MaxRows = 2
INVARIANTS
    IInv
    HoldAndWait
PROPERTIES
    RequestsEnd
