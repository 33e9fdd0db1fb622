SPECIFICATION Spec
CONSTANTS
    Handlers = {h1, h2, h3}
    h1 = h1
    h2 = h2
    h3 = h3
    NULL = NULL
    Sent = {"write", "list"}
    GetQueries = 2
    MaxRows = 0
INVARIANTS
    ConnectionAccounted
PROPERTIES
    RequestsAnswered
