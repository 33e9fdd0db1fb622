SPECIFICATION Spec
CONSTANTS
    Handlers = {h1, h2}
    h1 = h1
    h2 = h2
    NULL = NULL
    Sent = {"write", "list"}
    GetQueries = 2
    MaxRows = 1
PROPERTIES
    ListingsAnswered
CHECK_DEADLOCK FALSE
