SPECIFICATION FairSpec
CONSTANTS
    p = p
    h = h
    Callers = {p, h}
    Spanned = {h}
    Configured <- MCConfigured
    Levelnos <- MCLevelnos
    Filter = 3
    Callbacks = {"on_event"}
    MaxSwaps = 2
PROPERTIES
    EmitNonBlocking
CHECK_DEADLOCK FALSE
