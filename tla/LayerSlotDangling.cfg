SPECIFICATION Spec
CONSTANTS
    p = p
    h = h
    Callers = {p, h}
    Spanned = {h}
    Configured <- MCConfigured
    Levelnos <- MCLevelnos
    Filter = 3
    Callbacks = {"on_event"}
    MaxSwaps = 2
INVARIANTS
    PointersAreLive
CHECK_DEADLOCK FALSE
