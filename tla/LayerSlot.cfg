SPECIFICATION FairSpec
CONSTANTS
    p = p
    h = h
    Callers = {p, h}
    Spanned = {h}
    Configured <- MCConfigured
    Levelnos <- MCLevelnos
    Filter = 3
    Callbacks = {"on_event", "on_enter"}
    MaxSwaps = 3
INVARIANTS
    TypeOK
    NoUseAfterDrop
    FilterAgrees
    StuckOnlyByReentry
PROPERTIES
    TableSpec
    CallsEnd
    SwapsEnd
CHECK_DEADLOCK FALSE
