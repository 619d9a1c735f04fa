CONSTANT MaxSinks = 2
SPECIFICATION Spec
INVARIANTS TypeOK BuiltConfigResolves InstalledAsListed
CHECK_DEADLOCK FALSE
