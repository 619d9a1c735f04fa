SPECIFICATION Spec
CONSTANTS
    Threads = {t1, t2}
    Configs <- FullOrConsole
    MaxInits = 2
    MaxItems = 1
INVARIANT ShutdownTearsDownAll
