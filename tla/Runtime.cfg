SPECIFICATION FairSpec
CONSTANTS
    Threads = {t1, t2}
    Configs <- FullOrConsole
    MaxInits = 2
    MaxItems = 1
INVARIANTS TypeOK LayersMatchState GlobalsMatchState InstalledIsUp NoDeadLayer ShutdownCovers FlushCovers
PROPERTIES ServiceSpec CallsReturn
