SPECIFICATION MCFairSpec
CONSTANTS
    Msg = {m1, m2}
    WarnMsg = warn
    BatchSize = 2
    MaxEvents = 4
    MaxFailures = 1
INVARIANTS TypeOK Conservation DrainedAtReturn BatchBound
PROPERTIES ChannelSpec DrainEnds ShutdownReturns EventuallySettled NoOrphanWriter
