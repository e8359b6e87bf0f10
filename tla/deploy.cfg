SPECIFICATION FairSpec
CONSTANTS
    SlotsPerDay = 3
    Requests = {1, 2}
    Domains = {"a", "b"}
    Targets <- MCTargets
    WindowOf <- MCWindowOf
    DomainsOf <- MCDomainsOf
    Selections <- MCSelections
    NoWindow = NoWindow
    NoTarget = NoTarget
    JobName <- MCJobName
    Workers = 1
    Faults = {"device", "restart"}
    LastStart <- MCLastStart
    MaxDay = 0
INVARIANT TypeOK
INVARIANT DeferredAccounted
INVARIANT MissedOnlyWhenLate
PROPERTY NewestStays
PROPERTY JobsStartInWindow
PROPERTY EveryTargetAnswered
PROPERTY DeferredEnds
