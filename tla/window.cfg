SPECIFICATION FairSpec
CONSTANTS
    SlotsPerDay = 4
    Windows <- Openable
    MaxDay = 14
INVARIANT RunsInWindow
INVARIANT NearestSameDay
PROPERTY DeferredOnce
PROPERTY DeferredRuns
