SPECIFICATION FairSpec
CONSTANTS
    Domains = {d1, d2}
    Lifetime = 2
    InitialLeft = 2
    warn_days = {1}
    renew_threshold = 1
    renew_percentage = 0
    Manual = {d2}
    Workers = 1
    FaultSets = {{}, {"vault", "renew", "missing", "stop", "restart"}}
INVARIANT TypeOK
INVARIANT NoConcurrentRenewals
PROPERTY FirstRenewal
PROPERTY DeferredRenewalRuns
PROPERTY Warned
PROPERTY StartupEnds
