SPECIFICATION FairSpec
CONSTANTS
    Domains = {d1}
    Lifetime = 2
    InitialLeft = 2
    warn_days = {1}
    renew_threshold = 1
    renew_percentage = 0
    Manual = {}
    Workers = 1
    FaultSets = {{"stop"}}
PROPERTY RenewsInWindow
