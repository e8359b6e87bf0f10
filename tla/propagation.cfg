SPECIFICATION FairSpec
CONSTANTS
    ns1 = ns1  ns2 = ns2  private = private
    Nameservers = {ns1, ns2, private}
    Requested <- AllRequests
    Configurations <- AllConfigs
    Public <- OneServer
    Valid = {ns1, ns2}
    Timeouts = {0, 1, 4}
    Intervals = {0, 1, 2, 5}
    QueryTime = 1
    MaxClock = 15
INVARIANT PropagatedInOneRound
INVARIANT SomebodyAsked
INVARIANT ReportComplete
INVARIANT HeldAtMost
PROPERTY Returns
