SPECIFICATION Spec
CONSTANTS
    r1 = r1  r2 = r2  r3 = r3  p1 = p1  p2 = p2
    n1 = n1  n2 = n2  n3 = n3  z1 = z1
    Requests = {r1, r2, r3}
    Procs = {p1, p2}
    ProcOf <- MCProcOf
    Threaded = FALSE
    Names = {n1}
    Zones = {z1}
    ZoneOf <- MCZoneOf
    Values = {v1}
    NoTxt = NoTxt  NoZone = NoZone  NoProc = NoProc
    Faults = {}
    MaxCi = 1
INVARIANT AuthOkIsPublished
