SPECIFICATION Spec
CONSTANTS
    Kinds = {"f5", "ivanti", "exchange"}
    Calls = {c1, c2, c3}
    Domains <- MCDomains
    Wild = {"*.example.com"}
    Objects <- MCObjects
    NameOf <- MCNameOf
    Contains <- MCContains
    Profiles = {p1}
    None = None
    Empty = Empty
    NoCall = NoCall
    NoProfile = NoProfile
    Faults = {"prepare", "refuse", "net", "crash"}
INVARIANT TypeOK
INVARIANT PairsMatch
INVARIANT ProfilesFollowTheirName
INVARIANT NoFileLeft
PROPERTY ImplementsTarget
