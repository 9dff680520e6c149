SPECIFICATION FairSpec
CONSTANTS
    n1 = n1
    n2 = n2
    p1 = p1
    p2 = p2
    Envs <- MCEnvs
    Requests = {1, 2, 3}
    Sends <- MCSends
    Names = {n1, n2}
    Splits = {p1, p2}
    NoShare = NoShare
INVARIANTS
    TypeOK
    MapAccessIsExclusive
    CallsTakeEffect
    GetShareIsForAllowedCallers
PROPERTIES
    ImplementsShareMap
    StopEnds
