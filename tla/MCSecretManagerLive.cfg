SPECIFICATION FairSpec
CONSTANTS
    N = 2
    Names = {n1, n2}
    Ops = {o1, o2}
    Values = {v1}
    Thresholds = {2}
    NoShare = NoShare
    NoJob = NoJob
INVARIANT SharesInPlace
PROPERTY EveryCallEnds
