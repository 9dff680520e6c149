SPECIFICATION HyenaSpec
CONSTANTS
    N = 2
    Names = {n1}
    Ops = {o1, o2}
    Values = {v1}
    Thresholds = {2}
    Pods = {p1}
    NoShare = NoShare
    NoJob = NoJob
    Garbage = Garbage
    NoSecret = NoSecret
SYMMETRY MCSymmetry
INVARIANT DeletedIsUnreadable
INVARIANT HyenaIInv
