SPECIFICATION Spec
CONSTANTS
    N = 2
    Names = {n1}
    Ops = {o1, o2}
    Values = {v1}
    Thresholds = {2}
    NoShare = NoShare
    NoJob = NoJob
SYMMETRY MCSymmetry
INVARIANT DeletedEverywhere
