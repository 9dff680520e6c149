SPECIFICATION HyenaSpec
CONSTANTS
    N = 3
    Names = {n1}
    Ops = {o1}
    Values = {v1}
    Thresholds = {2, 3, 4}
    Pods = {p1}
    NoShare = NoShare
    NoJob = NoJob
    Garbage = Garbage
    NoSecret = NoSecret
INVARIANT HyenaTypeOK
INVARIANT ReadsWhatWasStored
INVARIANT OneStoreNeverGarbage
