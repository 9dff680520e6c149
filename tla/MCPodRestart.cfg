SPECIFICATION FairSpec
CONSTANTS
    Envs <- ChartEnvs
    Names <- MCNames
    Dotted <- MCDotted
    N = 2
    Thresholds = {2}
    MaxStores = 2
    Garbage = Garbage
    Faults = {}
INVARIANT CrashesOnlyUntilStored
