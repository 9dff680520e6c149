SPECIFICATION FairSpec
CONSTANTS
    Envs <- MCEnvs
    Names <- MCNames
    Dotted <- MCDotted
    N = 2
    Thresholds = {2}
    MaxStores = 2
    Garbage = Garbage
    Faults = {"fetch", "token", "kill", "server", "delete", "sandbox"}
INVARIANTS
    TypeOK
    AppHasTheSecretsOfTheLastRun
    AppServesEverySecret
    DefaultPathsAreWritten
    RefusalsAreExplained
PROPERTIES
    RunsEnd
