SPECIFICATION FairSpec
CONSTANTS
    E = 3
    Thresholds = {2, 4}
    RetryLimits <- MCRetryLimits
    Timeout = 1
    CallerCancels = TRUE
INVARIANT TypeOK
INVARIANT SendNeverBlocks
INVARIANT ReturnsThresholdShares
INVARIANT ErrorMeansExhausted
INVARIANT ReturnsInTime
PROPERTY ImplementsQuorumFetch
PROPERTY Terminates
