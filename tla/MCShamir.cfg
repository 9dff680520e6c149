SPECIFICATION Spec
CONSTANTS
    Dividends <- MCDividends
    Secrets <- MCSecrets
    Sizes <- MCSizes
    Perms <- MCPerms
    Randoms <- MCRandoms
    MaxPicks = 4
INVARIANTS
    DivisionUndoesMultiplication
    DistinctPartsAreAccepted
    AnyThresholdPartsRecover
    OnePartTellsNothing
    NeverPanics
CHECK_DEADLOCK FALSE
