SPECIFICATION Spec
CONSTANTS
    FileHandles = {3, 4, 5}
    Moods <- EveryMood
    Regressions <- EveryRegression
    MisjudgedCode = 2
    AlphabetLength = 2
    CodeCount = 6
    MaxResets = 1
INVARIANT RegressionCaught
INVARIANT LeakBound
INVARIANT CleanOnSuccess
INVARIANT VerdictDelivered
