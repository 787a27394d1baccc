SPECIFICATION Spec
CONSTANTS
    FileHandles = {3, 4}
    Moods <- EveryMood
    Regressions <- NoRegressions
    MisjudgedCode = 3
    AlphabetLength = 2
    CodeCount = 6
    MaxResets = 0
INVARIANT StdoutStillValid
