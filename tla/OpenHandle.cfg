SPECIFICATION Spec
CONSTANTS
    FileHandles = {3, 4}
    Moods <- Steady
    Regressions <- ForgetsClose
    MisjudgedCode = 3
    AlphabetLength = 2
    CodeCount = 6
    MaxResets = 0
INVARIANT OpenHandleFound
