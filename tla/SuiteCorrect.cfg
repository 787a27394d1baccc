SPECIFICATION FairSpec
CONSTANTS
    FileHandles = {3, 4}
    Moods <- EveryMood
    Regressions <- NoRegressions
    MisjudgedCode = 3
    AlphabetLength = 28
    CodeCount = 100
    MaxResets = 2
INVARIANT TypeOK
PROPERTY NoFalseAlarm
PROPERTY RunEnds
PROPERTY KeepsContract
PROPERTY StepsRunOut
