SPECIFICATION FairSpec
CONSTANTS
    Characters = 64
    RTTLines = 2
    MaxAttach = 2
INVARIANT TypeOK
INVARIANT ClockedWithinLimits
PROPERTY PrintsInOrder
PROPERTY OnlyStalledHostStopsText
PROPERTY LogFollowsWire
