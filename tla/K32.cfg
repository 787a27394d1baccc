SPECIFICATION FairSpec
CONSTANTS
    RAMBytes = 16
    Layouts <- SomeLayouts
    MaxResets = 2
    Delay = 3
INVARIANT TypeOK
INVARIANT StaticsReady
INVARIANT AlignedNeverFaults
INVARIANT NeverUnclocked
INVARIANT BlinksOnSlowClock
INVARIANT OthersDark
PROPERTY RangeChangedOffClock
PROPERTY BlinksSteadily
PROPERTY KeepsBlinking
