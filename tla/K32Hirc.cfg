SPECIFICATION Spec
CONSTANTS
    RAMBytes = 16
    Layouts <- SomeLayouts
    MaxResets = 0
    Delay = 2
INVARIANT HIRCOffAfterCleanUp
