SPECIFICATION Spec
CONSTANT Depth = 2
INVARIANT TypeOK
INVARIANT TakenFromAnyState
INVARIANT RateKept
PROPERTY PrintsText
PROPERTY LEDFollowsWire
