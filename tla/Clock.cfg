SPECIFICATION Spec
CONSTANTS
    Hosts <- SomeHosts
    Epoch <- LateEpoch
    Word <- ScaledWord
INVARIANT TypeOK
INVARIANT JitterTolerated
INVARIANT SteadyHostKeepsTime
INVARIANT RateJudged
INVARIANT CalibratedPeriodSuffices
INVARIANT TriesEightSeconds
INVARIANT FailedClockCaught
INVARIANT WaitsOnRunningTimer
PROPERTY StepsRunOut
