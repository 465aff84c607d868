CONSTANTS
    FIXED_SCALE = 16
    Tunings = {1, 3, 7}
    Inputs <- SomeSamples
SPECIFICATION FairSpec
INVARIANTS LowpassBounded
PROPERTIES NoLimitCycle NoDcOffset
