CONSTANTS
    FIXED_SCALE = 128
    INTEGRATOR_UNIT = 8
    COEF_SCALE = 4096
    smooth_alpha = 48
    Highpass <- BassHighpass
    Lowpass <- LoudLowpass
    Lows <- BurstLows
    Burst = 12
SPECIFICATION BurstSpec
INVARIANTS TypeOK DecimatorFits
PROPERTIES RingsOut
