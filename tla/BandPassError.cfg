CONSTANTS
    FIXED_SCALE = 8
    INTEGRATOR_UNIT = 2
    COEF_SCALE = 8
    smooth_alpha = 4
    Highpass <- SmallHighpass
    Lowpass <- SmallLowpass
    Lows <- FullScale
    Burst = 12
SPECIFICATION BurstSpec
INVARIANTS RoundingOnly
