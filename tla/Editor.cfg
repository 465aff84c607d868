CONSTANTS
    Params <- GainAndHarmonics
    Top = 2
    Scale <- SmallScale
    KNOB_DRAG_PIXELS = 1
    KNOB_STEP_LINES = 1
    KNOB_FINE_FACTOR = 2
    Slot = 2
    CenterY = 2
    Radius = 1
    Points <- SmallPoints
    Cuts = 1
    Lines <- OneLine
    None = None
SPECIFICATION FairSpec
INVARIANTS TypeOK RepaintOwed HoverHonest OneDrag GesturesPaired TypedBack
PROPERTIES PictureFollows FineIsFine
