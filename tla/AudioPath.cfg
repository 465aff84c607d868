CONSTANTS
    OffDb = 0
    Off = 1
    Gains = {0, 1, 2}
    Cutoffs = {1, 3}
    Rates = {4}
    Blocks = {0, 2}
    Frames = {}
    HostPlans <- Plans
SPECIFICATION FairPathSpec
INVARIANTS SampleAccurate TunedAsFresh BandNotInverted ChunkFitsScratch IndInv
PROPERTIES EngineFollows
