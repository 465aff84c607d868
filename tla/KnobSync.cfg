CONSTANTS
    Params = {1}
    Lo = 1
    Hi = 2
    Default = 1
    HostValues = {0, 2}
    Chunks <- SavedStates
    Capacity = 1
    Hosts <- EveryHost
    None = None
SPECIFICATION FairSpec
INVARIANTS TypeOK KnobsCoherent GesturesWellFormed HostKnows
PROPERTIES KnobsSettle
