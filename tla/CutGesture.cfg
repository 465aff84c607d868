CONSTANTS
    Params = {1}
    Lo = 1
    Hi = 2
    Default = 1
    HostValues = {}
    Chunks <- NoChunks
    Capacity = 3
    Hosts <- X11
    None = None
SPECIFICATION Spec
INVARIANTS GesturesNest
