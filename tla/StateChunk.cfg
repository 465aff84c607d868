CONSTANTS
    Order <- Ids
    Lo = 1
    Hi = 2
    HostValues = {0, 2}
    NaN = NaN
    Foreign <- Chunks
    Kept = {7, 21}
    Portions = {1, 5}
    STATE_MAX_ENTRIES = 3
SPECIFICATION FairSpec
INVARIANTS StaysInBuffer
PROPERTIES LoadsWholeEntries RoundTrip LoadReturns
