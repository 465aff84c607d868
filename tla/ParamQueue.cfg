CONSTANTS
    Size = 4
    e1 = e1
    e2 = e2
    Events = {e1, e2}
    None = None
    Torn = Torn
SPECIFICATION FairSpec
INVARIANTS NoSlotRace NoTornEvent IndInv
PROPERTIES ImplementsChannel ChannelLive
