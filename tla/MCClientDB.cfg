SPECIFICATION Spec
CONSTANTS
    clients = clients
    smart = smart
    id1 = id1
    x1 = x1
    x2 = x2
    x3 = x3
    Sources <- TwoSources
    IDs <- MCIDs
    Slots <- MCSlots
    Nil = Nil
    MaxChanges = 2
INVARIANTS
    StoreInv
    DeferralInv
    NoUpdateLost
PROPERTIES
    AllOrNothing
    DeferredAreTaken
    Healed
    CloseStops
